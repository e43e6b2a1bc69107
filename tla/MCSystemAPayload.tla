------------------------- MODULE MCSystemAPayload ---------------------------
(* Every callback over two bill numbers, numbers of up to two parts, up to two *)
(* lines, and amounts small and different enough to tell the lines apart.      *)
EXTENDS SystemAPayload, TLC

CONSTANTS b1, b2

MCTexts == UNION {[1..n -> {b1, b2, Blank}] : n \in 0..2}

MCLines == [amount : {2, 5}, taxAmount : {1}]

MCDetails == UNION {[1..n -> MCLines] : n \in 0..2}

\* Invoices whose amounts agree, with or without lines.
MCInvoices ==
  {i \in [vehicle : {"yes", "no"}, billNo : MCTexts, serialNo : {<<>>, <<b1>>, <<b1, b2>>},
          invoiceDetail : MCDetails \union {Null},
          invoiceAmount : {3}, totalAmount : {2, 4, 5, 7, 10}, totalTaxAmount : {1, 2},
          invoiceNum : {"none"}, invoiceNo : {"number"}] : Consistent(i)}

\* Any shape of callback around one invoice, any invoice in one shape.
MCSomeInvoice ==
  [vehicle |-> "no", billNo |-> <<b1>>, serialNo |-> <<b1>>, invoiceDetail |-> <<>>,
   invoiceAmount |-> 3, totalAmount |-> 0, totalTaxAmount |-> 0,
   invoiceNum |-> "number", invoiceNo |-> "none"]

MCCallbacks ==
  [json : {"object"}, returnCode : {"'0'"}, data : {"objectB64"}, invoice : MCInvoices]
    \union [json : {"object", "array", "broken"},
            returnCode : {"'0'", "'9999'", "0", "9999", "none"},
            data : {"object", "objectB64", "list", "listB64", "scalar", "garbage"},
            invoice : {MCSomeInvoice}]
=============================================================================
