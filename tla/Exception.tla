----------------------------- MODULE Exception -----------------------------
(***************************************************************************)
(* src/src/Exception.hh: the values a thrower attaches to an exception, in *)
(* a map from the types of their tags.  A value is looked up by the type   *)
(* of the ErrInfo it was attached as.                                      *)
(***************************************************************************)

\* The tag of each ErrInfo.  ExpectedTypeInfo and ActualTypeInfo are one type.
Tag == [ LineNumInfo |-> "Line", ColumnNumInfo |-> "Column", InvalidCharInfo |-> "InvalidChar_",
         ExpectedTypeInfo |-> "ExpectedType", ActualTypeInfo |-> "ExpectedType" ]

NoInfo == << >>

\* Exception::Add: emplace keeps the value of a tag that is there already.
Added(data, info, value) ==
  [ t \in DOMAIN data \cup { Tag[info] } |-> IF t \in DOMAIN data THEN data[t] ELSE value ]

\* Exception::Get, and its null pointer.
Has(data, info) == Tag[info] \in DOMAIN data
Get(data, info) == data[Tag[info]]
=============================================================================
