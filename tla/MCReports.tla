------------------------------ MODULE MCReports ------------------------------
(* Reports over every class of item.  300 takes two bytes of a varint, -70  *)
(* becomes an odd zigzag of two bytes; lists of 14 and 15 elements are the  *)
(* two sides of the packed size.                                            *)
EXTENDS Reports

MCInts == {0, -70, 300}
MCStrings == {<<>>, <<65, 66>>}
MCListSizes == {0, 1, 14, 15}
AllClasses == DOMAIN ItemClass
OnlyItem == {"ReportItem"}
NoOthers == {}

\* No element, some, and more than there is memory for.
MCStrays == {0, 2, 1000}

\* A member of every type, with an id that no class has, far behind the last
\* one; in the containers booleans, which are no field's type there, an empty
\* map, and items inside items.
MCOther(type, val) == [id |-> 3000, type |-> type, val |-> val]
MCOthers ==
    {MCOther("T_BOOL", TRUE), MCOther("T_BYTE", -3), MCOther("T_I16", 300),
     MCOther("T_DOUBLE", <<63, 240, 0, 0, 0, 0, 0, 1>>),
     MCOther("T_STRING", <<65>>),
     MCOther("T_LIST", [elem |-> "T_BOOL", vals |-> <<TRUE, FALSE>>]),
     MCOther("T_SET", [elem |-> "T_STRUCT",
                       vals |-> <<<<[id |-> 1, type |-> "T_BOOL", val |-> FALSE]>>, <<>>>>]),
     MCOther("T_MAP", [key |-> "T_I32", elem |-> "T_I32", vals |-> <<>>]),
     MCOther("T_MAP", [key |-> "T_STRING", elem |-> "T_DOUBLE",
                       vals |-> <<<<<<66>>, <<64, 0, 0, 0, 0, 0, 0, 0>>>>>>]),
     MCOther("T_STRUCT", <<[id |-> 20, type |-> "T_I64", val |-> -70],
                           [id |-> 5, type |-> "T_STRUCT", val |-> <<>>]>>)}
=============================================================================
