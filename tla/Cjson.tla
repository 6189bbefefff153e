------------------------------- MODULE Cjson -------------------------------
(***************************************************************************)
(* JSON values and their text: new_elbs/cJSON.cc.                           *)
(*                                                                         *)
(* A value is a tree of nodes [type, name, str, int, dbl, kids]; name is    *)
(* cJSON::string ("" for none), int and dbl are valueint and valuedouble,   *)
(* kids the chain that starts at child.  Numbers are whole, and IntMax      *)
(* stands for INT_MAX: a double beyond it does not fit valueint.  A text is *)
(* a sequence of <<character, 0>>, where a number is one <<"num", value>>,  *)
(* and so are the words null, true and false.  White space is left out.     *)
(***************************************************************************)
EXTENDS Integers, SequencesExt

CONSTANTS
    IntMax,    \* INT_MAX
    Lower      \* tolower on the names that occur

ASSUME IntMaxAssumption == IntMax \in Nat

\* cJSON_New_Item.
NewItem(type) ==
    [type |-> type, name |-> "", str |-> <<>>, int |-> 0, dbl |-> 0, kids |-> <<>>]

\* The conversion of a double to int: what does not fit becomes INT_MIN.
ToInt(num) == IF num \in -(IntMax + 1)..IntMax THEN num ELSE -(IntMax + 1)

CreateNumber(num) == [NewItem("Number") EXCEPT !.dbl = num, !.int = ToInt(num)]
CreateString(str) == [NewItem("String") EXCEPT !.str = str]
CreateBool(b) == NewItem(IF b THEN "True" ELSE "False")
CreateArray == NewItem("Array")
CreateObject == NewItem("Object")

\* cJSON_strcasecmp.
SameName(a, b) == a # "" /\ b # "" /\ Lower[a] = Lower[b]

-----------------------------------------------------------------------------
(* Printing.                                                               *)

Char(c) == <<c, 0>>

\* Mutant: a backslash is printed as it is.
EscapedQuotesOnly(c) ==
    CASE c = "\"" -> <<Char("\\"), Char("\"")>>
      [] c = "\n" -> <<Char("\\"), Char("n")>>
      [] OTHER -> <<Char(c)>>

\* print_string_ptr: quotes, backslashes and control characters are escaped.
Escaped(c) ==
    CASE c = "\"" -> <<Char("\\"), Char("\"")>>
      [] c = "\\" -> <<Char("\\"), Char("\\")>>
      [] c = "\n" -> <<Char("\\"), Char("n")>>
      [] OTHER -> <<Char(c)>>

print_string_ptr(str) ==
    <<Char("\"")>> \o FlattenSeq([i \in DOMAIN str |-> Escaped(str[i])]) \o <<Char("\"")>>

\* print_number: valueint when both agree, else valuedouble.
print_number(item) ==
    <<<<"num", IF item.int = item.dbl THEN item.int ELSE item.dbl>>>>

\* print_value, print_array, print_object.
RECURSIVE print_value(_)
print_list(open, close, entries) ==
    <<Char(open)>>
        \o FlattenSeq([i \in DOMAIN entries |->
               entries[i] \o IF i = Len(entries) THEN <<>> ELSE <<Char(",")>>])
        \o <<Char(close)>>

print_array(item) ==
    print_list("[", "]", [i \in DOMAIN item.kids |-> print_value(item.kids[i])])

print_object(item) ==
    print_list("{", "}", [i \in DOMAIN item.kids |->
        print_string_ptr(<<item.kids[i].name>>) \o <<Char(":")>> \o print_value(item.kids[i])])

print_value(item) ==
    CASE item.type = "NULL" -> <<Char("null")>>
      [] item.type = "False" -> <<Char("false")>>
      [] item.type = "True" -> <<Char("true")>>
      [] item.type = "Number" -> print_number(item)
      [] item.type = "String" -> print_string_ptr(item.str)
      [] item.type = "Array" -> print_array(item)
      [] item.type = "Object" -> print_object(item)

-----------------------------------------------------------------------------
(* Parsing.  A parser takes the text and the position of the next character *)
(* and returns [pos, item]; pos is 0 when it failed and -1 when it read     *)
(* behind the end of the text.                                              *)

At(text, pos) == IF pos \in 1..Len(text) THEN text[pos][1] ELSE "end"
Failed == [pos |-> 0, item |-> NewItem("NULL")]
Overrun == [pos |-> -1, item |-> NewItem("NULL")]

\* parse_string.  The text may end inside the string; after a backslash the
\* character that ends the text is taken for part of the string.
RECURSIVE StringFrom(_, _, _)
StringFrom(text, pos, str) ==
    LET c == At(text, pos)
        escaped == At(text, pos + 1)
    IN  CASE c = "\"" -> [pos |-> pos + 1, item |-> CreateString(str)]
          [] c = "end" -> [pos |-> pos, item |-> CreateString(str)]
          [] c = "\\" /\ escaped = "end" -> Overrun
          [] c = "\\" /\ escaped # "end" ->
               StringFrom(text, pos + 2, Append(str, IF escaped = "n" THEN "\n" ELSE escaped))
          [] OTHER -> StringFrom(text, pos + 1, Append(str, c))

parse_string(text, pos) ==
    IF At(text, pos) # "\"" THEN Failed ELSE StringFrom(text, pos + 1, <<>>)

\* parse_value, and the loops of parse_array and parse_object: one child,
\* then more of them as long as commas follow.
RECURSIVE parse_value(_, _), parse_children(_, _, _)
parse_member(text, pos) ==
    LET name == parse_string(text, pos)
        v    == parse_value(text, name.pos + 1)
    IN  IF name.pos <= 0 THEN name
        ELSE IF At(text, name.pos) # ":" THEN Failed
        ELSE IF v.pos <= 0 THEN v
        ELSE [v EXCEPT !.item.name = IF name.item.str = <<>> THEN "" ELSE name.item.str[1]]

parse_children(text, pos, parent) ==
    LET child == IF parent.type = "Object" THEN parse_member(text, pos)
                 ELSE parse_value(text, pos)
        now   == [parent EXCEPT !.kids = Append(@, child.item)]
        close == IF parent.type = "Object" THEN "}" ELSE "]"
    IN  IF child.pos <= 0 THEN child
        ELSE IF At(text, child.pos) = "," THEN parse_children(text, child.pos + 1, now)
        ELSE IF At(text, child.pos) = close THEN [pos |-> child.pos + 1, item |-> now]
        ELSE Failed

parse_value(text, pos) ==
    LET c == At(text, pos)
        Is(item) == [pos |-> pos + 1, item |-> item]
        Empty(close) == At(text, pos + 1) = close
    IN  CASE c = "null" -> Is(NewItem("NULL"))
          [] c = "false" -> Is(NewItem("False"))
          [] c = "true" -> Is([NewItem("True") EXCEPT !.int = 1])
          [] c = "\"" -> parse_string(text, pos)
          [] c = "num" -> Is(CreateNumber(text[pos][2]))
          [] c = "[" -> IF Empty("]") THEN [pos |-> pos + 2, item |-> CreateArray]
                        ELSE parse_children(text, pos + 1, CreateArray)
          [] c = "{" -> IF Empty("}") THEN [pos |-> pos + 2, item |-> CreateObject]
                        ELSE parse_children(text, pos + 1, CreateObject)
          [] OTHER -> Failed

\* cJSON_Parse: what follows the value is not looked at.
Parse(text) == parse_value(text, 1)

-----------------------------------------------------------------------------
(* What a value means: valueint only counts in numbers.                    *)

RECURSIVE Meaning(_)
Meaning(item) ==
    [item EXCEPT !.int = IF item.type = "Number" THEN @ ELSE 0,
                 !.kids = [i \in DOMAIN item.kids |-> Meaning(item.kids[i])]]

\* A number whose valueint and valuedouble were set apart.
RECURSIVE Stale(_)
Stale(item) ==
    \/ item.type = "Number" /\ item.int # ToInt(item.dbl)
    \/ \E i \in DOMAIN item.kids : Stale(item.kids[i])
=============================================================================
