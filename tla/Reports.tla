------------------------------ MODULE Reports ------------------------------
(***************************************************************************)
(* A report item from the setters to the collector that reads it:           *)
(* the read and write functions of thrift/gen-cpp/report_item_types.cpp     *)
(* over the compact protocol, and the functions of turnserver_main.cc that  *)
(* fill an item and send it (SendSessionReport, SendQuitReport,             *)
(* SendConnectReport).                                                      *)
(*                                                                         *)
(* The collector is external; it reads with the same generated code, of     *)
(* this version or of one that lacks a field (ReportItem keeps the __isset  *)
(* bits of seven members that other versions have), and all of the item or  *)
(* only its first bytes.  An item may also come from a sender of a version  *)
(* that has a member more, of any type that Thrift knows.                   *)
(***************************************************************************)
EXTENDS ReportTypes, CompactProtocol, SequencesExt

CONSTANTS
    Classes,      \* the classes an item is taken from
    Ints,         \* values of integer members
    Strings,      \* values of string members
    ListSizes,    \* lengths of list members
    Others,       \* members that only another version has: [id, type, val]
    Strays,       \* what an uninitialised list size may hold
    Memory,       \* the longest list the collector has memory for
    MaxSet        \* bound: members set in one item

ASSUME ValueAssumption ==
    /\ Classes \subseteq DOMAIN ItemClass
    /\ Ints \subseteq -(2^28)..2^28
    /\ Memory \in Nat
    /\ ListSizes \subseteq 0..Memory
    /\ Strays \subseteq Nat
    /\ MaxSet \in Nat

-----------------------------------------------------------------------------
(* Items.  An item holds the members that were assigned; the others have    *)
(* the value their constructor gave them.                                   *)

Elem == "list<VosdkCounterItem>" :> "VosdkCounterItem"
     @@ "list<WrtcEventsSequenceItem>" :> "WrtcEventsSequenceItem"
     @@ "list<string>" :> "string"

IsClass(type) == type \in DOMAIN ItemClass
IsList(type) == type \in DOMAIN Elem

TType(type) ==
    IF IsClass(type) THEN "T_STRUCT" ELSE IF IsList(type) THEN "T_LIST"
    ELSE CASE type = "bool" -> "T_BOOL"
           [] type = "i16" -> "T_I16"
           [] type = "i32" -> "T_I32"
           [] type = "i64" -> "T_I64"
           [] type = "string" -> "T_STRING"

Fresh == [val |-> <<>>, isset |-> {}]

\* The constructors: numbers and booleans are zero, the rest is empty.
Default(type) ==
    IF IsClass(type) THEN Fresh
    ELSE IF IsList(type) \/ type = "string" THEN <<>>
    ELSE IF type = "bool" THEN FALSE ELSE 0

Value(n, item, f) ==
    IF f \in DOMAIN item.val THEN item.val[f] ELSE Default(ItemClass[n].members[f])

\* The copy constructors and operator =, down to the items inside.
RECURSIVE Copy(_, _)
Copy(type, v) ==
    IF IsClass(type)
    THEN [val |-> [f \in DOMAIN v.val \cap ItemClass[type].copy |->
                      Copy(ItemClass[type].members[f], v.val[f])],
          isset |-> IF "__isset" \in ItemClass[type].copy THEN v.isset ELSE {}]
    ELSE IF IsList(type) THEN [i \in DOMAIN v |-> Copy(Elem[type], v[i])]
    ELSE v

\* __set_f.
Set(n, item, f, v) ==
    [val   |-> f :> Copy(ItemClass[n].members[f], v) @@ item.val,
     isset |-> item.isset \cup ({f} \cap ItemClass[n].set)]

\* operator ==.
RECURSIVE Equal(_, _, _)
Equal(type, a, b) ==
    LET cls == ItemClass[type]
        Same(f) == Equal(cls.members[f], Value(type, a, f), Value(type, b, f))
    IN  IF IsClass(type)
        THEN /\ \A f \in cls.eq.always : Same(f)
             /\ \A f \in cls.eq.ifset : /\ f \in a.isset <=> f \in b.isset
                                        /\ f \in a.isset => Same(f)
        ELSE IF IsList(type)
        THEN /\ Len(a) = Len(b)
             /\ \A i \in DOMAIN a : Equal(Elem[type], a[i], b[i])
        ELSE a = b

-----------------------------------------------------------------------------
(* write and read of the classes.                                          *)

\* write: the members it emits, in its order, then the stop byte.
RECURSIVE writeItem(_, _)
writeValue(type, v) ==
    IF IsClass(type) THEN writeItem(type, v)
    ELSE CASE type = "string" -> writeBinary(v) [] OTHER -> writeInt(v)

writeList(type, list) ==
    writeListBegin(TType(type), Len(list))
        \o FlattenSeq([i \in DOMAIN list |-> writeValue(type, list[i])])

\* A member that only another version has, of any type: a value of a list, a
\* set or a map is [elem, vals] or [key, elem, vals], vals of a map in pairs.
RECURSIVE writeAny(_, _)
writeOther(last, e) ==
    IF e.type = "T_BOOL" THEN writeBoolField(last, e.id, e.val)
    ELSE writeFieldBegin(last, e.type, e.id) \o writeAny(e.type, e.val)

writeAny(ttype, v) ==
    CASE ttype = "T_BOOL" -> writeByte(BoolType(v))
      [] ttype = "T_BYTE" -> writeByte(v)
      [] ttype \in {"T_I16", "T_I32", "T_I64"} -> writeInt(v)
      [] ttype = "T_DOUBLE" -> writeDouble(v)
      [] ttype = "T_STRING" -> writeBinary(v)
      [] ttype = "T_STRUCT" ->
           FlattenSeq([i \in DOMAIN v |-> writeOther(lastFieldId(v, i), v[i])]) \o writeFieldStop
      [] ttype \in {"T_LIST", "T_SET"} ->
           (IF ttype = "T_LIST" THEN writeListBegin(v.elem, Len(v.vals))
            ELSE writeSetBegin(v.elem, Len(v.vals)))
               \o FlattenSeq([i \in DOMAIN v.vals |-> writeAny(v.elem, v.vals[i])])
      [] ttype = "T_MAP" ->
           writeMapBegin(v.key, v.elem, Len(v.vals))
               \o FlattenSeq([i \in DOMAIN v.vals |-> writeAny(v.key, v.vals[i][1])
                                                     \o writeAny(v.elem, v.vals[i][2])])

writeField(last, e, v) ==
    IF e.type = "bool" THEN writeBoolField(last, e.id, v)
    ELSE writeFieldBegin(last, TType(e.type), e.id)
             \o IF IsList(e.type) THEN writeList(Elem[e.type], v) ELSE writeValue(e.type, v)

\* With the members in front of it and behind it that only another version has.
writeAround(n, obj, before, after) ==
    LET Shown(e) == e.always \/ e.field \in obj.isset
        fields   == before \o SelectSeq(ItemClass[n].write, Shown) \o after
        Own(i)   == i > Len(before) /\ i <= Len(fields) - Len(after)
    IN  FlattenSeq([i \in DOMAIN fields |->
                       IF Own(i)
                       THEN writeField(lastFieldId(fields, i), fields[i],
                                       Value(n, obj, fields[i].field))
                       ELSE writeOther(lastFieldId(fields, i), fields[i])])
            \o writeFieldStop

writeItem(n, obj) == writeAround(n, obj, <<>>, <<>>)

\* The reader's tables, by class: read's cases less the ones it lacks.
Cases(lacks) == [n \in DOMAIN ItemClass |->
    {e \in ItemClass[n].read : <<n, e.field>> # lacks}]

\* A list whose head could not be read: its size is the variable that
\* readListBegin left unassigned.  resize makes as many elements as it holds,
\* each of which then fails to be read, or finds no memory for them: nobody
\* catches that exception, and the process is aborted.
Exhausted(r) == r.undef /\ r.stray > Memory

UnreadList(r, type) ==
    LET used == [r EXCEPT !.undef = TRUE]
    IN  [r |-> used, val |-> [i \in 1..(IF Exhausted(used) THEN 0 ELSE r.stray) |-> Default(type)]]

RECURSIVE readValue(_, _, _, _), readFields(_, _, _, _), readElements(_, _, _, _, _)
readItem(r, cases, n, item) ==
    LET End(f) == [f EXCEPT !.r = readStructEnd(@)]
    IN  End(readFields(readStructBegin(r), cases, n, item))

readValue(r, cases, type, old) ==
    LET List(head) ==
            IF head.r.err THEN UnreadList(head.r, Elem[type])
            ELSE readElements(head.r, cases, Elem[type], <<>>, head.val)
    IN  IF IsClass(type) THEN readItem(r, cases, type, old)
        ELSE IF IsList(type) THEN List(readListBegin(r))
        ELSE CASE type = "bool" -> readBool(r, old)
               [] type = "string" -> readBinary(r, old)
               [] OTHER -> readInt(r, old)

readElements(r, cases, type, list, n) ==
    LET Rest(e) == readElements(e.r, cases, type, Append(list, e.val), n - 1)
    IN  IF n = 0 \/ r.err THEN [r |-> r, val |-> list \o [i \in 1..n |-> Default(type)]]
        ELSE Rest(readValue(r, cases, type, Default(type)))

\* The loop of read.  A member whose value could not be read is marked all
\* the same; a case of the right id and another type is skipped.
readFields(r, cases, n, item) ==
    LET Stored(e, v) ==
            readFields(v.r, cases, n,
                [val   |-> e.field :> v.val @@ item.val,
                 isset |-> IF e.always THEN item.isset ELSE item.isset \cup {e.field}])
        Case(q, e) == Stored(e, readValue(q, cases, e.type, Value(n, item, e.field)))
        Got(f, match) ==
            IF f.type = "T_STOP" THEN [r |-> f.r, val |-> item]
            ELSE IF match = {} THEN readFields(skip(f.r, f.type), cases, n, item)
            ELSE Case(f.r, CHOOSE e \in match : TRUE)
        Begun(f) == Got(f, {e \in cases[n] : e.id = f.id /\ TType(e.type) = f.type})
    IN  Begun(readFieldBegin(r))

-----------------------------------------------------------------------------
(* From the setters to the collector.                                      *)

VARIABLES
    cls,       \* the class of the item
    item,      \* the item that is written
    meant,     \* history: the members that were set, and to what
    wire,      \* what write put into the TMemoryBuffer
    head,      \* ArgusReportHead::size_, 0 when no function of main sent it
    arrived,   \* how many bytes of it the collector has
    got,       \* what the collector read: its item, reader and missing case
    phase      \* "fill", "sent" and then "read", or "aborted" in the midst of it

vars == <<cls, item, meant, wire, head, arrived, got, phase>>

Nothing == [item |-> Fresh, r |-> NewReader(NewBuffer, 0), lacks |-> <<>>]

Init ==
    /\ cls \in Classes
    /\ item = Fresh
    /\ meant = <<>>
    /\ wire = <<>>
    /\ head = 0
    /\ arrived = 0
    /\ got = Nothing
    /\ phase = "fill"

\* Values for a member: of an item inside, nothing, its first or its last
\* member set.
RECURSIVE Samples(_), Typical(_)
Typical(type) ==
    IF IsClass(type) THEN LET e == Head(ItemClass[type].write)
                          IN  Set(type, Fresh, e.field, Typical(e.type))
    ELSE IF IsList(type) THEN <<Typical(Elem[type])>>
    ELSE CHOOSE v \in Samples(type) : v # Default(type)

Samples(type) ==
    IF IsClass(type)
    THEN LET fields == ItemClass[type].write
         IN  {Fresh} \cup {Set(type, Fresh, e.field, Typical(e.type)) :
                             e \in {fields[1], fields[Len(fields)]}}
    ELSE IF IsList(type) THEN {[i \in 1..k |-> Typical(Elem[type])] : k \in ListSizes}
    ELSE CASE type = "bool" -> BOOLEAN
           [] type = "string" -> Strings
           [] OTHER -> Ints

SetMember(f, v) ==
    /\ phase = "fill"
    /\ Cardinality(DOMAIN meant) < MaxSet
    /\ f \notin DOMAIN meant
    /\ item' = Set(cls, item, f, v)
    /\ meant' = f :> v @@ meant
    /\ UNCHANGED <<cls, wire, head, arrived, got, phase>>

\* item.write to a TMemoryBuffer, and getBuffer.
Sent(report, bytes, size) ==
    /\ item' = report
    /\ wire' = getBuffer(write(NewBuffer, bytes))
    /\ head' = size
    /\ arrived' = Len(wire')
    /\ phase' = "sent"
    /\ UNCHANGED <<cls, got>>

Write ==
    /\ phase = "fill"
    /\ Sent(item, writeItem(cls, item), 0)
    /\ UNCHANGED meant

\* A sender of another version, that has a member more.
WriteOther(before, after) ==
    /\ phase = "fill"
    /\ Sent(item, writeAround(cls, item, before, after), 0)
    /\ UNCHANGED meant

\* The members given one after the other.
RECURSIVE Filled(_, _, _)
Filled(n, from, members) ==
    IF members = <<>> THEN from
    ELSE Filled(n, Set(n, from, members[1][1], members[1][2]), Tail(members))

ReportItemType == [Session |-> 1001, WebQuit |-> 1029, WrtcConnectProxyTurnWorker |-> 2026]

\* sizeof(ArgusReportHead): size_, type_, qos_ and four words.
ArgusReportHead == 2 + 1 + 1 + 4 * 4

\* A report function of main: the item is filled in place, its event marked
\* by hand; the 16 bits of size_ hold the size of the head and the payload.
SendReport(uri, member, event) ==
    LET report == [val |-> "uri" :> uri @@ member :> event, isset |-> {member}]
        payload == writeItem("ReportItem", report)
    IN  /\ phase = "fill" /\ cls = "ReportItem" /\ meant = <<>>
        /\ meant' = report.val
        /\ Sent(report, payload, (Len(payload) + ArgusReportHead) % 65536)

\* The texts and numbers that main writes into every report are constants
\* of no interest here.
Text == <<84, 85>>
Number == 1000

CommonHeader ==
    <<<<"sid", Text>>, <<"lts", Number>>, <<"cname", Text>>, <<"uid", Number>>,
      <<"cid", Number>>>>

\* evt.__isset.header = true, and the setters of evt.header.
EventWith(header, n, members) ==
    Filled(n, [val |-> "header" :> Filled("VosdkHeader", Fresh, header), isset |-> {"header"}],
           members)

SendSessionReport ==
    SendReport(ReportItemType.Session, "vosdkSession",
        EventWith(CommonHeader, "VosdkSession",
            <<<<"vk", Text>>, <<"ver", Text>>, <<"cheVer", Text>>, <<"localIp", Text>>,
              <<"net1", 1>>, <<"os1", 7>>, <<"did", Text>>, <<"pnq", -1>>, <<"info", Text>>>>))

SendQuitReport ==
    SendReport(ReportItemType.WebQuit, "vosdkWebQuit",
        EventWith(CommonHeader \o <<<<"elapse", Number>>>>, "VosdkWebQuit", <<<<"ec", 0>>>>))

SendConnectReport(clientaddr, usercount, ingress, egress) ==
    SendReport(ReportItemType.WrtcConnectProxyTurnWorker, "wrtcConnectProxyTurnWorker",
        EventWith(CommonHeader, "WrtcConnectProxyTurnWorker",
            <<<<"clientAddr", clientaddr>>, <<"userCount", usercount>>,
              <<"ingress", ingress>>, <<"egress", egress>>>>))

\* The stream ends, or one read returns, before the item is complete.
Cut(k) ==
    /\ phase = "sent"
    /\ arrived = Len(wire)
    /\ arrived' = k
    /\ UNCHANGED <<cls, item, meant, wire, head, got, phase>>

\* The collector reads what arrived into a new item, from a buffer that looks
\* at the bytes or has copied them, with `stray` on its stack.
Read(lacks, policy, stray) ==
    LET buffer == BufferOf(SubSeq(wire, 1, arrived), policy)
        Result(v) ==
            /\ got' = [item |-> v.val, r |-> [v.r EXCEPT !.stray = 0], lacks |-> lacks]
            /\ phase' = IF Exhausted(v.r) THEN "aborted" ELSE "read"
    IN  /\ phase = "sent"
        /\ Result(readItem(NewReader(buffer, stray), Cases(lacks), cls, Fresh))
        /\ UNCHANGED <<cls, item, meant, wire, head, arrived>>

\* The collector, started again if need be, and the sender go on.
NextReport ==
    /\ phase \in {"read", "aborted"}
    /\ item' = Fresh /\ meant' = <<>> /\ wire' = <<>> /\ head' = 0 /\ arrived' = 0
    /\ got' = Nothing
    /\ phase' = "fill"
    /\ UNCHANGED cls

Next ==
    \/ \E f \in DOMAIN ItemClass[cls].members :
         \E v \in Samples(ItemClass[cls].members[f]) : SetMember(f, v)
    \/ Write
    \/ SendSessionReport
    \/ SendQuitReport
    \/ \E addr \in Strings, u, i, e \in Ints : SendConnectReport(addr, u, i, e)
    \/ \E k \in 0..(Len(wire) - 1) : Cut(k)
    \/ Cardinality(DOMAIN meant) <= 1 /\ \E o \in Others : WriteOther(<<>>, <<o>>)
    \/ Cardinality(DOMAIN meant) <= 1 /\ \E o \in Others : WriteOther(<<o>>, <<>>)
    \/ \E policy \in {"OBSERVE", "COPY"}, stray \in Strays : Read(<<>>, policy, stray)
    \/ /\ arrived = Len(wire)
       /\ \E f \in DOMAIN meant, stray \in Strays : Read(<<cls, f>>, "OBSERVE", stray)
    \/ /\ arrived = Len(wire)
       /\ \E stray \in Strays : Read(<<"VosdkHeader", "sid">>, "OBSERVE", stray)
    \/ NextReport

Spec == Init /\ [][Next]_vars

-----------------------------------------------------------------------------
(* Properties.                                                             *)

\* The members that a collector can tell from the ones never set.
Required(n) == {e.field : e \in {x \in ItemClass[n].read : x.always}} \cup {"uri"}

\* What an item says: its required members and the ones marked as set.
RECURSIVE Content(_, _)
Content(type, v) ==
    IF IsClass(type)
    THEN LET shown == (v.isset \cup Required(type)) \cap DOMAIN ItemClass[type].members
         IN  [f \in shown |-> Content(ItemClass[type].members[f], Value(type, v, f))]
    ELSE IF IsList(type) THEN [i \in DOMAIN v |-> Content(Elem[type], v[i])]
    ELSE v

\* The same without one member of a class, wherever the class occurs.
RECURSIVE Without(_, _, _)
Without(lacks, type, v) ==
    IF IsClass(type)
    THEN LET kept == {f \in DOMAIN v.val : <<type, f>> # lacks}
         IN  [val   |-> [f \in kept |-> Without(lacks, ItemClass[type].members[f], v.val[f])],
              isset |-> v.isset \cap kept]
    ELSE IF IsList(type) THEN [i \in DOMAIN v |-> Without(lacks, Elem[type], v[i])]
    ELSE v

Meant == [val |-> meant, isset |-> DOMAIN meant]

\* WrtcConnectProxyTurnWorker::write gives these members the ids of others.
Misnumbered == {"ingress", "egress", "extend"}

RECURSIVE Collides(_, _)
Collides(type, v) ==
    IF IsClass(type)
    THEN \/ type = "WrtcConnectProxyTurnWorker" /\ v.isset \cap Misnumbered # {}
         \/ \E f \in DOMAIN v.val : Collides(ItemClass[type].members[f], v.val[f])
    ELSE IsList(type) /\ \E i \in DOMAIN v : Collides(Elem[type], v[i])

\* Whether a member that is written is a list, down to the items inside.
RECURSIVE SendsList(_, _)
SendsList(type, v) ==
    /\ IsClass(type)
    /\ \E e \in ToSet(ItemClass[type].write) :
         /\ e.always \/ e.field \in v.isset
         /\ IsList(e.type) \/ SendsList(e.type, Value(type, v, e.field))

WasRead == phase \in {"read", "aborted"}
ReadWhole == WasRead /\ arrived = Len(wire)

\* A collector reads exactly the item that the setters, or a report function,
\* described, whatever an uninitialised size holds: through the copies into
\* nested items, the order in which write emits the members (2021 to 2023 come
\* before 2002), the deltas of the ids, nested items and lists of any length.
\* It skips a member that it lacks or that only the sender has, whatever its
\* type, and reads all the others.  WrtcConnectProxyTurnWorker with one of the
\* misnumbered members set is the exception.
ItemSurvives ==
    ReadWhole /\ ~Collides(cls, Meant) =>
        /\ ~got.r.err /\ ~got.r.undef /\ available_read(got.r.b) = 0
        /\ Content(cls, got.item) = Content(cls, Without(got.lacks, cls, Meant))
        /\ got.lacks = <<>> => Equal(cls, got.item, item)
        /\ head \in {0, ArgusReportHead + Len(wire)}

\* An item cut off anywhere is noticed, unless the collector aborts before it
\* can tell: when read returns, error_ is set, and of the members that the item
\* marks as set at most one, the last one begun, is not what was sent.  The
\* abort, like every use of a list size that was never assigned, takes an item
\* that was sent with a list.
CutIsNoticed ==
    WasRead /\ arrived < Len(wire) /\ ~Collides(cls, Meant) =>
        /\ got.r.err
        /\ got.r.undef => SendsList(cls, Meant)
        /\ LET right == {f \in got.item.isset :
                           LET t == ItemClass[cls].members[f]
                           IN  Content(t, Value(cls, got.item, f))
                                 = Content(t, Value(cls, Meant, f))}
           IN  phase = "read" => Cardinality(got.item.isset \ right) <= 1

\* What the report functions say, the collector reads.
ReportsArrive ==
    ReadWhole /\ got.lacks = <<>> /\ head # 0 => Content(cls, got.item) = Content(cls, Meant)
=============================================================================
