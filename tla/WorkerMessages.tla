--------------------------- MODULE WorkerMessages ---------------------------
(***************************************************************************)
(* The JSON that the worker exchanges with the worker manager               *)
(* (turnserver_main.cc): what sendConnectMsg and sendPingMsg build, and how *)
(* OnWorkerManagerPacket answers a request.                                 *)
(*                                                                         *)
(* Each message is the value that the setters of JsonWrapper build on nodes *)
(* of its own; it is printed, and parsed again on the other side.           *)
(***************************************************************************)
EXTENDS JsonWrapper

CONSTANTS
    Requests,   \* what the manager asks: values
    Garbage,    \* what an int that was not initialised may hold
    Time,       \* rtc::TimeMillis, beyond int
    Counts      \* userCount, ingress, egress

VARIABLES
    asked,      \* the request the manager printed
    answer,     \* what the manager parsed from the worker's text
    expected    \* history: what a connect or ping message is to say

messageVars == <<asked, answer, expected>>

None == NewItem("NULL")

-----------------------------------------------------------------------------
\* setObjectType, then the setters of the members in order.  No name is set
\* twice, so that each setter appends its member.
Message(members) ==
    [CreateObject EXCEPT !.kids =
        [i \in DOMAIN members |-> [members[i][2] EXCEPT !.name = members[i][1]]]]

\* std::string values and words of the program are single characters here.
Word(w) == CreateString(<<w>>)
EmptyString == CreateString(<<>>)

\* Worker::sendConnectMsg.
ConnectMembers(pid) ==
    <<<<"command", Word("connect")>>, <<"name", Word("webrtc_proxy")>>,
      <<"pid", CreateNumber(pid)>>, <<"ts", CreateNumber(Time)>>,
      <<"appId", EmptyString>>, <<"cname", EmptyString>>, <<"uid", EmptyString>>,
      <<"minSdkVersion", Word("2.3.1")>>, <<"maxSdkVersion", Word("2.6.2")>>>>

\* Worker::sendPingMsg.
PingMembers(ingress, egress, userCount) ==
    <<<<"command", Word("ping")>>, <<"state", Word("idle")>>, <<"ts", CreateNumber(Time)>>,
      <<"workload", Message(<<<<"cpu", CreateNumber(0)>>, <<"ingress", CreateNumber(ingress)>>,
                              <<"egress", CreateNumber(egress)>>,
                              <<"userCount", CreateNumber(userCount)>>>>)>>>>

-----------------------------------------------------------------------------
(* OnWorkerManagerPacket.                                                  *)

\* findNode(name, type) on a value: the first member of that name, if it has
\* the type.
Member(tree, name, type) ==
    LET i == SelectInSeq(tree.kids, LAMBDA kid : SameName(kid.name, name))
    IN  IF i # 0 /\ tree.kids[i].type = type THEN tree.kids[i] ELSE None

\* Mutant: the number is read unsigned, as tryGetUIntValue reads it.
GetUInt(tree, name, initial) ==
    LET node == Member(tree, name, "Number")
    IN  IF node = None THEN initial ELSE node.dbl % (2 * (IntMax + 1))

\* tryGetStringValue and tryGetIntValue: what they leave in the variable.
GetString(tree, name) == Member(tree, name, "String").str
GetInt(tree, name, initial) ==
    LET node == Member(tree, name, "Number") IN IF node = None THEN initial ELSE node.int

Strings_ == <<"appId", "cname", "uid", "sid">>
Numbers == <<"seq", "requestId">>

\* The members of the response; seq and requestid are what they were before
\* when the request does not have them.
ResponseMembers(json, seq, requestid) ==
    <<<<"command", Word("response")>>>>
      \o [i \in 1..4 |-> <<Strings_[i], CreateString(GetString(json, Strings_[i]))>>]
      \o <<<<"seq", CreateNumber(GetInt(json, "seq", seq))>>, <<"ts", CreateNumber(Time)>>,
           <<"requestId", CreateNumber(GetInt(json, "requestId", requestid))>>,
           <<"code", CreateNumber(200)>>, <<"reason", Word("Success")>>,
           <<"serverResponse", Message(<<<<"udpport", CreateNumber(1)>>, <<"tcpport", CreateNumber(2)>>,
                                         <<"username", Word("test")>>, <<"password", Word("111111")>>>>)>>>>

\* Print on one side, parse on the other.
Sent(tree) == Parse(print_value(tree)).item

OnWorkerManagerPacket(request) ==
    LET json == Sent(request)
    IN  /\ asked' = request
        /\ expected' = None
        /\ IF GetString(json, "command") = <<"request">>
             THEN \E seq, requestid \in Garbage :
                     answer' = Sent(Message(ResponseMembers(json, seq, requestid)))
             ELSE answer' = None

Report(members) ==
    /\ expected' = Message(members)
    /\ answer' = Sent(Message(members))
    /\ asked' = None

NoMessage == asked = None /\ answer = None /\ expected = None

MessagesInit == Init /\ NoMessage

MessagesNext ==
    \/ \E request \in Requests : OnWorkerManagerPacket(request)
    \/ \E pid \in Counts : Report(ConnectMembers(pid))
    \/ \E i, e, u \in Counts : Report(PingMembers(i, e, u))

UseWrappers == NoMessage /\ Next /\ UNCHANGED messageVars
Exchange == MessagesInit /\ MessagesNext /\ UNCHANGED vars

\* A message is exchanged, or a caller uses JsonWrapper.
MessagesSpec == MessagesInit /\ [][UseWrappers \/ Exchange]_<<vars, messageVars>>

-----------------------------------------------------------------------------
\* The answer to a request gives back the strings and the numbers by which
\* the manager knows it, whatever characters they are made of and in
\* whatever case the names were written, and what else the worker says
\* arrives as it was said.  A number that is not there, or does not fit int,
\* does not come back.
EchoesRequest ==
    /\ expected # None => Same(answer, expected)
    /\ asked # None =>
         LET isRequest == GetString(asked, "command") = <<"request">>
         IN  /\ (answer # None) = isRequest
             /\ isRequest =>
                  /\ \A i \in 1..4 : GetString(answer, Strings_[i]) = GetString(asked, Strings_[i])
                  /\ \A i \in 1..2 :
                       LET n == Member(asked, Numbers[i], "Number")
                       IN  n # None /\ ToInt(n.dbl) = n.dbl => Member(answer, Numbers[i], "Number").dbl = n.dbl
=============================================================================
