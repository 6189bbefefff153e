------------------------------- MODULE MCJson -------------------------------
(* Two handles, names that differ in case, numbers at the edge of int and      *)
(* beyond it, strings that need escapes, documents that overlap, and requests  *)
(* with and without the members that the worker echoes.                        *)
EXTENDS WorkerMessages

AllNames == {"a", "A", "b", "APPID", "command", "name", "pid", "ts", "appId", "cname", "uid", "sid",
             "seq", "requestId", "minSdkVersion", "maxSdkVersion", "state", "workload", "cpu", "ingress",
             "egress", "userCount", "code", "reason", "serverResponse", "udpport", "tcpport",
             "username", "password"}
NameCases == [n \in AllNames |-> IF n = "A" THEN "a" ELSE IF n = "APPID" THEN "appId" ELSE n]
Symmetry == Permutations(Wrappers)

SomeStrings == {<<"\"", "\\">>}
Obj(kids) == [CreateObject EXCEPT !.kids = kids]
Arr(kids) == [CreateArray EXCEPT !.kids = kids]
Named(name, tree) == [tree EXCEPT !.name = name]

Doc1 == Obj(<<Named("a", Obj(<<Named("b", CreateNumber(1))>>)), Named("b", CreateNumber(9))>>)
Doc2 == Obj(<<Named("A", Obj(<<Named("b", CreateBool(TRUE)), Named("a", Arr(<<NewItem("NULL")>>))>>)),
              Named("b", Arr(<<CreateNumber(2)>>))>>)
SomeDocuments == {print_value(Doc1), print_value(Doc2)}

\* A request with any of the members, the numbers small, large or missing.
Ask(command, strs, seq, id) ==
    Obj(<<Named("command", command)>>
        \o [i \in 1..3 |-> Named(<<"APPID", "cname", "sid">>[i], strs[i])] \o seq \o id)
Num(name, v) == <<Named(name, CreateNumber(v))>>
SomeRequests ==
    {Ask(c, strs, seq, id) :
        c \in {Word("request"), Word("other"), CreateNumber(1)},
        strs \in [1..3 -> {CreateString(<<"\"", "\\", "n">>), CreateNumber(5)}],
        seq \in {<<>>, Num("seq", 3), Num("seq", 256)}, id \in {<<>>, Num("requestId", -256)}}
=============================================================================
