---------------------------- MODULE ReportTypes ----------------------------
(***************************************************************************)
(* The report items of thrift/gen-cpp/report_item_types.h and .cpp, as      *)
(* tables.  For each class N the source spells out, member by member:       *)
(*   N_members   the members and their types, which the declarations of the *)
(*               __set_ functions repeat;                                   *)
(*   N_set       the members whose __set_ function also marks __isset;      *)
(*   N_read      the cases of read: id, type, member.  Opt marks __isset,   *)
(*               Req only a local flag that nothing looks at;               *)
(*   N_write     what write emits, in order.  Opt under the __isset bit,    *)
(*               Req always;                                                *)
(*   N_eq        what operator == and != compare: always, or when set;     *)
(*   N_copy      what the copy constructor, operator = and swap carry over. *)
(* The file says it is generated, but parts of it are edited by hand, so no *)
(* table is derived from another one.  The cases of a long read are given  *)
(* in two parts.                                                           *)
(***************************************************************************)
EXTENDS Naturals, Sequences, TLC

Opt(id, type, field) == [id |-> id, type |-> type, field |-> field, always |-> FALSE]
Req(id, type, field) == [id |-> id, type |-> type, field |-> field, always |-> TRUE]
Optional(fields) == [always |-> {}, ifset |-> fields]

\* EncryptedItem.
EncryptedItem_members ==
    [encType |-> "i32", key1 |-> "string", key2 |-> "string", key3 |-> "string", key4 |-> "string",
     payload |-> "string"]
EncryptedItem_set == {"encType", "key1", "key2", "key3", "key4", "payload"}
EncryptedItem_read ==
    {Opt(1, "i32", "encType"), Opt(2, "string", "key1"), Opt(3, "string", "key2"), Opt(4, "string", "key3"),
     Opt(5, "string", "key4"), Opt(10, "string", "payload")}
EncryptedItem_write ==
    <<Opt(1, "i32", "encType"), Opt(2, "string", "key1"), Opt(3, "string", "key2"), Opt(4, "string", "key3"),
      Opt(5, "string", "key4"), Opt(10, "string", "payload")>>
EncryptedItem_eq == Optional({"encType", "key1", "key2", "key3", "key4", "payload"})
EncryptedItem_copy == {"encType", "key1", "key2", "key3", "key4", "payload", "__isset"}

\* VosdkHeader.
VosdkHeader_members ==
    [sid |-> "string", cname |-> "string", cid |-> "i64", lts |-> "i64", ip |-> "string", uid |-> "i64",
     success |-> "bool", elapse |-> "i64", peer |-> "i64"]
VosdkHeader_set == {"sid", "cname", "cid", "lts", "ip", "uid", "success", "elapse", "peer"}
VosdkHeader_read ==
    {Opt(1, "string", "sid"), Opt(2, "string", "cname"), Opt(3, "i64", "cid"), Opt(4, "i64", "lts"),
     Opt(5, "string", "ip"), Opt(6, "i64", "uid"), Opt(7, "bool", "success"), Opt(8, "i64", "elapse"),
     Opt(9, "i64", "peer")}
VosdkHeader_write ==
    <<Opt(1, "string", "sid"), Opt(2, "string", "cname"), Opt(3, "i64", "cid"), Opt(4, "i64", "lts"),
      Opt(5, "string", "ip"), Opt(6, "i64", "uid"), Opt(7, "bool", "success"), Opt(8, "i64", "elapse"),
      Opt(9, "i64", "peer")>>
VosdkHeader_eq == Optional({"sid", "cname", "cid", "lts", "ip", "uid", "success", "elapse", "peer"})
VosdkHeader_copy == {"sid", "cname", "cid", "lts", "ip", "uid", "success", "elapse", "peer", "__isset"}

\* VosdkCounterItem.
VosdkCounterItem_members ==
    [name |-> "string", lts |-> "i64", value |-> "i32", id |-> "i32", tagErrorCode |-> "i32"]
VosdkCounterItem_set == {"name", "lts", "value", "id", "tagErrorCode"}
VosdkCounterItem_read ==
    {Opt(1, "string", "name"), Opt(2, "i64", "lts"), Opt(3, "i32", "value"), Opt(4, "i32", "id"),
     Opt(5, "i32", "tagErrorCode")}
VosdkCounterItem_write ==
    <<Opt(1, "string", "name"), Opt(2, "i64", "lts"), Opt(3, "i32", "value"), Opt(4, "i32", "id"),
      Opt(5, "i32", "tagErrorCode")>>
VosdkCounterItem_eq == Optional({"name", "lts", "value", "id", "tagErrorCode"})
VosdkCounterItem_copy == {"name", "lts", "value", "id", "tagErrorCode", "__isset"}

\* VosdkCounter.
VosdkCounter_members == [header |-> "VosdkHeader", items |-> "list<VosdkCounterItem>"]
VosdkCounter_set == {"header", "items"}
VosdkCounter_read == {Opt(1, "VosdkHeader", "header"), Opt(2, "list<VosdkCounterItem>", "items")}
VosdkCounter_write == <<Opt(1, "VosdkHeader", "header"), Opt(2, "list<VosdkCounterItem>", "items")>>
VosdkCounter_eq == Optional({"header", "items"})
VosdkCounter_copy == {"header", "items", "__isset"}

\* VosdkSession.
VosdkSession_members ==
    [header |-> "VosdkHeader", vk |-> "string", ver |-> "string", net1 |-> "i32", net2 |-> "i32",
     localIp |-> "string", ssid |-> "string", bssid |-> "string", siglevel |-> "i32", rssi |-> "i32",
     os1 |-> "i32", did |-> "string", pnq |-> "i32", lost |-> "i32", info |-> "string", lsid |-> "string",
     channelMode |-> "i32", cheVer |-> "string", sdkBuildNumber |-> "i32", cheBuildNumber |-> "i32",
     fsid |-> "string", channelProfile |-> "i32", netSubType |-> "i32", clientType |-> "i32",
     appCategory |-> "i32", clientRole |-> "i32", installId |-> "string"]
VosdkSession_set ==
    {"header", "vk", "ver", "net1", "net2", "localIp", "ssid", "bssid", "siglevel", "rssi", "os1", "did",
     "pnq", "lost", "info", "lsid", "channelMode", "cheVer", "sdkBuildNumber", "cheBuildNumber", "fsid",
     "channelProfile", "netSubType", "clientType", "appCategory", "clientRole", "installId"}
VosdkSession_read_first ==
    {Opt(1, "VosdkHeader", "header"), Opt(5, "string", "vk"), Opt(6, "string", "ver"), Opt(7, "i32", "net1"),
     Opt(8, "i32", "net2"), Opt(9, "string", "localIp"), Opt(10, "string", "ssid"), Opt(11, "string", "bssid"),
     Opt(12, "i32", "siglevel"), Opt(13, "i32", "rssi"), Opt(14, "i32", "os1"), Opt(15, "string", "did"),
     Opt(16, "i32", "pnq")}
VosdkSession_read ==
    VosdkSession_read_first \cup {Opt(17, "i32", "lost"), Opt(18, "string", "info"), Opt(19, "string", "lsid"),
                                  Opt(20, "i32", "channelMode"), Opt(21, "string", "cheVer"),
                                  Opt(22, "i32", "sdkBuildNumber"), Opt(23, "i32", "cheBuildNumber"),
                                  Opt(24, "string", "fsid"), Opt(25, "i32", "channelProfile"),
                                  Opt(26, "i32", "netSubType"), Opt(27, "i32", "clientType"),
                                  Opt(28, "i32", "appCategory"), Opt(29, "i32", "clientRole"),
                                  Opt(30, "string", "installId")}
VosdkSession_write ==
    <<Opt(1, "VosdkHeader", "header"), Opt(5, "string", "vk"), Opt(6, "string", "ver"), Opt(7, "i32", "net1"),
      Opt(8, "i32", "net2"), Opt(9, "string", "localIp"), Opt(10, "string", "ssid"),
      Opt(11, "string", "bssid"), Opt(12, "i32", "siglevel"), Opt(13, "i32", "rssi"), Opt(14, "i32", "os1"),
      Opt(15, "string", "did"), Opt(16, "i32", "pnq"), Opt(17, "i32", "lost"), Opt(18, "string", "info"),
      Opt(19, "string", "lsid"), Opt(20, "i32", "channelMode"), Opt(21, "string", "cheVer"),
      Opt(22, "i32", "sdkBuildNumber"), Opt(23, "i32", "cheBuildNumber"), Opt(24, "string", "fsid"),
      Opt(25, "i32", "channelProfile"), Opt(26, "i32", "netSubType"), Opt(27, "i32", "clientType"),
      Opt(28, "i32", "appCategory"), Opt(29, "i32", "clientRole"), Opt(30, "string", "installId")>>
VosdkSession_eq ==
    Optional({"header", "vk", "ver", "net1", "net2", "localIp", "ssid", "bssid", "siglevel", "rssi", "os1", "did",
              "pnq", "lost", "info", "lsid", "channelMode", "cheVer", "sdkBuildNumber", "cheBuildNumber", "fsid",
              "channelProfile", "netSubType", "clientType", "appCategory", "clientRole", "installId"})
VosdkSession_copy ==
    {"header", "vk", "ver", "net1", "net2", "localIp", "ssid", "bssid", "siglevel", "rssi", "os1", "did",
     "pnq", "lost", "info", "lsid", "channelMode", "cheVer", "sdkBuildNumber", "cheBuildNumber", "fsid",
     "channelProfile", "netSubType", "clientType", "appCategory", "clientRole", "installId", "__isset"}

\* VosdkVocs.
VosdkVocs_members ==
    [header |-> "VosdkHeader", ec |-> "i32", sc |-> "i32", serverIp |-> "string", firstSuccess |-> "bool",
     responseTime |-> "i32", serverIpList |-> "list<string>", ssid |-> "string", bssid |-> "string",
     localWanIp |-> "string", ispName |-> "string", minorIsp |-> "bool"]
VosdkVocs_set ==
    {"header", "ec", "sc", "serverIp", "firstSuccess", "responseTime", "serverIpList", "ssid", "bssid",
     "localWanIp", "ispName", "minorIsp"}
VosdkVocs_read ==
    {Opt(1, "VosdkHeader", "header"), Opt(5, "i32", "ec"), Opt(6, "i32", "sc"), Opt(7, "string", "serverIp"),
     Opt(8, "bool", "firstSuccess"), Opt(9, "i32", "responseTime"), Opt(10, "list<string>", "serverIpList"),
     Opt(11, "string", "ssid"), Opt(12, "string", "bssid"), Opt(13, "string", "localWanIp"),
     Opt(14, "string", "ispName"), Opt(15, "bool", "minorIsp")}
VosdkVocs_write ==
    <<Opt(1, "VosdkHeader", "header"), Opt(5, "i32", "ec"), Opt(6, "i32", "sc"), Opt(7, "string", "serverIp"),
      Opt(8, "bool", "firstSuccess"), Opt(9, "i32", "responseTime"), Opt(10, "list<string>", "serverIpList"),
      Opt(11, "string", "ssid"), Opt(12, "string", "bssid"), Opt(13, "string", "localWanIp"),
      Opt(14, "string", "ispName"), Opt(15, "bool", "minorIsp")>>
VosdkVocs_eq ==
    Optional({"header", "ec", "sc", "serverIp", "firstSuccess", "responseTime", "serverIpList", "ssid", "bssid",
              "localWanIp", "ispName", "minorIsp"})
VosdkVocs_copy ==
    {"header", "ec", "sc", "serverIp", "firstSuccess", "responseTime", "serverIpList", "ssid", "bssid",
     "localWanIp", "ispName", "minorIsp", "__isset"}

\* VosdkVos.
VosdkVos_members ==
    [header |-> "VosdkHeader", ec |-> "i32", sc |-> "i32", serverIp |-> "string", vosList |-> "list<string>",
     firstSuccess |-> "bool", channelCount |-> "i32", responseTime |-> "i32"]
VosdkVos_set == {"header", "ec", "sc", "serverIp", "vosList", "firstSuccess", "channelCount", "responseTime"}
VosdkVos_read ==
    {Opt(1, "VosdkHeader", "header"), Opt(5, "i32", "ec"), Opt(6, "i32", "sc"), Opt(7, "string", "serverIp"),
     Opt(8, "list<string>", "vosList"), Opt(9, "bool", "firstSuccess"), Opt(10, "i32", "channelCount"),
     Opt(11, "i32", "responseTime")}
VosdkVos_write ==
    <<Opt(1, "VosdkHeader", "header"), Opt(5, "i32", "ec"), Opt(6, "i32", "sc"), Opt(7, "string", "serverIp"),
      Opt(8, "list<string>", "vosList"), Opt(9, "bool", "firstSuccess"), Opt(10, "i32", "channelCount"),
      Opt(11, "i32", "responseTime")>>
VosdkVos_eq ==
    Optional({"header", "ec", "sc", "serverIp", "vosList", "firstSuccess", "channelCount", "responseTime"})
VosdkVos_copy ==
    {"header", "ec", "sc", "serverIp", "vosList", "firstSuccess", "channelCount", "responseTime", "__isset"}

\* VosdkWebQuit.
VosdkWebQuit_members == [header |-> "VosdkHeader", ec |-> "i32"]
VosdkWebQuit_set == {"header", "ec"}
VosdkWebQuit_read == {Opt(1, "VosdkHeader", "header"), Opt(2, "i32", "ec")}
VosdkWebQuit_write == <<Opt(1, "VosdkHeader", "header"), Opt(2, "i32", "ec")>>
VosdkWebQuit_eq == Optional({"header", "ec"})
VosdkWebQuit_copy == {"header", "ec", "__isset"}

\* WrtcBrowser2Gateway.
WrtcBrowser2Gateway_members ==
    [vid |-> "i32", cid |-> "i64", uid |-> "i64", vos_id |-> "i32", source_ip |-> "i32",
     source_port |-> "i16", dest_ip |-> "i32", dest_port |-> "i16", delay |-> "i16", jitter100 |-> "i16",
     jitter95 |-> "i16", jitter90 |-> "i16", lost_ratio |-> "i16", lost_ratio2 |-> "i16",
     lost_ratio3 |-> "i16", lts |-> "i64", sid |-> "string"]
WrtcBrowser2Gateway_set ==
    {"vid", "cid", "uid", "vos_id", "source_ip", "source_port", "dest_ip", "dest_port", "delay", "jitter100",
     "jitter95", "jitter90", "lost_ratio", "lost_ratio2", "lost_ratio3", "lts", "sid"}
WrtcBrowser2Gateway_read_first ==
    {Opt(1, "i32", "vid"), Opt(2, "i64", "cid"), Opt(3, "i64", "uid"), Opt(4, "i32", "vos_id"),
     Opt(5, "i32", "source_ip"), Opt(6, "i16", "source_port"), Opt(7, "i32", "dest_ip"), Opt(8, "i16", "dest_port")}
WrtcBrowser2Gateway_read ==
    WrtcBrowser2Gateway_read_first \cup {Opt(9, "i16", "delay"), Opt(10, "i16", "jitter100"),
                                         Opt(11, "i16", "jitter95"), Opt(12, "i16", "jitter90"),
                                         Opt(13, "i16", "lost_ratio"), Opt(14, "i16", "lost_ratio2"),
                                         Opt(15, "i16", "lost_ratio3"), Opt(16, "i64", "lts"),
                                         Opt(17, "string", "sid")}
WrtcBrowser2Gateway_write ==
    <<Opt(1, "i32", "vid"), Opt(2, "i64", "cid"), Opt(3, "i64", "uid"), Opt(4, "i32", "vos_id"),
      Opt(5, "i32", "source_ip"), Opt(6, "i16", "source_port"), Opt(7, "i32", "dest_ip"),
      Opt(8, "i16", "dest_port"), Opt(9, "i16", "delay"), Opt(10, "i16", "jitter100"),
      Opt(11, "i16", "jitter95"), Opt(12, "i16", "jitter90"), Opt(13, "i16", "lost_ratio"),
      Opt(14, "i16", "lost_ratio2"), Opt(15, "i16", "lost_ratio3"), Opt(16, "i64", "lts"),
      Opt(17, "string", "sid")>>
WrtcBrowser2Gateway_eq ==
    Optional({"vid", "cid", "uid", "vos_id", "source_ip", "source_port", "dest_ip", "dest_port", "delay", "jitter100",
              "jitter95", "jitter90", "lost_ratio", "lost_ratio2", "lost_ratio3", "lts", "sid"})
WrtcBrowser2Gateway_copy ==
    {"vid", "cid", "uid", "vos_id", "source_ip", "source_port", "dest_ip", "dest_port", "delay", "jitter100",
     "jitter95", "jitter90", "lost_ratio", "lost_ratio2", "lost_ratio3", "lts", "sid", "__isset"}

\* WrtcBrowser2Browser.
WrtcBrowser2Browser_members ==
    [vid |-> "i32", cid |-> "i64", uid |-> "i64", vos_id |-> "i32", source_ip |-> "i32",
     source_port |-> "i16", dest_ip |-> "i32", dest_port |-> "i16", delay |-> "i16", jitter100 |-> "i16",
     jitter95 |-> "i16", jitter90 |-> "i16", lost_ratio |-> "i16", lost_ratio2 |-> "i16",
     lost_ratio3 |-> "i16", lts |-> "i64", sid |-> "string", peer_uid |-> "i32"]
WrtcBrowser2Browser_set ==
    {"vid", "cid", "uid", "vos_id", "source_ip", "source_port", "dest_ip", "dest_port", "delay", "jitter100",
     "jitter95", "jitter90", "lost_ratio", "lost_ratio2", "lost_ratio3", "lts", "sid", "peer_uid"}
WrtcBrowser2Browser_read_first ==
    {Opt(1, "i32", "vid"), Opt(2, "i64", "cid"), Opt(3, "i64", "uid"), Opt(4, "i32", "vos_id"),
     Opt(5, "i32", "source_ip"), Opt(6, "i16", "source_port"), Opt(7, "i32", "dest_ip"), Opt(8, "i16", "dest_port"),
     Opt(9, "i16", "delay")}
WrtcBrowser2Browser_read ==
    WrtcBrowser2Browser_read_first \cup {Opt(10, "i16", "jitter100"), Opt(11, "i16", "jitter95"),
                                         Opt(12, "i16", "jitter90"), Opt(13, "i16", "lost_ratio"),
                                         Opt(14, "i16", "lost_ratio2"), Opt(15, "i16", "lost_ratio3"),
                                         Opt(16, "i64", "lts"), Opt(17, "string", "sid"), Opt(18, "i32", "peer_uid")}
WrtcBrowser2Browser_write ==
    <<Opt(1, "i32", "vid"), Opt(2, "i64", "cid"), Opt(3, "i64", "uid"), Opt(4, "i32", "vos_id"),
      Opt(5, "i32", "source_ip"), Opt(6, "i16", "source_port"), Opt(7, "i32", "dest_ip"),
      Opt(8, "i16", "dest_port"), Opt(9, "i16", "delay"), Opt(10, "i16", "jitter100"),
      Opt(11, "i16", "jitter95"), Opt(12, "i16", "jitter90"), Opt(13, "i16", "lost_ratio"),
      Opt(14, "i16", "lost_ratio2"), Opt(15, "i16", "lost_ratio3"), Opt(16, "i64", "lts"),
      Opt(17, "string", "sid"), Opt(18, "i32", "peer_uid")>>
WrtcBrowser2Browser_eq ==
    Optional({"vid", "cid", "uid", "vos_id", "source_ip", "source_port", "dest_ip", "dest_port", "delay", "jitter100",
              "jitter95", "jitter90", "lost_ratio", "lost_ratio2", "lost_ratio3", "lts", "sid", "peer_uid"})
WrtcBrowser2Browser_copy ==
    {"vid", "cid", "uid", "vos_id", "source_ip", "source_port", "dest_ip", "dest_port", "delay", "jitter100",
     "jitter95", "jitter90", "lost_ratio", "lost_ratio2", "lost_ratio3", "lts", "sid", "peer_uid", "__isset"}

\* WrtcProfile.
WrtcProfile_members ==
    [header |-> "VosdkHeader", framerate |-> "i16", bitrate |-> "i32", width |-> "i32", height |-> "i32"]
WrtcProfile_set == {"header", "framerate", "bitrate", "width", "height"}
WrtcProfile_read ==
    {Opt(1, "VosdkHeader", "header"), Opt(2, "i16", "framerate"), Opt(3, "i32", "bitrate"),
     Opt(4, "i32", "width"), Opt(5, "i32", "height")}
WrtcProfile_write ==
    <<Opt(1, "VosdkHeader", "header"), Opt(2, "i16", "framerate"), Opt(3, "i32", "bitrate"),
      Opt(4, "i32", "width"), Opt(5, "i32", "height")>>
WrtcProfile_eq == Optional({"header", "framerate", "bitrate", "width", "height"})
WrtcProfile_copy == {"header", "framerate", "bitrate", "width", "height", "__isset"}

\* WrtcPubStream.
WrtcPubStream_members == [header |-> "VosdkHeader", audio |-> "bool", video |-> "bool"]
WrtcPubStream_set == {"header", "audio", "video"}
WrtcPubStream_read == {Opt(1, "VosdkHeader", "header"), Opt(2, "bool", "audio"), Opt(3, "bool", "video")}
WrtcPubStream_write == <<Opt(1, "VosdkHeader", "header"), Opt(2, "bool", "audio"), Opt(3, "bool", "video")>>
WrtcPubStream_eq == Optional({"header", "audio", "video"})
WrtcPubStream_copy == {"header", "audio", "video", "__isset"}

\* WrtcUnpubStream.
WrtcUnpubStream_members == [header |-> "VosdkHeader"]
WrtcUnpubStream_set == {"header"}
WrtcUnpubStream_read == {Opt(1, "VosdkHeader", "header")}
WrtcUnpubStream_write == <<Opt(1, "VosdkHeader", "header")>>
WrtcUnpubStream_eq == Optional({"header"})
WrtcUnpubStream_copy == {"header", "__isset"}

\* WrtcSubStream.
WrtcSubStream_members == [header |-> "VosdkHeader", peerUid |-> "i64"]
WrtcSubStream_set == {"header", "peerUid"}
WrtcSubStream_read == {Opt(1, "VosdkHeader", "header"), Opt(2, "i64", "peerUid")}
WrtcSubStream_write == <<Opt(1, "VosdkHeader", "header"), Opt(2, "i64", "peerUid")>>
WrtcSubStream_eq == Optional({"header", "peerUid"})
WrtcSubStream_copy == {"header", "peerUid", "__isset"}

\* WrtcUnsubStream.
WrtcUnsubStream_members == [header |-> "VosdkHeader", peerUid |-> "i64"]
WrtcUnsubStream_set == {"header", "peerUid"}
WrtcUnsubStream_read == {Opt(1, "VosdkHeader", "header"), Opt(2, "i64", "peerUid")}
WrtcUnsubStream_write == <<Opt(1, "VosdkHeader", "header"), Opt(2, "i64", "peerUid")>>
WrtcUnsubStream_eq == Optional({"header", "peerUid"})
WrtcUnsubStream_copy == {"header", "peerUid", "__isset"}

\* WrtcEventsSequenceItem.
WrtcEventsSequenceItem_members ==
    [n |-> "string", succ |-> "bool", lts |-> "i64", elps |-> "i32", ec |-> "string", addl_s1 |-> "string",
     addl_s2 |-> "string", addl_i1 |-> "i64", addl_i2 |-> "i64", addl_i3 |-> "i32", addl_i4 |-> "i32"]
WrtcEventsSequenceItem_set ==
    {"lts", "elps", "ec", "addl_s1", "addl_s2", "addl_i1", "addl_i2", "addl_i3", "addl_i4"}
WrtcEventsSequenceItem_read ==
    {Req(1, "string", "n"), Req(2, "bool", "succ"), Opt(3, "i64", "lts"), Opt(4, "i32", "elps"),
     Opt(5, "string", "ec"), Opt(6, "string", "addl_s1"), Opt(7, "string", "addl_s2"),
     Opt(8, "i64", "addl_i1"), Opt(9, "i64", "addl_i2"), Opt(10, "i32", "addl_i3"), Opt(11, "i32", "addl_i4")}
WrtcEventsSequenceItem_write ==
    <<Req(1, "string", "n"), Req(2, "bool", "succ"), Opt(3, "i64", "lts"), Opt(4, "i32", "elps"),
      Opt(5, "string", "ec"), Opt(6, "string", "addl_s1"), Opt(7, "string", "addl_s2"),
      Opt(8, "i64", "addl_i1"), Opt(9, "i64", "addl_i2"), Opt(10, "i32", "addl_i3"), Opt(11, "i32", "addl_i4")>>
WrtcEventsSequenceItem_eq ==
    [always |-> {"n", "succ"}, ifset |-> {"lts", "elps", "ec", "addl_s1", "addl_s2", "addl_i1", "addl_i2",
     "addl_i3", "addl_i4"}]
WrtcEventsSequenceItem_copy ==
    {"n", "succ", "lts", "elps", "ec", "addl_s1", "addl_s2", "addl_i1", "addl_i2", "addl_i3", "addl_i4",
     "__isset"}

\* WrtcEventsSequence.
WrtcEventsSequence_members ==
    [succ |-> "bool", lts |-> "i64", elps |-> "i32", events |-> "list<WrtcEventsSequenceItem>",
     appid |-> "string", ver |-> "string", brwsr |-> "string", prev_e |-> "WrtcEventsSequenceItem"]
WrtcEventsSequence_set == {"lts", "elps", "appid", "ver", "brwsr", "prev_e"}
WrtcEventsSequence_read ==
    {Req(1, "bool", "succ"), Opt(2, "i64", "lts"), Opt(3, "i32", "elps"),
     Req(4, "list<WrtcEventsSequenceItem>", "events"), Opt(5, "string", "appid"), Opt(6, "string", "ver"),
     Opt(7, "string", "brwsr"), Opt(8, "WrtcEventsSequenceItem", "prev_e")}
WrtcEventsSequence_write ==
    <<Req(1, "bool", "succ"), Opt(2, "i64", "lts"), Opt(3, "i32", "elps"),
      Req(4, "list<WrtcEventsSequenceItem>", "events"), Opt(5, "string", "appid"), Opt(6, "string", "ver"),
      Opt(7, "string", "brwsr"), Opt(8, "WrtcEventsSequenceItem", "prev_e")>>
WrtcEventsSequence_eq ==
    [always |-> {"succ", "events"}, ifset |-> {"lts", "elps", "appid", "ver", "brwsr", "prev_e"}]
WrtcEventsSequence_copy == {"succ", "lts", "elps", "events", "appid", "ver", "brwsr", "prev_e", "__isset"}

\* WrtcReceiverReport.
WrtcReceiverReport_members ==
    [header |-> "VosdkHeader", sourceSsrc |-> "i64", fractionLost |-> "i64", cumulativeLost |-> "i64",
     highestSeqNumber |-> "i64", jitter |-> "i64", lsr |-> "i64", dlsr |-> "i64", vid |-> "i64"]
WrtcReceiverReport_set ==
    {"header", "sourceSsrc", "fractionLost", "cumulativeLost", "highestSeqNumber", "jitter", "lsr", "dlsr",
     "vid"}
WrtcReceiverReport_read ==
    {Opt(1, "VosdkHeader", "header"), Opt(2, "i64", "sourceSsrc"), Opt(3, "i64", "fractionLost"),
     Opt(4, "i64", "cumulativeLost"), Opt(5, "i64", "highestSeqNumber"), Opt(6, "i64", "jitter"),
     Opt(7, "i64", "lsr"), Opt(8, "i64", "dlsr"), Opt(9, "i64", "vid")}
WrtcReceiverReport_write ==
    <<Opt(1, "VosdkHeader", "header"), Opt(2, "i64", "sourceSsrc"), Opt(3, "i64", "fractionLost"),
      Opt(4, "i64", "cumulativeLost"), Opt(5, "i64", "highestSeqNumber"), Opt(6, "i64", "jitter"),
      Opt(7, "i64", "lsr"), Opt(8, "i64", "dlsr"), Opt(9, "i64", "vid")>>
WrtcReceiverReport_eq ==
    Optional({"header", "sourceSsrc", "fractionLost", "cumulativeLost", "highestSeqNumber", "jitter", "lsr", "dlsr",
              "vid"})
WrtcReceiverReport_copy ==
    {"header", "sourceSsrc", "fractionLost", "cumulativeLost", "highestSeqNumber", "jitter", "lsr", "dlsr",
     "vid", "__isset"}

\* WrtcGateway2Browser.
WrtcGateway2Browser_members ==
    [sid |-> "string", vid |-> "i32", cid |-> "i64", uid |-> "i64", spkUid |-> "i64", delay |-> "i16",
     jitter |-> "i16", lost |-> "i16"]
WrtcGateway2Browser_set == {"sid", "vid", "cid", "uid", "spkUid", "delay", "jitter", "lost"}
WrtcGateway2Browser_read ==
    {Opt(1, "string", "sid"), Opt(2, "i32", "vid"), Opt(3, "i64", "cid"), Opt(4, "i64", "uid"),
     Opt(5, "i64", "spkUid"), Opt(6, "i16", "delay"), Opt(7, "i16", "jitter"), Opt(8, "i16", "lost")}
WrtcGateway2Browser_write ==
    <<Opt(1, "string", "sid"), Opt(2, "i32", "vid"), Opt(3, "i64", "cid"), Opt(4, "i64", "uid"),
      Opt(5, "i64", "spkUid"), Opt(6, "i16", "delay"), Opt(7, "i16", "jitter"), Opt(8, "i16", "lost")>>
WrtcGateway2Browser_eq == Optional({"sid", "vid", "cid", "uid", "spkUid", "delay", "jitter", "lost"})
WrtcGateway2Browser_copy == {"sid", "vid", "cid", "uid", "spkUid", "delay", "jitter", "lost", "__isset"}

\* WrtcStreamControl.
WrtcStreamControl_members == [header |-> "VosdkHeader", operation |-> "string", streamUid |-> "i64"]
WrtcStreamControl_set == {"header", "operation", "streamUid"}
WrtcStreamControl_read ==
    {Opt(1, "VosdkHeader", "header"), Opt(2, "string", "operation"), Opt(3, "i64", "streamUid")}
WrtcStreamControl_write ==
    <<Opt(1, "VosdkHeader", "header"), Opt(2, "string", "operation"), Opt(3, "i64", "streamUid")>>
WrtcStreamControl_eq == Optional({"header", "operation", "streamUid"})
WrtcStreamControl_copy == {"header", "operation", "streamUid", "__isset"}

\* WrtcConnectProxyTurnWorker.
WrtcConnectProxyTurnWorker_members ==
    [header |-> "VosdkHeader", clientAddr |-> "string", userCount |-> "i64", ingress |-> "i64",
     egress |-> "i64", extend |-> "string"]
WrtcConnectProxyTurnWorker_set == {"header", "clientAddr", "userCount", "ingress", "egress", "extend"}
WrtcConnectProxyTurnWorker_read ==
    {Opt(1, "VosdkHeader", "header"), Opt(2, "string", "clientAddr"), Opt(3, "i64", "userCount"),
     Opt(4, "i64", "ingress"), Opt(5, "i64", "egress"), Opt(6, "string", "extend")}
WrtcConnectProxyTurnWorker_write ==
    <<Opt(1, "VosdkHeader", "header"), Opt(2, "string", "clientAddr"), Opt(3, "i64", "userCount"),
      Opt(3, "i64", "ingress"), Opt(3, "i64", "egress"), Opt(2, "string", "extend")>>
WrtcConnectProxyTurnWorker_eq ==
    Optional({"header", "clientAddr", "userCount", "ingress", "egress", "extend"})
WrtcConnectProxyTurnWorker_copy ==
    {"header", "clientAddr", "userCount", "ingress", "egress", "extend", "__isset"}

\* ReportItem.
ReportItem_members ==
    [uri |-> "i32", encryptedItem |-> "EncryptedItem", vosdkCounter |-> "VosdkCounter",
     vosdkSession |-> "VosdkSession", vosdkVocs |-> "VosdkVocs", vosdkVos |-> "VosdkVos",
     vosdkWebQuit |-> "VosdkWebQuit", wrtcBrowser2Gateway |-> "WrtcBrowser2Gateway",
     wrtcBrowser2GatewayVideo |-> "WrtcBrowser2Gateway", wrtcBrowser2BrowserAudio |-> "WrtcBrowser2Browser",
     wrtcBrowser2BrowserVideo |-> "WrtcBrowser2Browser", wrtcProfile |-> "WrtcProfile",
     wrtcPubStream |-> "WrtcPubStream", wrtcUnpubStream |-> "WrtcUnpubStream",
     wrtcSubStream |-> "WrtcSubStream", wrtcUnsubStream |-> "WrtcUnsubStream",
     wrtcEventsSequence |-> "WrtcEventsSequence", wrtcReceiverReport |-> "WrtcReceiverReport",
     wrtcGateway2Browser |-> "WrtcGateway2Browser", wrtcStreamControl |-> "WrtcStreamControl",
     wrtcConnectProxyTurnWorker |-> "WrtcConnectProxyTurnWorker"]
ReportItem_set ==
    {"encryptedItem", "vosdkCounter", "vosdkSession", "vosdkVocs", "vosdkVos", "vosdkWebQuit",
     "wrtcBrowser2Gateway", "wrtcBrowser2GatewayVideo", "wrtcBrowser2BrowserAudio",
     "wrtcBrowser2BrowserVideo", "wrtcProfile", "wrtcPubStream", "wrtcUnpubStream", "wrtcSubStream",
     "wrtcUnsubStream", "wrtcEventsSequence", "wrtcReceiverReport", "wrtcGateway2Browser",
     "wrtcStreamControl", "wrtcConnectProxyTurnWorker"}
ReportItem_read_first ==
    {Opt(1, "i32", "uri"), Opt(900, "EncryptedItem", "encryptedItem"), Opt(1000, "VosdkCounter", "vosdkCounter"),
     Opt(1001, "VosdkSession", "vosdkSession"), Opt(1002, "VosdkVocs", "vosdkVocs"),
     Opt(1003, "VosdkVos", "vosdkVos"), Opt(1029, "VosdkWebQuit", "vosdkWebQuit"),
     Opt(2001, "WrtcBrowser2Gateway", "wrtcBrowser2Gateway"), Opt(2002, "WrtcProfile", "wrtcProfile"),
     Opt(2003, "WrtcPubStream", "wrtcPubStream")}
ReportItem_read ==
    ReportItem_read_first \cup {Opt(2004, "WrtcUnpubStream", "wrtcUnpubStream"),
                                Opt(2005, "WrtcSubStream", "wrtcSubStream"),
                                Opt(2006, "WrtcUnsubStream", "wrtcUnsubStream"),
                                Opt(2008, "WrtcEventsSequence", "wrtcEventsSequence"),
                                Opt(2009, "WrtcReceiverReport", "wrtcReceiverReport"),
                                Opt(2010, "WrtcGateway2Browser", "wrtcGateway2Browser"),
                                Opt(2011, "WrtcStreamControl", "wrtcStreamControl"),
                                Opt(2021, "WrtcBrowser2Gateway", "wrtcBrowser2GatewayVideo"),
                                Opt(2022, "WrtcBrowser2Browser", "wrtcBrowser2BrowserAudio"),
                                Opt(2023, "WrtcBrowser2Browser", "wrtcBrowser2BrowserVideo"),
                                Opt(2026, "WrtcConnectProxyTurnWorker", "wrtcConnectProxyTurnWorker")}
ReportItem_write ==
    <<Req(1, "i32", "uri"), Opt(900, "EncryptedItem", "encryptedItem"),
      Opt(1000, "VosdkCounter", "vosdkCounter"), Opt(1001, "VosdkSession", "vosdkSession"),
      Opt(1002, "VosdkVocs", "vosdkVocs"), Opt(1003, "VosdkVos", "vosdkVos"),
      Opt(1029, "VosdkWebQuit", "vosdkWebQuit"), Opt(2001, "WrtcBrowser2Gateway", "wrtcBrowser2Gateway"),
      Opt(2021, "WrtcBrowser2Gateway", "wrtcBrowser2GatewayVideo"),
      Opt(2022, "WrtcBrowser2Browser", "wrtcBrowser2BrowserAudio"),
      Opt(2023, "WrtcBrowser2Browser", "wrtcBrowser2BrowserVideo"), Opt(2002, "WrtcProfile", "wrtcProfile"),
      Opt(2003, "WrtcPubStream", "wrtcPubStream"), Opt(2004, "WrtcUnpubStream", "wrtcUnpubStream"),
      Opt(2005, "WrtcSubStream", "wrtcSubStream"), Opt(2006, "WrtcUnsubStream", "wrtcUnsubStream"),
      Opt(2008, "WrtcEventsSequence", "wrtcEventsSequence"),
      Opt(2009, "WrtcReceiverReport", "wrtcReceiverReport"),
      Opt(2010, "WrtcGateway2Browser", "wrtcGateway2Browser"),
      Opt(2011, "WrtcStreamControl", "wrtcStreamControl"),
      Opt(2026, "WrtcConnectProxyTurnWorker", "wrtcConnectProxyTurnWorker")>>
ReportItem_eq ==
    [always |-> {"uri"}, ifset |-> {"encryptedItem", "vosdkCounter", "vosdkSession", "vosdkVocs", "vosdkVos",
     "vosdkWebQuit", "wrtcBrowser2Gateway", "wrtcBrowser2GatewayVideo", "wrtcBrowser2BrowserAudio",
     "wrtcBrowser2BrowserVideo", "wrtcProfile", "wrtcPubStream", "wrtcUnpubStream", "wrtcSubStream",
     "wrtcUnsubStream", "wrtcEventsSequence", "wrtcReceiverReport", "wrtcGateway2Browser",
     "wrtcStreamControl", "wrtcConnectProxyTurnWorker"}]
ReportItem_copy ==
    {"uri", "encryptedItem", "vosdkCounter", "vosdkSession", "vosdkVocs", "vosdkVos", "vosdkWebQuit",
     "wrtcBrowser2Gateway", "wrtcBrowser2GatewayVideo", "wrtcBrowser2BrowserAudio",
     "wrtcBrowser2BrowserVideo", "wrtcProfile", "wrtcPubStream", "wrtcUnpubStream", "wrtcSubStream",
     "wrtcUnsubStream", "wrtcEventsSequence", "wrtcReceiverReport", "wrtcGateway2Browser",
     "wrtcStreamControl", "wrtcConnectProxyTurnWorker", "__isset"}

-----------------------------------------------------------------------------
(* The tables by class.                                                    *)

Table(members, set, read, write, eq, copy) ==
    [members |-> members, set |-> set, read |-> read, write |-> write, eq |-> eq, copy |-> copy]

ItemClass ==
       "EncryptedItem" :> Table(EncryptedItem_members, EncryptedItem_set, EncryptedItem_read,
              EncryptedItem_write, EncryptedItem_eq, EncryptedItem_copy)
    @@ "VosdkHeader" :> Table(VosdkHeader_members, VosdkHeader_set, VosdkHeader_read,
              VosdkHeader_write, VosdkHeader_eq, VosdkHeader_copy)
    @@ "VosdkCounterItem" :> Table(VosdkCounterItem_members, VosdkCounterItem_set, VosdkCounterItem_read,
              VosdkCounterItem_write, VosdkCounterItem_eq, VosdkCounterItem_copy)
    @@ "VosdkCounter" :> Table(VosdkCounter_members, VosdkCounter_set, VosdkCounter_read,
              VosdkCounter_write, VosdkCounter_eq, VosdkCounter_copy)
    @@ "VosdkSession" :> Table(VosdkSession_members, VosdkSession_set, VosdkSession_read,
              VosdkSession_write, VosdkSession_eq, VosdkSession_copy)
    @@ "VosdkVocs" :> Table(VosdkVocs_members, VosdkVocs_set, VosdkVocs_read,
              VosdkVocs_write, VosdkVocs_eq, VosdkVocs_copy)
    @@ "VosdkVos" :> Table(VosdkVos_members, VosdkVos_set, VosdkVos_read,
              VosdkVos_write, VosdkVos_eq, VosdkVos_copy)
    @@ "VosdkWebQuit" :> Table(VosdkWebQuit_members, VosdkWebQuit_set, VosdkWebQuit_read,
              VosdkWebQuit_write, VosdkWebQuit_eq, VosdkWebQuit_copy)
    @@ "WrtcBrowser2Gateway" :> Table(WrtcBrowser2Gateway_members, WrtcBrowser2Gateway_set, WrtcBrowser2Gateway_read,
              WrtcBrowser2Gateway_write, WrtcBrowser2Gateway_eq, WrtcBrowser2Gateway_copy)
    @@ "WrtcBrowser2Browser" :> Table(WrtcBrowser2Browser_members, WrtcBrowser2Browser_set, WrtcBrowser2Browser_read,
              WrtcBrowser2Browser_write, WrtcBrowser2Browser_eq, WrtcBrowser2Browser_copy)
    @@ "WrtcProfile" :> Table(WrtcProfile_members, WrtcProfile_set, WrtcProfile_read,
              WrtcProfile_write, WrtcProfile_eq, WrtcProfile_copy)
    @@ "WrtcPubStream" :> Table(WrtcPubStream_members, WrtcPubStream_set, WrtcPubStream_read,
              WrtcPubStream_write, WrtcPubStream_eq, WrtcPubStream_copy)
    @@ "WrtcUnpubStream" :> Table(WrtcUnpubStream_members, WrtcUnpubStream_set, WrtcUnpubStream_read,
              WrtcUnpubStream_write, WrtcUnpubStream_eq, WrtcUnpubStream_copy)
    @@ "WrtcSubStream" :> Table(WrtcSubStream_members, WrtcSubStream_set, WrtcSubStream_read,
              WrtcSubStream_write, WrtcSubStream_eq, WrtcSubStream_copy)
    @@ "WrtcUnsubStream" :> Table(WrtcUnsubStream_members, WrtcUnsubStream_set, WrtcUnsubStream_read,
              WrtcUnsubStream_write, WrtcUnsubStream_eq, WrtcUnsubStream_copy)
    @@ "WrtcEventsSequenceItem" :> Table(WrtcEventsSequenceItem_members, WrtcEventsSequenceItem_set, WrtcEventsSequenceItem_read,
              WrtcEventsSequenceItem_write, WrtcEventsSequenceItem_eq, WrtcEventsSequenceItem_copy)
    @@ "WrtcEventsSequence" :> Table(WrtcEventsSequence_members, WrtcEventsSequence_set, WrtcEventsSequence_read,
              WrtcEventsSequence_write, WrtcEventsSequence_eq, WrtcEventsSequence_copy)
    @@ "WrtcReceiverReport" :> Table(WrtcReceiverReport_members, WrtcReceiverReport_set, WrtcReceiverReport_read,
              WrtcReceiverReport_write, WrtcReceiverReport_eq, WrtcReceiverReport_copy)
    @@ "WrtcGateway2Browser" :> Table(WrtcGateway2Browser_members, WrtcGateway2Browser_set, WrtcGateway2Browser_read,
              WrtcGateway2Browser_write, WrtcGateway2Browser_eq, WrtcGateway2Browser_copy)
    @@ "WrtcStreamControl" :> Table(WrtcStreamControl_members, WrtcStreamControl_set, WrtcStreamControl_read,
              WrtcStreamControl_write, WrtcStreamControl_eq, WrtcStreamControl_copy)
    @@ "WrtcConnectProxyTurnWorker" :> Table(WrtcConnectProxyTurnWorker_members, WrtcConnectProxyTurnWorker_set, WrtcConnectProxyTurnWorker_read,
              WrtcConnectProxyTurnWorker_write, WrtcConnectProxyTurnWorker_eq, WrtcConnectProxyTurnWorker_copy)
    @@ "ReportItem" :> Table(ReportItem_members, ReportItem_set, ReportItem_read,
              ReportItem_write, ReportItem_eq, ReportItem_copy)
=============================================================================
