------------------------------ MODULE MCStack ------------------------------
(* Model-checking instance: one device, what it is provisioned with, what it *)
(* hears, is asked and says; a value or two on either side of each boundary. *)
EXTENDS Stack, MCOutboundSegmentation, FiniteSetsExt

(* Keys are sixteen octets; home and twin have one nid, and far another.   *)
KeyOf(tag) == [i \in 1 .. 16 |-> tag]
Home == KeyOf(1)
Twin == KeyOf(2)
Far == KeyOf(3)
NidOf(key) == IF key[1] < 3 THEN 41 ELSE 98
AidBits(key) == 7
Hash(label) == 32768 + label[1]
Log(seconds) == 64 + seconds \div 10

Label == [i \in 1 .. 16 |-> i]

-----------------------------------------------------------------------------
Sensed(id, size, positive, negative) ==
    [id |-> id, size |-> size, x_size |-> 1, positive |-> positive, negative |-> negative,
     sampling |-> 2, measurement |-> <<>>, update |-> <<60>>]
(* Either side of format A and of what the tolerances share.               *)
Sensors == << Sensed(79, 1, 0, 0), Sensed(2047, 15, 255, 15), Sensed(2047, 16, 255, 271),
              Sensed(2056, 17, 256, 0), Sensed(2049, 2, 0, 16), Sensed(2570, 127, 300, 255),
              Sensed(1, 128, 4095, 4095) >>
SomeCadences == {[id |-> 79, size |-> 2]}
SomeSettings == {[sensor |-> 79, setting |-> 110, size |-> 3]}

Declared(models) == [loc |-> 257, models |-> models]
(* More elements than a composition holds, and more models than an element.*)
FiveElements == [e \in 1 .. 5 |-> Declared([m \in 1 .. 5 |-> <<4660, m>>])]

-----------------------------------------------------------------------------
Capability(output_size, output, input_size, input) ==
    [kind |-> "Capabilities", elements |-> 2, p256 |-> TRUE, public_key |-> FALSE, static |-> TRUE,
     output_size |-> output_size, output |-> output, input_size |-> input_size, input |-> input]
Began(method, action, size) ==
    [kind |-> "Start", oob_key |-> FALSE, method |-> method, action |-> action, size |-> size]
OfBody(kind, n) == [kind |-> kind, body |-> [i \in 1 .. n |-> (7 * i) % 256]]

SomePdus ==
    {[kind |-> "Invite", attention |-> n] : n \in {0, 255}}
    \cup {Capability(o, {1, 3}, i, {0}) : o, i \in {0, 1, 7, 8}}
    \cup {Capability(0, o, 0, i) : o \in {{}, {0}, 0 .. 4}, i \in {{}, {3}, 0 .. 3}}
    \cup {Began(method, <<>>, 0) : method \in {0, 1}}
    \cup {Began(2, <<action>>, size) : action \in 0 .. 4, size \in {1, 7, 8}}
    \cup {Began(3, <<action>>, size) : action \in 0 .. 3, size \in {1, 7, 8}}
    \cup {OfBody("PublicKey", 64), OfBody("Confirmation", 16), OfBody("Random", 16), OfBody("Data", 33)}
    \cup {[kind |-> "InputComplete"], [kind |-> "Complete"]}
    \cup {[kind |-> "Failed", error |-> n] : n \in 0 .. 8}
    \cup {[kind |-> "LinkOpen", uuid |-> KeyOf(9)], [kind |-> "LinkAck"]}
    \cup {[kind |-> "LinkClose", reason |-> n] : n \in 0 .. 2}
    \cup {[kind |-> "TransactionStart", seg_n |-> n, total_len |-> 65, fcs |-> 3, data |-> OfBody("", len).body]
             : n \in {0, 63, 64}, len \in {1, 64}}
    \cup {[kind |-> "TransactionContinuation", segment_index |-> n, data |-> OfBody("", len).body]
             : n \in {1, 63, 64}, len \in {1, 64}}
    \cup {[kind |-> "TransactionAck"]}

Datum(iv, unicast) ==
    [key |-> Home, refresh |-> FALSE, update |-> TRUE, iv_index |-> <<0, 0, 0, iv>>, unicast |-> unicast]
(* The last leaves its second element no address; an index has four octets. *)
SomeProvisionings == {Datum(5, 10), Datum(1, 258), [Datum(5, 32767) EXCEPT !.iv_index = <<0, 1, 0, 5>>]}

-----------------------------------------------------------------------------
OpcodeAs(kind) == Access!OpcodeOf(kind)
Framed(net, iv, key, aid, src, dst, plain) ==
    [net |-> net, iv |-> iv, ctl |-> FALSE, opcode |-> 0, src |-> src, dst |-> dst, key |-> key,
     aid |-> aid, plain |-> plain, seq |-> 77]
Control(net, opcode) ==
    [Framed(net, 5, "ours", <<>>, 9, 10, <<1, 2>>) EXCEPT !.ctl = TRUE, !.opcode = opcode]

Get == OpcodeAs("BeaconGet")
(* Whose, and under which index; to whom; what; and the node's own words.  *)
SomeFrames ==
    {Framed(net, iv, "ours", <<>>, 9, 10, Get) : net \in {Home, Twin, Far}, iv \in {0, 1, 4, 5, 6}}
    \cup {Framed(Home, iv, "ours", <<>>, 9, dst, Get)
             : iv \in {1, 5}, dst \in {9, 10, 13, 14, 257, 258, 261, 266, 514, 49153, 32769}}
    \cup {Framed(Home, iv, key[1], key[2], 9, dst, Get)
             : iv \in {1, 5}, key \in {<<"theirs", <<>>>>, <<"app", <<7>>>>}, dst \in {10, 11, 300}}
    \cup {Framed(Home, iv, "ours", <<>>, 9, 10, plain)
             : iv \in {1, 5}, plain \in {<<>>, <<128>>, OpcodeAs("CompositionGet") \o <<0>>,
                                         OpcodeAs("CompositionGet") \o <<1>>}}
    \cup {Framed(Home, 5, "ours", <<>>, 10, 9, Get)}
    \cup {Framed(Home, 65541, "ours", <<>>, 0, 32767, Get)}
    \cup {Control(net, opcode) : net \in {Home, Far}, opcode \in {0, 10, 11}}

-----------------------------------------------------------------------------
Req(kind, p) == OpcodeAs(kind) \o p
Pair(n) == <<n % 256, n \div 256>>
Models == {<<4, 3>>, <<76, 0, 4, 3>>}
Indexes == {<<5, 0>>, <<5, 1>>, <<5, 16>>, <<5, 8>>}
SomeRequests ==
    {Req("AppKeyAdd", keys \o Label) : keys \in {<<0, 0, 0>>, <<1, 35, 69>>, <<255, 255, 255>>}}
    \cup {Req(kind, Pair(e) \o index \o model)
             : kind \in {"ModelAppBind", "ModelAppUnbind"}, e \in {1, 300}, index \in Indexes, model \in Models}
    \cup {Req("PublicationSet", Pair(1) \o Pair(address) \o index \o <<ttl, 2, 37>> \o model)
             : address \in {0, 300}, index \in Indexes \cup {<<5, 136>>}, ttl \in {4, 255}, model \in Models}
    \cup {Req("PublicationVirtualSet", Pair(1) \o Label \o index \o <<4, 2, 37>> \o model)
             : index \in Indexes \cup {<<5, 136>>}, model \in Models}
    \cup {Req("SubscriptionAdd", Pair(1) \o Pair(300) \o rest)
             : rest \in {<<4, 3>>, <<76, 0, 4, 3>>, <<76, 0, 4, 3, 0, 0, 1>>, <<76, 0, 4, 3, 0, 4, 3, 2, 1>>}}
    \cup {Req("SubscriptionVirtualAdd", Pair(1) \o Label \o model) : model \in Models}

-----------------------------------------------------------------------------
Say(e, m) == [element |-> e, message |-> m]
Cadence(kind, divisor, unitless) ==
    [kind |-> kind, id |-> 79, divisor |-> divisor, unitless |-> unitless, down |-> <<1, 2>>, up |-> <<3, 4>>,
     interval |-> 9, low |-> <<5, 6>>, high |-> <<7, 8>>]
OnOff(kind, transition, delay) ==
    [kind |-> kind, on_off |-> 1, tid |-> 4, transition |-> transition, delay |-> delay]
Bind(kind, app) == [kind |-> kind, element |-> 10, app |-> app, model |-> <<4096>>]
OfProperty(kind) == [kind |-> kind, id |-> 79]

(* What models of a peer read, if it survives; what is a status; of these  *)
(* from the elements too, of which the device declares a fifth.            *)
Read ==
    {[kind |-> kind] : kind \in {"BeaconGet", "DefaultTtlGet", "NodeReset", "BatteryGet"}}
    \cup {[kind |-> "BeaconSet", on |-> on] : on \in BOOLEAN}
    \cup {[kind |-> "DefaultTtlSet", ttl |-> 127], [kind |-> "CompositionGet", page |-> 1]}
    \cup {Bind(kind, app) : kind \in {"ModelAppBind", "ModelAppUnbind"}, app \in {0, 255, 256, 4095}}
    \cup {OnOff("OnOffSet", t, d) : t \in {<<>>, <<65>>}, d \in {<<>>, <<20>>}}
    \cup {[kind |-> kind, only |-> id] : kind \in {"DescriptorGet", "SensorGet"}, id \in {<<>>, <<79>>, <<65535>>}}
    \cup {[kind |-> "ColumnGet", id |-> 79, x |-> <<3>>]}
    \cup {[kind |-> "SeriesGet", id |-> 79, values |-> v] : v \in {<<>>, <<<<1>>, <<2>>>>}}
    \cup {OfProperty(kind) : kind \in {"CadenceGet", "SettingsGet"}}
    \cup {Cadence(kind, divisor, unitless)
             : kind \in {"CadenceSet", "CadenceSetUnacknowledged"}, divisor \in {0, 1, 3}, unitless \in BOOLEAN}
    \cup {[kind |-> "SettingGet", id |-> 79, setting |-> 110]}
    \cup {[kind |-> kind, id |-> 79, setting |-> 110, raw |-> <<1, 2, 3>>]
             : kind \in {"SettingSet", "SettingSetUnacknowledged"}}
Statuses ==
    {OnOff("OnOffSetUnacknowledged", <<>>, <<>>), Cadence("CadenceStatus", 1, TRUE),
     [kind |-> "OnOffStatus", present |-> 1, target |-> 0, remaining |-> 3],
     [kind |-> "BatteryStatus", level |-> 50, discharge |-> 70000, charge |-> 3, presence |-> 1,
      indicator |-> 2, charging |-> 3],
     [kind |-> "AppKeyList", status |-> 0, net |-> 1, apps |-> <<1, 2, 3>>],
     [kind |-> "NetworkTransmitStatus", count |-> 224, steps |-> 31],
     [kind |-> "DescriptorStatus", missing |-> <<>>, descriptors |-> Sensors],
     [kind |-> "DescriptorStatus", missing |-> <<80>>, descriptors |-> <<>>],
     [kind |-> "SensorStatus", data |-> [i \in DOMAIN Sensors |-> <<i>>]],
     [kind |-> "SeriesStatus", id |-> 79, values |-> <<<<1>>, <<2>>, <<3>>>>],
     [kind |-> "ColumnStatus", id |-> 79, x |-> <<3>>, values |-> <<<<1>>, <<2>>>>],
     [kind |-> "SettingsStatus", id |-> 79, settings |-> <<110, 111>>],
     [kind |-> "SettingStatus", id |-> 79, setting |-> 110, writable |-> TRUE, raw |-> <<1, 2, 3>>]}
SomeSayings == {Say(0, m) : m \in Read \cup Statuses}
               \cup {Say(e, [kind |-> "BatteryGet"]) : e \in {1, 3, 4}}
=============================================================================
