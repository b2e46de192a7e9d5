----------------------------- MODULE MCWorkflows -----------------------------
(* Small workflows for TLC. A host is its labels, a path its characters. *)
EXTENDS Workflows

Api == <<"api", "example">>
Local == <<"localhost">>
Http(host) ==
    [method |-> None, scheme |-> "http", host |-> host, allowlist |-> {<<"example">>, Local},
     denyPrivate |-> TRUE, timeout |-> 1]
Item(protocol, payload) == [id |-> None, protocol |-> protocol, payload |-> payload]
Get == Item(<<"http", "request">>, Http(Api))
Named == [Get EXCEPT !.id = <<-1>>]
Private == Item(<<"http", "request">>, Http(Local))
Refused(field, value) == Item(<<"http", "request">>, [Http(Api) EXCEPT ![field] = value])
Other(protocol) == Item(protocol, None)
Check(kind, value, grants) ==
    Item(<<"permission", "check">>,
         [request |-> [kind |-> kind, value |-> value], grants |-> grants])
Random(modulus) == Item(<<"dev", "random_fail">>, [modulus |-> modulus])
List(steps, sequence) == [steps |-> steps, sequence |-> sequence]
Source(protocol, payload, correlation) ==
    [protocol |-> protocol, payload |-> payload, correlation |-> correlation]

Grants == [fs |-> {<<"/", "d">>}, http |-> {Api}]
Paths ==
    <<Check("fs", <<"/", "d", "a">>, Grants), Check("fs", <<"/">>, Grants), Check("fs", None, Grants),
      Check("db", <<"/">>, Grants)>>
Checks ==
    <<Check("http", Api, Grants), Check("os", Api, Grants), Check(None, Api, Grants),
      Check("http", Api, None), Other(<<"config", "describe">>)>>
Mocks ==
    <<Random(1), Random(2), Random(2), Other(<<"dev", "fail">>), Other(<<"dev", "echo">>),
      Other(<<"dev", "unknown">>)>>
Others == <<Other(<<"trace", "event">>), Refused("scheme", "https"), Refused("method", "HEAD")>>
MCPrivateHosts == {Local}
MCReplies == {<<"head", "body">>, <<"binary">>}
MCUnlucky == {<<1, "step", 2>>}
Direct(field, value) ==
    Source(<<"effect", "http", "request">>, [Http(Api) EXCEPT ![field] = value], None)

Both == Item(Broadcast, List(<<Get, Other(<<"log", "emit">>)>>, None))
One == Item(Linear, List(<<Get>>, <<"shared">>))
MCSteps ==
    {Get, Other(<<"dev", "fail">>), Other(<<"log", "emit">>), Named, Both, Private, One, Other(None)}
    \cup Range(Paths \o Checks \o Mocks \o Others)
MCSubmissions ==
    {Source(Linear, List(<<Get, Other(<<"dev", "fail">>), Named>>, None), None),
     Source(Linear, List(<<Both, Get>>, <<"shared">>), <<-2>>),
     Source(Broadcast, List(<<Private, One>>, None), None),
     Source(Linear, List(Paths, None), None), Source(Linear, List(Checks, None), None),
     Source(Linear, List(Mocks, None), None), Source(Linear, List(Others, None), None),
     Source(Linear, List(<<Get, Other(None)>>, None), None),
     Source(Broadcast, List(<<>>, None), None),
     Source(Broadcast, List(None, None), None),
     Direct("timeout", 0), Direct("allowlist", None),
     [Direct("host", Local) EXCEPT !.protocol = <<"effect", "http", "options">>]}
=============================================================================
