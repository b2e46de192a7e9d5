------------------------------ MODULE MCSqlite ------------------------------
(* Two database files for TLC: one with the table and a row another program
   stored, one not there yet. *)
EXTENDS SqliteRefinement

S(verb, key, value) == [verb |-> verb, key |-> key, value |-> value]
Create == S("create", 0, "none")
Insert(k) == S("insert", k, "bool")
Delete(k) == S("delete", k, "none")
SelectAll == S("select", 0, "none")
Wrong == S("wrong", 0, "none")

Main == <<"d", "main.db">>
New == <<"d", "new.db">>
MCFiles == {Main, New}
MCInitDb == [f \in MCFiles |-> IF f = Main THEN Table({Row(1, "blob")}) ELSE Missing]
MCForeign == {S("insert", 2, "text")}
MCStatements ==
    {Create, S("insert", 2, "integer"), S("insert", 3, "integer"), Delete(1), SelectAll, Wrong}
      \cup MCForeign
MCSqls ==
    {<<SelectAll>>, <<Insert(2)>>, <<Insert(3)>>, <<Delete(1)>>, <<Create>>, <<Wrong>>,
     <<Create, Insert(2)>>}

Payload(path, sql, statements) ==
    [path |-> path, allowlist |-> {<<"d">>}, readonly |-> FALSE, sql |-> sql, statements |-> statements]
Req(o, path, sql) == [op |-> o, payload |-> Payload(path, sql, None)]
Tx(path, statements) == [op |-> "transaction", payload |-> Payload(path, None, statements)]
MCRequests ==
    {Req("query", Main, <<SelectAll>>), Req("query", Main, <<Insert(3)>>),
     Req("query", New, <<SelectAll>>), Req("query", Main, None),
     Req("execute", Main, <<Insert(2)>>), Req("execute", Main, <<SelectAll>>),
     Req("execute", New, <<Create, Insert(2)>>),
     Tx(Main, <<<<Insert(2)>>, <<Delete(1)>>>>), Tx(Main, <<<<SelectAll>>, <<Insert(2)>>>>),
     Tx(Main, <<<<Insert(3)>>, <<Wrong>>>>), Tx(Main, <<<<Delete(1)>>, None>>),
     Tx(New, <<<<Create>>, <<Insert(3)>>>>), Tx(Main, <<>>), Tx(Main, None),
     Req("open", New, None), Req("close", None, None), Req("vacuum", Main, None),
     [Req("execute", Main, <<Insert(2)>>) EXCEPT !.payload.readonly = TRUE],
     [Req("open", New, None) EXCEPT !.payload.readonly = TRUE],
     [Req("open", New, None) EXCEPT !.payload.allowlist = {}]}
=============================================================================
