-------------------------------- MODULE MCFs --------------------------------
(* A small tree for TLC: in one directory a file, room for a second file with
   the same temporary name, that temporary file as an earlier crash left it, and
   a directory with a file; room for a second directory with a file. Links in
   the first directory lead to a file outside it, to a name outside that is not
   there, and, at the temporary name of a third file, to the file outside; a link
   outside leads to the directory, another to itself. Names that differ in their
   extension only have one temporary name, to keep the tree small. *)
EXTENDS FsEffects
CONSTANTS old, x, y

D == <<"d">>
A == <<"d", "a.txt">>
B == <<"d", "a.md">>
E == <<"d", "a">>
T == <<"d", "a.mutsuki-tmp">>
F == <<"d", "a", "f.mutsuki-tmp">>
ToFile == <<"d", "a.l">>
ToMissing == <<"d", "a.k">>
C == <<"d", "c">>
TmpOfC == <<"d", "c.mutsuki-tmp">>
G == <<"d.g">>
GF == <<"d.g", "f.mutsuki-tmp">>
OutsideFile == <<"d.txt">>
Missing == <<"d.md">>
ToDir == <<"d.l">>
Loop == <<"d.k">>
OutsideTmp == <<"d.mutsuki-tmp">>
MCTmpOf ==
    [p \in {A, B, E, T, ToFile, ToMissing} |-> T]
    @@ [p \in {D, G, OutsideFile, Missing, ToDir, Loop, OutsideTmp} |-> OutsideTmp]
    @@ [p \in {C, TmpOfC} |-> TmpOfC]
    @@ [p \in {F, GF} |-> p]
MCPaths == DOMAIN MCTmpOf
MCInitTree ==
    [p \in {D, E} |-> Dir]
    @@ [p \in {A, T, F, OutsideFile} |-> File(<<old>>)]
    @@ [p \in {ToFile, TmpOfC} |-> Link(OutsideFile)]
    @@ (ToMissing :> Link(Missing))
    @@ (ToDir :> Link(D))
    @@ (Loop :> Link(Loop))
    @@ [p \in MCPaths |-> Absent]

Payload(path, to, content) ==
    [path |-> path, to |-> to, content |-> content, allowlist |-> {D, G}]
Req(o, path, to, content) == [op |-> o, payload |-> Payload(path, to, content)]
Below(name, p) == name \o Tail(p)
MCRequests ==
    {Req("write", A, None, <<x, y>>), Req("write", B, None, <<y>>), Req("write", E, None, <<x>>),
     Req("append", A, None, <<x, y>>), Req("append", A, None, None),
     Req("copy", A, B, None), Req("copy", A, A, None),
     Req("move", A, F, None), Req("move", E, G, None),
     Req("remove", D, None, None), Req("remove", A, None, None), Req("mkdir", GF, None, None),
     Req("read", A, None, None), Req("list", D, None, None), Req("stat", T, None, None),
     Req("exists", B, None, None), Req("touch", A, None, None),
     [Req("copy", A, E, None) EXCEPT !.payload.allowlist = {A}],
     [Req("read", A, None, None) EXCEPT !.payload.allowlist = None],
     [Req("stat", A, None, None) EXCEPT !.payload.path = None],
     Req("append", ToFile, None, <<x>>), Req("append", ToMissing, None, <<x>>),
     Req("write", ToMissing, None, <<x>>), Req("write", C, None, <<x>>),
     [Req("write", Below(ToDir, A), None, <<x>>) EXCEPT !.payload.allowlist = {ToDir}],
     [Req("remove", OutsideFile, None, None) EXCEPT !.payload.allowlist = {ToFile}],
     [Req("mkdir", Missing, None, None) EXCEPT !.payload.allowlist = {ToMissing, Loop, Missing}]}
=============================================================================
