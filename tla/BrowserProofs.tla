---------------------------- MODULE BrowserProofs ----------------------------
(* Theorems about BrowserRunner, for any allow-list, pages, tasks and number of
   threads, and however often the provider is loaded again. NoTabLeak and
   StoredPagesAllowed are inductive as they stand: a tab is counted with the step
   of the snapshot that has it open, and only CommitPage stores a page. What
   tasks are told of the pages they stored needs BrowserInv, which follows each
   answer to the version of the output it is about. *)
EXTENDS BrowserRunner, EffectRuntimeProofs

-----------------------------------------------------------------------------
(* Tabs. *)

TabsInv == tabs \in Nat /\ kept \in Nat /\ NoTabLeak

LEMMA TabsInvInit == Init => TabsInv
  BY DEF Init, TabsInv, NoTabLeak, NoFetch, Fetch, Calls

LEMMA TabsInvTask ==
    ASSUME TabsInv, NEW w \in Workers, RunTask(w)
    PROVE  TabsInv'
<1> USE DEF TabsInv, NoTabLeak, At, Calls
<1>1. CASE Refuse(w)
  BY <1>1 DEF Refuse, Finish, NoFetch, Fetch
<1>2. CASE OpenTab(w)
  BY <1>2 DEF OpenTab, Finish, NoFetch, Fetch
<1>3. CASE Navigate(w)
  BY <1>3 DEF Navigate, Continue, Fetch
<1>4. CASE WaitForSelector(w)
  BY <1>4 DEF WaitForSelector, Continue, Fetch
<1>5. CASE ReadUrl(w) \/ ReadTitle(w) \/ ReadContent(w) \/ FetchFails(w)
  BY <1>5 DEF ReadUrl, ReadTitle, ReadContent, FetchFails, Continue, Fetch
<1>6. CASE CloseTab(w)
  <2>1. fetch'.step \in {"none", "commit"} /\ fetch.step = "close" /\ browser' = browser
    BY <1>6 DEF CloseTab, NoFetch, Fetch
  <2>2. CASE browser = "up"
    BY <1>6, <2>1, <2>2 DEF CloseTab
  <2>3. CASE browser # "up"
    BY <1>6, <2>1, <2>3 DEF CloseTab
  <2>4. QED
    BY <2>2, <2>3
<1>7. CASE CheckFails(w)
  BY <1>7 DEF CheckFails, Finish, NoFetch, Fetch
<1>8. CASE CommitPage(w)
  BY <1>8 DEF CommitPage, Finish, NoFetch, Fetch
<1>9. QED
  BY <1>1, <1>2, <1>3, <1>4, <1>5, <1>6, <1>7, <1>8 DEF RunTask

LEMMA TabsInvNext == TabsInv /\ [Next]_vars => TabsInv'
<1> SUFFICES ASSUME TabsInv, [Next]_vars PROVE TabsInv'
  OBVIOUS
<1>1. CASE BrowserGoes \/ Dispose
  BY <1>1 DEF BrowserGoes, Dispose, TabsInv, NoTabLeak
<1>2. CASE \E w \in Workers : RunTask(w)
  BY <1>2, TabsInvTask
<1>3. CASE UNCHANGED browserVars
  BY <1>3 DEF TabsInv, NoTabLeak, browserVars
<1>4. CASE Submit \/ HostStep \/ BrowserDispatch
           \/ \E w \in Workers : CancelBatch(w) \/ BrowserAnswer(w)
  <2>1. UNCHANGED browserVars
    BY <1>4 DEF Submit, HostStep, BrowserDispatch, CancelBatch, BrowserAnswer
  <2>2. QED
    BY <1>3, <2>1
<1>5. CASE UNCHANGED vars
  BY <1>3, <1>5 DEF vars
<1>6. QED
  BY <1>1, <1>2, <1>4, <1>5 DEF Next

(* A task leaves no tab open, whichever of its calls fails and whenever the
   browser goes (ChromiumBackend::snapshot, lib.rs:94). *)
THEOREM NoTabIsLeaked == Spec => []NoTabLeak
<1>1. TabsInv => NoTabLeak
  BY DEF TabsInv
<1>2. QED
  BY <1>1, TabsInvInit, TabsInvNext, PTL DEF Spec

-----------------------------------------------------------------------------
(* Stored pages. *)

Allowed(bytes) == bytes \in Snapshots => UrlAllowed(bytes.url) /\ Size[bytes] =< Config.maxDomBytes

LEMMA CommitStores ==
    ASSUME StoredPagesAllowed, NEW c, NEW e, NEW base, NEW b, Allowed(b),
           Mem!Commit(c, e, base, base, b)
    PROVE  StoredPagesAllowed'
  BY DEF StoredPagesAllowed, Allowed, Mem!Commit

LEMMA HostStores ==
    ASSUME StoredPagesAllowed, HostStep
    PROVE  StoredPagesAllowed'
<1>1. CASE Mem!Create(Host, "cow", Empty)
  BY <1>1, ContentsDiffer
     DEF StoredPagesAllowed, Mem!Create, Mem!CreateResource, Mem!Put
<1>2. ASSUME NEW s \in DOMAIN resources,
             Mem!Commit(Host, resources[s], resources[s].desc.version, resources[s].desc.version, Text)
      PROVE  StoredPagesAllowed'
  <2>1. Allowed(Text)
    BY ContentsDiffer DEF Allowed
  <2>2. QED
    BY <1>2, <2>1, CommitStores
<1>3. CASE Mem!Reload
  BY <1>3 DEF StoredPagesAllowed, Mem!Reload
<1>4. QED
  BY <1>1, <1>2, <1>3 DEF HostStep

LEMMA StoredInit == Init => StoredPagesAllowed
  BY DEF Init, Mem!Init, StoredPagesAllowed

LEMMA StoredNext == StoredPagesAllowed /\ [Next]_vars => StoredPagesAllowed'
<1> SUFFICES ASSUME StoredPagesAllowed, [Next]_vars PROVE StoredPagesAllowed'
  OBVIOUS
<1>1. CASE HostStep
  BY <1>1, HostStores
<1>2. ASSUME NEW w \in Workers, CommitPage(w) PROVE StoredPagesAllowed'
  <2>1. Allowed(fetch.page)
    BY <1>2 DEF CommitPage, RedirectAllowed, Allowed
  <2>2. QED
    BY <1>2, <2>1, CommitStores DEF CommitPage
<1>3. CASE UNCHANGED memoryVars
  BY <1>3 DEF memoryVars, StoredPagesAllowed
<1>4. ASSUME NEW w \in Workers, RunTask(w), ~CommitPage(w) PROVE UNCHANGED memoryVars
  BY <1>4 DEF RunTask, Refuse, OpenTab, Navigate, WaitForSelector, ReadUrl, ReadTitle,
     ReadContent, FetchFails, CloseTab, CheckFails, Continue
<1>5. CASE Submit \/ BrowserDispatch \/ BrowserGoes \/ Dispose
           \/ \E w \in Workers : CancelBatch(w) \/ BrowserAnswer(w)
  <2>1. UNCHANGED memoryVars
    BY <1>5 DEF Submit, BrowserDispatch, BrowserGoes, Dispose, CancelBatch, BrowserAnswer
  <2>2. QED
    BY <1>3, <2>1
<1>6. CASE UNCHANGED vars
  BY <1>3, <1>6 DEF vars
<1>7. QED
  BY <1>1, <1>2, <1>3, <1>4, <1>5, <1>6 DEF Next

(* What is stored of a page names a URL of an allowed site and is within the limit,
   wherever redirects lead and whatever the tab shows from one of the calls that
   read it to the next (run_task, lib.rs:177). *)
THEOREM OnlyAllowedPagesStored == Spec => []StoredPagesAllowed
  BY StoredInit, StoredNext, PTL DEF Spec

-----------------------------------------------------------------------------
(* The provider, as the runner and the host use it: no call stays open, and an
   entry is kept under the slot its descriptor names. *)

Stored == Snapshots \cup {Empty, Text}

EntriesOK ==
    /\ DOMAIN resources \subseteq 1 .. nextSlot
    /\ resources = [s \in DOMAIN resources |-> resources[s]]
    /\ \A s \in DOMAIN resources : resources[s] \in Mem!Entry /\ resources[s].desc.slot = s
ProviderInv ==
    /\ nextSlot \in Nat /\ reloads \in 0 .. MaxReloads
    /\ EntriesOK
    /\ published \subseteq Mem!Entry
    /\ call = [c \in {Host, Runner} |-> Mem!Idle]
    /\ reply \in Mem!Reply \cup {None}

LEMMA ProviderInit == Init => ProviderInv
  BY ProviderAssumption DEF Init, Mem!Init, ProviderInv, EntriesOK

LEMMA EntryFacts ==
    ASSUME NEW e \in Mem!Entry
    PROVE  /\ e.desc.slot \in Nat /\ e.desc.version \in Nat
           /\ e.desc \in Mem!Descriptor /\ e.bytes \in Stored
  BY DEF Mem!Entry, Mem!Descriptor, Mem!Slots, Mem!Versions, Stored

LEMMA NewEntry ==
    ASSUME NEW s \in Nat \ {0}, NEW sem \in Mem!Semantics, NEW v \in Nat \ {0}, NEW b \in Stored
    PROVE  /\ [desc |-> Mem!ResourceRef(s, sem, v, b), bytes |-> b] \in Mem!Entry
           /\ Mem!ResourceRef(s, sem, v, b).slot = s
           /\ Mem!ResourceRef(s, sem, v, b).version = v
  BY ProviderAssumption
     DEF Mem!ResourceRef, Mem!Entry, Mem!Descriptor, Mem!Slots, Mem!Versions, Stored

(* What a commit on an entry does to the provider. *)
CommitStoresNew(e, b) ==
    \E s \in DOMAIN resources : \E new \in Mem!Entry :
      /\ s = e.desc.slot /\ e.desc.version = resources[s].desc.version
      /\ new.desc.slot = s /\ new.desc.version = e.desc.version + 1 /\ new.bytes = b
      /\ reply'.got = new
      /\ resources' = [resources EXCEPT ![s] = new]
      /\ published' = published \cup {new}

LEMMA CommitFacts ==
    ASSUME ProviderInv, NEW c \in {Host, Runner}, NEW e \in Mem!Entry, NEW b \in Stored,
           Mem!Commit(c, e, e.desc.version, e.desc.version, b)
    PROVE  /\ ProviderInv' /\ UNCHANGED <<nextSlot, reloads>>
           /\ \/ reply'.status = "ok" /\ CommitStoresNew(e, b)
              \/ reply'.status # "ok" /\ UNCHANGED <<resources, published>>
<1> DEFINE d == e.desc
           s == d.slot
           found == Mem!Lookup(d)
           new == [desc |-> Mem!CommittedDesc(resources[s].desc, b), bytes |-> b]
<1>1. /\ UNCHANGED <<nextSlot, reloads>>
      /\ call' = [call EXCEPT ![c] = Mem!Idle]
  BY DEF Mem!Commit, Mem!Return
<1>2. call' = [x \in {Host, Runner} |-> Mem!Idle]
  BY <1>1 DEF ProviderInv
<1>3. ASSUME NEW status \in Mem!Statuses, NEW got \in Mem!Entry \cup {None}
      PROVE  /\ Mem!Answer("commit", status, e, got) \in Mem!Reply
             /\ Mem!Answer("commit", status, e, got).status = status
             /\ Mem!Answer("commit", status, e, got).got = got
  BY <1>3 DEF Mem!Answer, Mem!Reply, Mem!Ops
<1>4. CASE found # "ok" \/ (found = "ok" /\ ~Mem!PlanAgrees(d, d.version, d.version))
  <2>1. PICK status \in Mem!Statuses \ {"ok"} :
          reply' = Mem!Answer("commit", status, e, None) /\ UNCHANGED <<resources, published>>
    <3>1. "mismatch" \in Mem!Statuses \ {"ok"} /\ (found # "ok" => found \in Mem!Statuses \ {"ok"})
      BY DEF Mem!Statuses, Mem!Lookup
    <3>2. QED
      BY <1>4, <3>1 DEF Mem!Commit, Mem!Return
  <2>2. reply' \in Mem!Reply /\ reply'.status # "ok"
    BY <1>3, <2>1
  <2>3. QED
    BY <1>1, <1>2, <2>1, <2>2 DEF ProviderInv, EntriesOK
<1>5. CASE found = "ok" /\ Mem!PlanAgrees(d, d.version, d.version)
  <2>1. s \in DOMAIN resources /\ d.version = resources[s].desc.version
    BY <1>5 DEF Mem!Lookup, Mem!IsCurrent
  <2>2. /\ resources' = [resources EXCEPT ![s] = new]
        /\ published' = published \cup {new}
        /\ reply' = Mem!Answer("commit", "ok", e, new)
    BY <1>5 DEF Mem!Commit, Mem!Return
  <2>3. resources[s] \in Mem!Entry /\ resources[s].desc.slot = s
    BY <2>1 DEF ProviderInv, EntriesOK
  <2>4. new \in Mem!Entry /\ new.desc.slot = s /\ new.desc.version = d.version + 1 /\ new.bytes = b
    <3>1. /\ resources[s].desc.slot \in Nat \ {0} /\ resources[s].desc.version + 1 \in Nat \ {0}
          /\ resources[s].desc.semantic \in Mem!Semantics
      BY <2>3 DEF Mem!Entry, Mem!Descriptor, Mem!Slots, Mem!Versions
    <3>2. QED
      BY <2>1, <2>3, <3>1, NewEntry DEF Mem!CommittedDesc
  <2> HIDE DEF new
  <2>5. reply' \in Mem!Reply /\ reply'.status = "ok" /\ reply'.got = new
    <3>1. "ok" \in Mem!Statuses
      BY DEF Mem!Statuses
    <3>2. QED
      BY <1>3, <2>2, <2>4, <3>1
  <2>6. EntriesOK'
    BY <1>1, <2>1, <2>2, <2>4 DEF ProviderInv, EntriesOK
  <2>7. ProviderInv'
    BY <1>1, <1>2, <2>2, <2>4, <2>5, <2>6 DEF ProviderInv
  <2>8. CommitStoresNew(e, b)
    BY <2>1, <2>2, <2>4, <2>5 DEF CommitStoresNew
  <2>9. QED
    BY <1>1, <2>5, <2>7, <2>8
<1>6. QED
  BY <1>4, <1>5

LEMMA CreateFacts ==
    ASSUME ProviderInv, Mem!Create(Host, "cow", Empty)
    PROVE  /\ ProviderInv' /\ UNCHANGED reloads
           /\ \E s : /\ s \in DOMAIN resources' /\ s \notin DOMAIN resources
                     /\ DOMAIN resources' = DOMAIN resources \cup {s}
                     /\ \A t \in DOMAIN resources : resources'[t] = resources[t]
                     /\ resources'[s] \in Mem!Entry /\ resources'[s].desc.slot = s
                     /\ resources'[s].bytes = Empty
                     /\ published' = published \cup {resources'[s]}
<1> DEFINE e == [desc |-> Mem!ResourceRef(nextSlot + 1, "cow", 1, Empty), bytes |-> Empty]
<1>1. /\ nextSlot' = nextSlot + 1
      /\ resources' = Mem!Put(resources, nextSlot + 1, e)
      /\ published' = published \cup {e}
      /\ call' = [call EXCEPT ![Host] = Mem!Idle]
      /\ reply' = Mem!Answer("create", "ok", None, e)
      /\ UNCHANGED reloads
  BY DEF Mem!Create, Mem!CreateResource, Mem!Return
<1>2. e \in Mem!Entry /\ e.desc.slot = nextSlot + 1 /\ e.bytes = Empty
  BY NewEntry DEF ProviderInv, Mem!Semantics, Stored
<1> HIDE DEF e
<1>3. nextSlot \in Nat /\ nextSlot + 1 \notin DOMAIN resources
  BY DEF ProviderInv, EntriesOK
<1>4. \A s \in DOMAIN resources : s \in DOMAIN resources' /\ resources'[s] = resources[s]
  BY <1>1, <1>3 DEF Mem!Put
<1>5. EntriesOK'
  <2>1. DOMAIN resources' = DOMAIN resources \cup {nextSlot + 1} /\ resources'[nextSlot + 1] = e
    BY <1>1 DEF Mem!Put
  <2>2. resources' = [s \in DOMAIN resources' |-> resources'[s]]
    BY <1>1 DEF Mem!Put
  <2>3. DOMAIN resources' \subseteq 1 .. nextSlot'
    BY <1>1, <1>3, <2>1 DEF ProviderInv, EntriesOK
  <2>4. QED
    BY <1>2, <1>4, <2>1, <2>2, <2>3 DEF ProviderInv, EntriesOK
<1>6. reply' \in Mem!Reply
  BY <1>1, <1>2 DEF Mem!Answer, Mem!Reply, Mem!Ops, Mem!Statuses
<1>7. call' = [x \in {Host, Runner} |-> Mem!Idle]
  BY <1>1 DEF ProviderInv
<1>8. ProviderInv'
  BY <1>1, <1>2, <1>3, <1>5, <1>6, <1>7 DEF ProviderInv
<1>9. DOMAIN resources' = DOMAIN resources \cup {nextSlot + 1} /\ resources'[nextSlot + 1] = e
  BY <1>1 DEF Mem!Put
<1>10. QED
  BY <1>1, <1>2, <1>3, <1>4, <1>8, <1>9

LEMMA ReloadFacts ==
    ASSUME ProviderInv, Mem!Reload
    PROVE  ProviderInv' /\ reloads' = reloads + 1 /\ UNCHANGED published /\ DOMAIN resources' = {}
  BY ProviderAssumption DEF ProviderInv, EntriesOK, Mem!Reload

-----------------------------------------------------------------------------
(* What was handed out. In one load of the provider a slot and a version name one
   entry, and none that is ahead of what the provider has now. *)

NotAhead(h) ==
    /\ h.entry.desc.slot \in DOMAIN resources
    /\ LET now == resources[h.entry.desc.slot]
       IN  /\ h.entry.desc.version =< now.desc.version
           /\ h.entry.desc.version = now.desc.version => h.entry = now
SameName(g, h) ==
    /\ g.reload = h.reload
    /\ g.entry.desc.slot = h.entry.desc.slot /\ g.entry.desc.version = h.entry.desc.version
HandedInv ==
    /\ \A h \in handed : /\ h.reload \in Nat /\ h.reload =< reloads /\ h.entry \in published
                         /\ h.reload = reloads => NotAhead(h)
    /\ \A g, h \in handed : SameName(g, h) => g = h
    /\ \A s \in DOMAIN resources : \E h \in handed : h = [reload |-> reloads, entry |-> resources[s]]

LEMMA QuietHanded ==
    ASSUME HandedInv, UNCHANGED memoryVars
    PROVE  HandedInv'
  BY DEF HandedInv, NotAhead, SameName, memoryVars

(* One entry is new, and ahead of all that were handed out under its slot. *)
LEMMA HandedNew ==
    ASSUME HandedInv, ProviderInv, HandOut, UNCHANGED reloads, published \subseteq published',
           NEW s, s \in DOMAIN resources', DOMAIN resources' = DOMAIN resources \cup {s},
           \A t \in DOMAIN resources : t # s => resources'[t] = resources[t],
           s \in DOMAIN resources => resources[s].desc.version < resources'[s].desc.version,
           resources'[s] \in Mem!Entry, resources'[s] \in published', resources'[s].desc.slot = s
    PROVE  /\ HandedInv'
           /\ \E n : /\ n = [reload |-> reloads, entry |-> resources'[s]]
                     /\ handed' = handed \cup {n}
<1>1. PICK n : n = [reload |-> reloads, entry |-> resources'[s]]
  OBVIOUS
<1>2. n.reload = reloads /\ n.entry = resources'[s] /\ reloads \in Nat
  BY <1>1, ProviderAssumption DEF ProviderInv
<1>3. handed' = handed \cup {n}
  <2>1. ASSUME NEW x \in handed' PROVE x \in handed \/ x = n
    <3>1. CASE x \in handed
      BY <3>1
    <3>2. ASSUME NEW t \in DOMAIN resources', x = [reload |-> reloads', entry |-> resources'[t]]
          PROVE  x \in handed \/ x = n
      <4>1. CASE t = s
        BY <1>1, <3>2, <4>1
      <4>2. CASE t # s
        <5>1. t \in DOMAIN resources /\ resources'[t] = resources[t]
          BY <4>2
        <5>2. PICK h \in handed : h = [reload |-> reloads, entry |-> resources[t]]
          BY <5>1 DEF HandedInv
        <5>3. QED
          BY <3>2, <5>1, <5>2
      <4>3. QED
        BY <4>1, <4>2
    <3>3. QED
      BY <3>1, <3>2 DEF HandOut
  <2>2. n \in handed' /\ handed \subseteq handed'
    BY <1>1 DEF HandOut
  <2>3. QED
    BY <2>1, <2>2
<1>4. \A h \in handed : /\ h.entry \in Mem!Entry /\ h.entry.desc.version \in Nat
                        /\ h.reload \in Nat /\ h.reload =< reloads /\ h.entry \in published'
  BY EntryFacts DEF HandedInv, ProviderInv
<1>5. resources'[s].desc.version \in Nat
  BY EntryFacts
<1>6. s \in DOMAIN resources => resources[s].desc.version \in Nat
  BY EntryFacts DEF ProviderInv, EntriesOK
<1>7. ASSUME NEW h \in handed, h.reload = reloads
      PROVE  /\ h.entry.desc.slot \in DOMAIN resources
             /\ h.entry.desc.slot = s => h.entry.desc.version < resources'[s].desc.version
             /\ NotAhead(h)'
  <2>1. NotAhead(h)
    BY <1>7 DEF HandedInv
  <2>2. CASE h.entry.desc.slot = s
    BY <1>4, <1>5, <1>6, <2>1, <2>2 DEF NotAhead
  <2>3. CASE h.entry.desc.slot # s
    BY <2>1, <2>3 DEF NotAhead
  <2>4. QED
    BY <2>2, <2>3
<1>8. NotAhead(n)'
  BY <1>2, <1>5 DEF NotAhead
<1>9. \A h \in handed : ~SameName(h, n) /\ ~SameName(n, h)
  BY <1>2, <1>4, <1>5, <1>7 DEF SameName
<1>10. \A t \in DOMAIN resources' : \E h \in handed' : h = [reload |-> reloads', entry |-> resources'[t]]
  BY DEF HandOut
<1>11. \A g, h \in handed' : SameName(g, h) => g = h
  BY <1>3, <1>9 DEF HandedInv
<1>12. \A h \in handed' : /\ h.reload \in Nat /\ h.reload =< reloads' /\ h.entry \in published'
                          /\ h.reload = reloads' => NotAhead(h)'
  BY <1>2, <1>3, <1>4, <1>7, <1>8
<1>13. HandedInv'
  BY <1>10, <1>11, <1>12 DEF HandedInv, SameName
<1>14. QED
  BY <1>1, <1>3, <1>13

(* Nothing is new. *)
LEMMA HandedSame ==
    ASSUME HandedInv, HandOut, UNCHANGED <<resources, published, reloads>>
    PROVE  HandedInv' /\ handed' = handed
<1>1. handed' = handed
  BY DEF HandOut, HandedInv
<1>2. QED
  BY <1>1 DEF HandedInv, NotAhead, SameName

(* After a reload the names start again, under another number. *)
LEMMA HandedReloaded ==
    ASSUME HandedInv, HandOut, ProviderInv, DOMAIN resources' = {}, reloads' = reloads + 1,
           UNCHANGED published
    PROVE  HandedInv' /\ handed' = handed
<1>1. handed' = handed
  BY DEF HandOut
<1>2. reloads \in Nat
  BY ProviderAssumption DEF ProviderInv
<1>3. QED
  BY <1>1, <1>2 DEF HandedInv, SameName

LEMMA HandedCommitted ==
    ASSUME HandedInv, ProviderInv, HandOut, UNCHANGED reloads, NEW e, NEW b, CommitStoresNew(e, b),
           e \in Mem!Entry
    PROVE  /\ HandedInv'
           /\ \E n, v : /\ v = [reload |-> reloads, desc |-> reply'.got.desc]
                        /\ handed' = handed \cup {n} /\ n \notin handed
                        /\ n.reload = v.reload /\ n.entry.desc = v.desc /\ n.entry.bytes = b
                        /\ v.desc.slot = e.desc.slot /\ v.desc.version = e.desc.version + 1
                        /\ \A h \in handed : h.reload = v.reload => h.entry.desc # v.desc
<1>1. PICK s \in DOMAIN resources, new \in Mem!Entry :
        /\ s = e.desc.slot /\ e.desc.version = resources[s].desc.version
        /\ new.desc.slot = s /\ new.desc.version = e.desc.version + 1 /\ new.bytes = b
        /\ reply'.got = new
        /\ resources' = [resources EXCEPT ![s] = new]
        /\ published' = published \cup {new}
  BY DEF CommitStoresNew
<1>2. e.desc.version \in Nat
  BY EntryFacts
<1>3. /\ DOMAIN resources' = DOMAIN resources /\ resources'[s] = new
      /\ \A t \in DOMAIN resources : t # s => resources'[t] = resources[t]
  BY <1>1
<1>4. /\ HandedInv'
      /\ \E n : /\ n = [reload |-> reloads, entry |-> resources'[s]]
                /\ handed' = handed \cup {n}
  BY <1>1, <1>2, <1>3, HandedNew
<1>5. PICK n : n = [reload |-> reloads, entry |-> new] /\ handed' = handed \cup {n}
  BY <1>3, <1>4
<1>6. PICK v : v = [reload |-> reloads, desc |-> reply'.got.desc]
  OBVIOUS
<1>7. /\ n.reload = v.reload /\ n.entry.desc = v.desc /\ n.entry.bytes = b /\ v.reload = reloads
      /\ v.desc.slot = s /\ v.desc.version = e.desc.version + 1
  BY <1>1, <1>5, <1>6
<1>8. ASSUME NEW h \in handed, h.reload = v.reload, h.entry.desc = v.desc PROVE FALSE
  <2>1. NotAhead(h)
    BY <1>7, <1>8 DEF HandedInv
  <2>2. QED
    BY <1>1, <1>2, <1>7, <1>8, <2>1 DEF NotAhead
<1>9. QED
  BY <1>1, <1>4, <1>5, <1>6, <1>7, <1>8

-----------------------------------------------------------------------------
(* Tasks and their answers. A page that was stored is the one value of its task's
   answer; its version follows the one the task named, and was handed out with
   the page. *)

FetchInv ==
    /\ fetch.step \in {"none", "navigate", "wait", "url", "title", "content", "close", "commit"}
    /\ fetch.step \in {"title", "content"} => \E p \in Pages : fetch.page = Snapshot(p.url, None)
    /\ fetch.step = "commit" => fetch.page \in Snapshots
    /\ fetch.step = "close" => fetch.page \in Snapshots \cup {None}
    /\ fetch # NoFetch => \E w \in Workers : Busy(w)

OutputOf(i) == issued[i].payload.output.entry
OutputsInv == \A i \in DOMAIN issued : issued[i].payload.output \in handed

FollowsOutput(i, v) ==
    /\ v.desc.slot = OutputOf(i).desc.slot
    /\ v.desc.version = OutputOf(i).desc.version + 1
WasHanded(v) ==
    \E h \in handed : h.reload = v.reload /\ h.entry.desc = v.desc /\ h.entry.bytes \in Snapshots
Answers(i, v) == Gave(i, Success({v}))
AnswersInv ==
    \A i, r : Gave(i, r) /\ r.code = "ok" =>
      \E v : r = Success({v}) /\ FollowsOutput(i, v) /\ WasHanded(v)
DistinctInv == \A i, j, v : Answers(i, v) /\ Answers(j, v) => i = j
StoredInv ==
    \A h \in handed : h.entry.bytes \in Snapshots =>
      \E i, v : Answers(i, v) /\ v = [reload |-> h.reload, desc |-> h.entry.desc]

GivenInv == AnswersInv /\ DistinctInv /\ StoredInv
BrowserInv == RuntimeInv /\ ProviderInv /\ HandedInv /\ OutputsInv /\ FetchInv /\ GivenInv

LEMMA OutputFacts ==
    ASSUME BrowserInv, NEW i \in DOMAIN issued
    PROVE  OutputOf(i) \in Mem!Entry
  BY DEF BrowserInv, OutputsInv, OutputOf, HandedInv, ProviderInv

LEMMA SuccessFacts ==
    /\ \A v : Success({v}).code = "ok" /\ Success({v}).value = {v} /\ Success({v}) # NoResult
    /\ \A u, v : Success({u}) = Success({v}) => u = v
    /\ SnapshotFailed.code # "ok"
    /\ \A r : r.code = "ok" => r # NoResult
<1>1. \A v : Success({v}).code = "ok" /\ Success({v}).value = {v}
  BY DEF Success
<1>2. NoResult.code # "ok" /\ SnapshotFailed.code # "ok"
  BY DEF NoResult, Failure, SnapshotFailed
<1>3. ASSUME NEW u, NEW v, Success({u}) = Success({v}) PROVE u = v
  <2>1. {u} = {v}
    BY <1>1, <1>3
  <2>2. QED
    BY <2>1
<1>4. \A v : Success({v}) # NoResult
  BY <1>1, <1>2
<1>5. QED
  BY <1>1, <1>2, <1>3, <1>4

LEMMA BrowserInvInit == Init => BrowserInv
<1> SUFFICES ASSUME Init PROVE BrowserInv
  OBVIOUS
<1>1. RuntimeInv /\ ProviderInv
  BY RuntimeInvInit, ProviderInit DEF Init
<1>2. OutputsInv
  BY IsSeqFacts, IsSeqShort DEF Init, RuntimeInit, OutputsInv
<1>3. FetchInv
  BY DEF Init, FetchInv, NoFetch, Fetch
<1>4. \A i, r : ~Gave(i, r)
  BY IsSeqFacts, IsSeqShort DEF Init, RuntimeInit, Gave
<1>5. GivenInv
  BY <1>4 DEF GivenInv, AnswersInv, DistinctInv, StoredInv, Answers, Init
<1>6. HandedInv
  BY DEF Init, Mem!Init, HandedInv
<1>7. QED
  BY <1>1, <1>2, <1>3, <1>5, <1>6 DEF BrowserInv

(* Given answers stay, and none is new but failures. *)
NoNews ==
    /\ \A i, r : Gave(i, r)' /\ r.code = "ok" => Gave(i, r)
    /\ \A i, r : Gave(i, r) /\ r # NoResult => Gave(i, r)'
    /\ \A i \in DOMAIN issued : issued'[i] = issued[i]

LEMMA SameEntriesGiven ==
    ASSUME BrowserInv, NoNews, UNCHANGED handed
    PROVE  GivenInv'
<1>1. \A i, r : Gave(i, r) => i \in DOMAIN issued
  BY GaveFacts DEF BrowserInv
<1>2. \A i, v : Answers(i, v) <=> Answers(i, v)'
  BY SuccessFacts DEF NoNews, Answers
<1>3. \A v : WasHanded(v) => WasHanded(v)'
  BY DEF WasHanded
<1>4. ASSUME NEW i, NEW r, Gave(i, r)', r.code = "ok"
      PROVE  \E v : r = Success({v}) /\ FollowsOutput(i, v)' /\ WasHanded(v)'
  <2>1. Gave(i, r) /\ i \in DOMAIN issued /\ issued'[i] = issued[i]
    BY <1>1, <1>4 DEF NoNews
  <2>2. PICK v : r = Success({v}) /\ FollowsOutput(i, v) /\ WasHanded(v)
    BY <1>4, <2>1 DEF BrowserInv, GivenInv, AnswersInv
  <2>3. FollowsOutput(i, v)'
    BY <2>1, <2>2 DEF FollowsOutput, OutputOf
  <2>4. QED
    BY <1>3, <2>2, <2>3
<1>5. AnswersInv'
  BY <1>4 DEF AnswersInv
<1>6. DistinctInv'
  BY <1>2 DEF BrowserInv, GivenInv, DistinctInv
<1>7. StoredInv'
  BY <1>2 DEF BrowserInv, GivenInv, StoredInv
<1>8. QED
  BY <1>5, <1>6, <1>7 DEF GivenInv

LEMMA QuietProvider ==
    ASSUME ProviderInv, UNCHANGED memoryVars
    PROVE  ProviderInv'
  BY DEF ProviderInv, EntriesOK, memoryVars

LEMMA QuietKeeps ==
    ASSUME BrowserInv, RuntimeInv', NoNews, UNCHANGED <<issued, memoryVars>>, FetchInv'
    PROVE  BrowserInv'
<1>1. OutputsInv'
  BY DEF BrowserInv, OutputsInv, memoryVars
<1>2. QED
  BY <1>1, SameEntriesGiven, QuietProvider, QuietHanded DEF BrowserInv, memoryVars

LEMMA NoNewsWhenIdle == UNCHANGED runtimeVars => NoNews
  BY DEF NoNews, runtimeVars, Gave

-----------------------------------------------------------------------------
(* The steps of a snapshot. *)

LEMMA IdleFetch ==
    ASSUME fetch' = NoFetch
    PROVE  FetchInv'
  BY DEF FetchInv, NoFetch, Fetch

(* An entry ends with an error, and nothing was stored for it. *)
LEMMA FailKeeps ==
    ASSUME BrowserInv, NEW w \in Workers, Busy(w), FinishEntry(w, SnapshotFailed),
           fetch' = NoFetch, UNCHANGED memoryVars
    PROVE  BrowserInv'
<1>1. /\ RuntimeInv' /\ UNCHANGED issued
      /\ \A i, r : Gave(i, r)' => Gave(i, r) \/ (i = Position(w) /\ r = SnapshotFailed)
      /\ \A i, r : Gave(i, r) => Gave(i, r)'
  BY FinishEntryInv, FinishEntryGives DEF BrowserInv
<1>2. NoNews
  BY <1>1, SuccessFacts DEF NoNews
<1>3. QED
  BY <1>1, <1>2, IdleFetch, QuietKeeps

LEMMA ContinueKeeps ==
    ASSUME BrowserInv, NEW w \in Workers, Busy(w), NEW step, NEW page,
           fetch' = Fetch(step, page), UNCHANGED <<runtimeVars, memoryVars>>,
           step \in {"navigate", "wait", "url", "title", "content", "close", "commit"},
           step \in {"title", "content"} => \E p \in Pages : page = Snapshot(p.url, None),
           step = "commit" => page \in Snapshots,
           step = "close" => page \in Snapshots \cup {None}
    PROVE  BrowserInv'
<1>1. RuntimeInv' /\ NoNews /\ UNCHANGED <<issued, batch>>
  BY RuntimeUnchanged, NoNewsWhenIdle DEF BrowserInv, runtimeVars
<1>2. Busy(w)'
  BY <1>1 DEF Busy
<1>3. fetch'.step = step /\ fetch'.page = page
  BY DEF Fetch
<1>4. FetchInv'
  BY <1>2, <1>3 DEF FetchInv
<1>5. QED
  BY <1>1, <1>4, QuietKeeps

LEMMA FetchStepKeeps ==
    ASSUME BrowserInv, NEW w \in Workers,
           \/ Refuse(w) \/ OpenTab(w) \/ Navigate(w) \/ WaitForSelector(w) \/ ReadUrl(w)
           \/ ReadTitle(w) \/ ReadContent(w) \/ FetchFails(w) \/ CloseTab(w) \/ CheckFails(w)
    PROVE  BrowserInv'
<1>1. CASE Refuse(w)
  BY <1>1, FailKeeps DEF Refuse, At, Finish
<1>2. CASE OpenTab(w)
  <2>1. CASE Finish(w, SnapshotFailed) /\ UNCHANGED memoryVars
    BY <1>2, <2>1, FailKeeps DEF OpenTab, At, Finish
  <2>2. CASE fetch' = Fetch("navigate", None) /\ UNCHANGED <<runtimeVars, memoryVars>>
    BY <1>2, <2>2, ContinueKeeps DEF OpenTab, At
  <2>3. QED
    BY <1>2, <2>1, <2>2 DEF OpenTab
<1>3. CASE Navigate(w) \/ WaitForSelector(w)
  BY <1>3, ContinueKeeps DEF Navigate, WaitForSelector, At, Continue
<1>4. CASE ReadUrl(w) \/ ReadTitle(w) \/ ReadContent(w)
  <2>1. Busy(w) /\ FetchInv
    BY <1>4 DEF ReadUrl, ReadTitle, ReadContent, At, BrowserInv
  <2>2. CASE ReadUrl(w)
    <3>1. PICK shown \in Pages : Continue(Fetch("title", Snapshot(shown.url, None)))
      BY <2>2 DEF ReadUrl
    <3>2. QED
      BY <2>1, <3>1, ContinueKeeps DEF Continue
  <2>3. CASE ReadTitle(w)
    <3>1. /\ \E p \in Pages : fetch.page = Snapshot(p.url, None)
          /\ Continue(Fetch("content", fetch.page))
      BY <2>1, <2>3 DEF ReadTitle, At, FetchInv
    <3>2. QED
      BY <2>1, <3>1, ContinueKeeps DEF Continue
  <2>4. CASE ReadContent(w)
    <3>1. PICK read \in Pages : fetch.page = Snapshot(read.url, None)
      BY <2>1, <2>4 DEF ReadContent, At, FetchInv
    <3>2. PICK shown \in Pages : Continue(Fetch("close", Snapshot(fetch.page.url, shown.html)))
      BY <2>4 DEF ReadContent
    <3>3. Snapshot(fetch.page.url, shown.html) \in Snapshots
      <4>1. Snapshot(read.url, None).url = read.url
        BY DEF Snapshot
      <4>2. fetch.page.url = read.url
        BY <3>1, <4>1
      <4>3. Snapshot(read.url, shown.html) \in Snapshots
        BY DEF Snapshots
      <4>4. QED
        BY <4>2, <4>3
    <3>4. QED
      BY <2>1, <3>2, <3>3, ContinueKeeps DEF Continue
  <2>5. QED
    BY <1>4, <2>2, <2>3, <2>4
<1>5. CASE FetchFails(w)
  BY <1>5, ContinueKeeps DEF FetchFails, Continue
<1>6. CASE CloseTab(w)
  <2>1. Busy(w) /\ UNCHANGED memoryVars /\ fetch.page \in Snapshots \cup {None}
    BY <1>6 DEF CloseTab, At, BrowserInv, FetchInv
  <2>2. CASE fetch.page = None
    BY <1>6, <2>1, <2>2, FailKeeps DEF CloseTab
  <2>3. CASE fetch.page # None
    <3>1. fetch' = Fetch("commit", fetch.page) /\ UNCHANGED runtimeVars
      BY <1>6, <2>3 DEF CloseTab
    <3>2. QED
      BY <2>1, <2>3, <3>1, ContinueKeeps
  <2>4. QED
    BY <2>2, <2>3
<1>7. CASE CheckFails(w)
  BY <1>7, FailKeeps DEF CheckFails, At, Finish
<1>8. QED
  BY <1>1, <1>2, <1>3, <1>4, <1>5, <1>6, <1>7

(* A commit that succeeds hands out a name that no answer has. *)
LEMMA CommitSucceeds ==
    ASSUME BrowserInv, NEW w \in Workers, Busy(w), NEW b \in Snapshots, NEW result, NEW p,
           p = Position(w), CommitStoresNew(OutputOf(p), b), UNCHANGED reloads, HandOut,
           result = Success({[reload |-> reloads, desc |-> reply'.got.desc]}),
           FinishEntry(w, result)
    PROVE  GivenInv' /\ HandedInv' /\ handed \subseteq handed'
<1>1. /\ HandedInv'
      /\ \E n, v : /\ v = [reload |-> reloads, desc |-> reply'.got.desc]
                   /\ handed' = handed \cup {n} /\ n \notin handed
                   /\ n.reload = v.reload /\ n.entry.desc = v.desc /\ n.entry.bytes = b
                   /\ v.desc.slot = OutputOf(p).desc.slot
                   /\ v.desc.version = OutputOf(p).desc.version + 1
                   /\ \A h \in handed : h.reload = v.reload => h.entry.desc # v.desc
  <2>1. OutputOf(p) \in Mem!Entry
    BY BusyFacts, OutputFacts DEF BrowserInv
  <2>2. QED
    BY <2>1, HandedCommitted DEF BrowserInv
<1>2. PICK n, v : /\ v = [reload |-> reloads, desc |-> reply'.got.desc]
                  /\ handed' = handed \cup {n} /\ n \notin handed
                  /\ n.reload = v.reload /\ n.entry.desc = v.desc /\ n.entry.bytes = b
                  /\ v.desc.slot = OutputOf(p).desc.slot
                  /\ v.desc.version = OutputOf(p).desc.version + 1
                  /\ \A h \in handed : h.reload = v.reload => h.entry.desc # v.desc
  BY <1>1
<1>3. result = Success({v}) /\ \A u : WasHanded(u) => WasHanded(u)'
  BY <1>2 DEF WasHanded
<1>4. /\ UNCHANGED issued
      /\ \A i, r : Gave(i, r)' => Gave(i, r) \/ (i = p /\ r = result)
  BY FinishEntryInv DEF BrowserInv
<1>5. Answers(p, v)' /\ \A i, u : Answers(i, u) => Answers(i, u)'
  <2>1. \A i, r : Gave(i, r) => Gave(i, r)'
    BY FinishEntryGives DEF BrowserInv
  <2>2. \A i : i = Position(w) => Gave(i, result)'
    BY FinishEntryGives DEF BrowserInv
  <2>3. QED
    BY <1>3, <2>1, <2>2 DEF Answers
<1>6. \A i, u : FollowsOutput(i, u) => FollowsOutput(i, u)'
  BY <1>4 DEF FollowsOutput, OutputOf
<1>7. \A i, u : Answers(i, u)' => Answers(i, u) \/ (i = p /\ u = v)
  BY <1>3, <1>4, SuccessFacts DEF Answers
<1>8. ASSUME NEW i, Answers(i, v) PROVE FALSE
  <2>1. Gave(i, Success({v})) /\ Success({v}).code = "ok"
    BY <1>8, SuccessFacts DEF Answers
  <2>2. PICK u : Success({v}) = Success({u}) /\ WasHanded(u)
    BY <2>1 DEF BrowserInv, GivenInv, AnswersInv
  <2>3. u = v
    BY <2>2, SuccessFacts
  <2>4. QED
    BY <1>2, <2>2, <2>3 DEF WasHanded
<1>9. AnswersInv'
  <2> SUFFICES ASSUME NEW i, NEW r, Gave(i, r)', r.code = "ok"
               PROVE  \E u : r = Success({u}) /\ FollowsOutput(i, u)' /\ WasHanded(u)'
    BY DEF AnswersInv
  <2>1. CASE Gave(i, r)
    BY <1>3, <1>6, <2>1 DEF BrowserInv, GivenInv, AnswersInv
  <2>2. CASE i = p /\ r = result
    <3>1. WasHanded(v)'
      BY <1>2 DEF WasHanded
    <3>2. FollowsOutput(p, v)'
      BY <1>2, <1>4 DEF FollowsOutput, OutputOf
    <3>3. QED
      BY <1>3, <2>2, <3>1, <3>2
  <2>3. QED
    BY <1>4, <2>1, <2>2
<1>10. DistinctInv'
  BY <1>7, <1>8 DEF BrowserInv, GivenInv, DistinctInv
<1>11. StoredInv'
  <2> SUFFICES ASSUME NEW h \in handed', h.entry.bytes \in Snapshots
               PROVE  \E i, u : Answers(i, u)' /\ u = [reload |-> h.reload, desc |-> h.entry.desc]
    BY DEF StoredInv
  <2>1. CASE h \in handed
    BY <1>5, <2>1 DEF BrowserInv, GivenInv, StoredInv
  <2>2. CASE h = n
    BY <1>2, <1>5, <2>2
  <2>3. QED
    BY <1>2, <2>1, <2>2
<1>12. QED
  BY <1>1, <1>2, <1>9, <1>10, <1>11 DEF GivenInv

LEMMA CommitPageKeeps ==
    ASSUME BrowserInv, NEW w \in Workers, CommitPage(w)
    PROVE  BrowserInv'
<1> DEFINE e == Request(w).output.entry
<1>1. Busy(w) /\ fetch.page \in Snapshots
  BY DEF CommitPage, At, BrowserInv, FetchInv
<1>2. PICK p : p = Position(w) /\ p \in DOMAIN issued /\ e = OutputOf(p)
  BY <1>1, BusyFacts DEF BrowserInv, Request, Current, OutputOf
<1>3. e \in Mem!Entry
  BY <1>2, OutputFacts
<1>4. /\ Mem!Commit(Runner, e, e.desc.version, e.desc.version, fetch.page) /\ HandOut
      /\ FinishEntry(w, IF reply'.status = "ok"
                          THEN Success({[reload |-> reloads, desc |-> reply'.got.desc]})
                          ELSE SnapshotFailed)
      /\ fetch' = NoFetch
  BY DEF CommitPage, PlanOutput, Finish
<1> HIDE DEF e
<1>5. /\ ProviderInv' /\ UNCHANGED <<nextSlot, reloads>>
      /\ \/ reply'.status = "ok" /\ CommitStoresNew(e, fetch.page)
         \/ reply'.status # "ok" /\ UNCHANGED <<resources, published>>
  BY <1>1, <1>3, <1>4, CommitFacts DEF BrowserInv, Stored
<1>6. RuntimeInv' /\ UNCHANGED issued
  BY <1>1, <1>4, FinishEntryInv DEF BrowserInv
<1>7. GivenInv' /\ HandedInv' /\ handed \subseteq handed'
  <2>1. CASE reply'.status = "ok"
    <3>1. FinishEntry(w, Success({[reload |-> reloads, desc |-> reply'.got.desc]}))
      BY <1>4, <2>1
    <3>2. CommitStoresNew(OutputOf(p), fetch.page)
      BY <1>2, <1>5, <2>1
    <3>3. QED
      BY <1>1, <1>2, <1>4, <1>5, <3>1, <3>2, CommitSucceeds
  <2>2. CASE reply'.status # "ok"
    <3>1. FinishEntry(w, SnapshotFailed)
      BY <1>4, <2>2
    <3>2. NoNews
      BY <1>1, <1>6, <3>1, FinishEntryInv, FinishEntryGives, SuccessFacts DEF BrowserInv, NoNews
    <3>3. HandedInv' /\ handed' = handed
      BY <1>4, <1>5, <2>2, HandedSame DEF BrowserInv
    <3>4. QED
      BY <3>2, <3>3, SameEntriesGiven
  <2>3. QED
    BY <2>1, <2>2
<1>8. OutputsInv' /\ FetchInv'
  BY <1>4, <1>6, <1>7, IdleFetch DEF BrowserInv, OutputsInv
<1>9. QED
  BY <1>5, <1>6, <1>7, <1>8 DEF BrowserInv

-----------------------------------------------------------------------------
(* The steps of the others. *)

(* The provider changes under the runner. What it hands out is no page. *)
LEMMA HostHandsOut ==
    ASSUME BrowserInv, HostStep
    PROVE  /\ ProviderInv' /\ HandedInv' /\ handed \subseteq handed'
           /\ \A h \in handed' : h \in handed \/ h.entry.bytes \notin Snapshots
<1>1. HandOut /\ ProviderInv /\ HandedInv /\ Text \notin Snapshots /\ Empty \notin Snapshots
  BY ContentsDiffer DEF HostStep, BrowserInv
<1>2. CASE Mem!Create(Host, "cow", Empty)
  <2>1. PICK s : /\ s \in DOMAIN resources' /\ s \notin DOMAIN resources
                 /\ DOMAIN resources' = DOMAIN resources \cup {s}
                 /\ \A t \in DOMAIN resources : resources'[t] = resources[t]
                 /\ resources'[s] \in Mem!Entry /\ resources'[s].desc.slot = s
                 /\ resources'[s].bytes = Empty
                 /\ published' = published \cup {resources'[s]}
    BY <1>1, <1>2, CreateFacts
  <2>2. /\ ProviderInv' /\ UNCHANGED reloads
    BY <1>1, <1>2, CreateFacts
  <2>3. /\ HandedInv'
        /\ \E n : /\ n = [reload |-> reloads, entry |-> resources'[s]]
                  /\ handed' = handed \cup {n}
    BY <1>1, <2>1, <2>2, HandedNew
  <2>4. QED
    BY <1>1, <2>1, <2>2, <2>3
<1>3. ASSUME NEW s \in DOMAIN resources,
             Mem!Commit(Host, resources[s], resources[s].desc.version, resources[s].desc.version, Text)
      PROVE  /\ ProviderInv' /\ HandedInv' /\ handed \subseteq handed'
             /\ \A h \in handed' : h \in handed \/ h.entry.bytes \notin Snapshots
  <2>1. PICK e \in Mem!Entry : e = resources[s]
    BY <1>1 DEF ProviderInv, EntriesOK
  <2>2. Mem!Commit(Host, e, e.desc.version, e.desc.version, Text) /\ Text \in Stored
    BY <1>3, <2>1 DEF Stored
  <2>3. /\ ProviderInv' /\ UNCHANGED <<nextSlot, reloads>>
        /\ CommitStoresNew(e, Text) \/ UNCHANGED <<resources, published>>
    BY <1>1, <2>1, <2>2, CommitFacts
  <2>4. CASE CommitStoresNew(e, Text)
    <3>1. /\ HandedInv'
          /\ \E n : handed' = handed \cup {n} /\ n.entry.bytes = Text
      BY <1>1, <2>3, <2>4, HandedCommitted
    <3>2. QED
      BY <1>1, <2>3, <3>1
  <2>5. CASE UNCHANGED <<resources, published>>
    BY <1>1, <2>3, <2>5, HandedSame
  <2>6. QED
    BY <2>3, <2>4, <2>5
<1>4. CASE Mem!Reload
  BY <1>1, <1>4, ReloadFacts, HandedReloaded
<1>5. QED
  BY <1>2, <1>3, <1>4 DEF HostStep

LEMMA HostKeeps ==
    ASSUME BrowserInv, HostStep
    PROVE  BrowserInv'
<1>1. UNCHANGED runtimeVars /\ UNCHANGED <<issued, batch, fetch>>
  BY DEF HostStep, runtimeVars, browserVars
<1>2. /\ ProviderInv' /\ HandedInv' /\ handed \subseteq handed'
      /\ \A h \in handed' : h \in handed \/ h.entry.bytes \notin Snapshots
  BY HostHandsOut
<1>3. RuntimeInv' /\ OutputsInv' /\ FetchInv'
  BY <1>1, <1>2, RuntimeUnchanged DEF BrowserInv, OutputsInv, FetchInv, Busy
<1>4. \A i, r : Gave(i, r)' <=> Gave(i, r)
  BY <1>1, RuntimeUnchanged, UnchangedGivenStays DEF BrowserInv
<1>5. AnswersInv'
  <2>1. \A i, v : FollowsOutput(i, v) => FollowsOutput(i, v)'
    BY <1>1 DEF FollowsOutput, OutputOf
  <2>2. \A v : WasHanded(v) => WasHanded(v)'
    BY <1>2 DEF WasHanded
  <2>3. QED
    BY <1>4, <2>1, <2>2 DEF BrowserInv, GivenInv, AnswersInv
<1>6. DistinctInv' /\ StoredInv'
  <2>1. \A i, v : Answers(i, v)' <=> Answers(i, v)
    BY <1>4 DEF Answers
  <2>2. QED
    BY <1>2, <2>1 DEF BrowserInv, GivenInv, DistinctInv, StoredInv
<1>7. QED
  BY <1>2, <1>3, <1>5, <1>6 DEF BrowserInv, GivenInv

LEMMA SubmitKeeps ==
    ASSUME BrowserInv, Submit
    PROVE  BrowserInv'
<1>1. PICK r \in Requests, h \in handed :
        SubmitEffect(NextTask("snapshot", [r EXCEPT !.output = h]))
  BY DEF Submit
<1> DEFINE payload == [r EXCEPT !.output = h]
           task == NextTask("snapshot", payload)
<1>2. task.payload.output = h
  BY RequestsNameOutputs DEF NextTask, Task
<1> HIDE DEF payload, task
<1>3. /\ RuntimeInv' /\ UNCHANGED batch
      /\ \A i, x : Gave(i, x)' => Gave(i, x)
      /\ \A i \in DOMAIN issued : issued'[i] = issued[i]
      /\ \A i \in DOMAIN issued' : i \in DOMAIN issued \/ issued'[i] = task
  BY <1>1, SubmitEffectInv, SubmittedTask DEF BrowserInv, payload, task
<1>4. NoNews
  BY <1>1, <1>3, SubmitGivenStays DEF BrowserInv, NoNews
<1>5. UNCHANGED memoryVars /\ FetchInv'
  BY <1>3 DEF Submit, BrowserInv, FetchInv, browserVars, Busy
<1>6. OutputsInv'
  BY <1>2, <1>3, <1>5 DEF BrowserInv, OutputsInv, memoryVars
<1>7. GivenInv' /\ ProviderInv' /\ HandedInv'
  BY <1>4, <1>5, SameEntriesGiven, QuietProvider, QuietHanded DEF memoryVars, BrowserInv
<1>8. QED
  BY <1>3, <1>5, <1>6, <1>7 DEF BrowserInv

LEMMA DispatchKeeps ==
    ASSUME BrowserInv, BrowserDispatch
    PROVE  BrowserInv'
<1>1. PICK w, n : w \in Workers /\ Dispatch(w, n, 1) /\ UNCHANGED <<memoryVars, browserVars>>
  BY DEF BrowserDispatch
<1>2. /\ RuntimeInv' /\ UNCHANGED issued /\ \A v \in Workers : batch[v] = NoBatch
      /\ \A i, r : Gave(i, r)' => Gave(i, r)
  BY <1>1, DispatchInv DEF BrowserInv
<1>3. NoNews
  BY <1>1, <1>2, DispatchGivenStays DEF BrowserInv, NoNews
<1>4. fetch' = NoFetch
  BY <1>1, <1>2 DEF BrowserInv, FetchInv, Busy, browserVars
<1>5. QED
  BY <1>1, <1>2, <1>3, <1>4, IdleFetch, QuietKeeps

LEMMA AnswerKeeps ==
    ASSUME BrowserInv, NEW w \in Workers, BrowserAnswer(w)
    PROVE  BrowserInv'
<1>1. Answer(w) /\ UNCHANGED <<memoryVars, browserVars>>
  BY DEF BrowserAnswer
<1>2. RuntimeInv' /\ UNCHANGED issued /\ \A i, r : Gave(i, r)' => Gave(i, r)
  BY <1>1, AnswerInv DEF BrowserInv
<1>3. NoNews
  BY <1>1, <1>2, AnswerGivenStays DEF BrowserInv, NoNews
<1>4. fetch' = NoFetch
  <2>1. \A v \in Workers : ~Busy(v)
    BY <1>1, BusyFacts DEF BrowserInv, Answer
  <2>2. QED
    BY <1>1, <2>1 DEF BrowserInv, FetchInv, browserVars
<1>5. QED
  BY <1>1, <1>2, <1>3, <1>4, IdleFetch, QuietKeeps

(* A batch that is cancelled is answered without any of its entries being run. *)
LEMMA CancelKeeps ==
    ASSUME BrowserInv, NEW w \in Workers, CancelBatch(w)
    PROVE  BrowserInv'
<1> DEFINE old == batch[w]
           new == Batch(old.first, old.last, Cancelled(w))
<1>1. /\ old # NoBatch /\ BatchOK(old) /\ old.last = taken /\ old.results = <<>>
      /\ \A v \in Workers : batch[v] # NoBatch => v = w
  BY BusyFacts DEF BrowserInv, CancelBatch
<1>2. /\ batch' = [batch EXCEPT ![w] = new]
      /\ UNCHANGED <<submitted, issued, taken, outcome, crashes, memoryVars, browserVars>>
      /\ fetch' = NoFetch
  BY DEF CancelBatch, browserVars
<1>3. PICK n \in Nat : n = old.last + 1 - old.first
  BY <1>1 DEF BatchOK
<1>4. /\ IsSeq(Cancelled(w)) /\ Len(Cancelled(w)) = n
      /\ \A k \in 1 .. n : Cancelled(w)[k] = Failure("task_cancelled")
  <2>1. Cancelled(w) = [k \in 1 .. n |-> Failure("task_cancelled")]
    BY <1>3 DEF Cancelled
  <2> DEFINE f == [k \in 1 .. n |-> Failure("task_cancelled")]
  <2>2. DOMAIN f = 1 .. n /\ f = [k \in 1 .. n |-> f[k]] /\ \A k \in 1 .. n : f[k] = Failure("task_cancelled")
    OBVIOUS
  <2>3. Cancelled(w) = f
    BY <2>1
  <2> HIDE DEF f
  <2>4. QED
    BY <2>2, <2>3, IsSeqFunction
<1>5. new.first = old.first /\ new.last = old.last /\ new.results = Cancelled(w)
  BY DEF Batch
<1>6. BatchOK(new) /\ new # NoBatch
  <2>1. new = Batch(new.first, new.last, new.results) /\ new.first # NoBatch.first
    BY <1>1, <1>5 DEF BatchOK, Batch, NoBatch
  <2>2. BatchOK(new)
    <3> HIDE DEF new
    <3>1. QED
      BY <1>1, <1>3, <1>4, <1>5, <2>1 DEF BatchOK, BatchLength
  <2>3. QED
    BY <2>1, <2>2
<1> HIDE DEF new
<1>7. batch'[w] = new /\ \A v \in Workers : v # w => batch'[v] = NoBatch
  BY <1>1, <1>2 DEF BrowserInv, RuntimeInv, BatchInv
<1>8. RuntimeInv'
  <2>1. CountersInv' /\ QueueInv'
    BY <1>2 DEF BrowserInv, RuntimeInv, CountersInv, QueueInv
  <2>2. batch' = [v \in Workers |-> batch'[v]]
    BY <1>2 DEF BrowserInv, RuntimeInv, BatchInv
  <2>3. BatchInv' /\ OneBatch'
    BY <1>1, <1>2, <1>5, <1>6, <1>7, <2>2 DEF BatchInv, OneBatch
  <2>4. UnansweredInv'
    <3> SUFFICES ASSUME NEW i \in DOMAIN outcome, Unanswered(i)' PROVE Unanswered(i)
      BY <1>2 DEF BrowserInv, RuntimeInv, UnansweredInv
    <3>1. QED
      BY <1>1, <1>2, <1>5, <1>7 DEF Unanswered
  <2>5. QED
    BY <2>1, <2>3, <2>4 DEF RuntimeInv
<1>9. NoNews
  <2>1. ASSUME NEW i, NEW r, Gave(i, r)', r.code = "ok" PROVE Gave(i, r)
    <3>1. CASE i \in DOMAIN outcome' /\ outcome'[i] = r /\ r # NoResult
      BY <1>2, <3>1 DEF Gave
    <3>2. ASSUME NEW v \in Workers, NEW k \in Nat, batch'[v] # NoBatch,
                 k \in 1 .. Len(batch'[v].results), r = batch'[v].results[k]
          PROVE  FALSE
      <4>1. r = Failure("task_cancelled")
        BY <1>4, <1>5, <1>7, <3>2
      <4>2. QED
        BY <2>1, <4>1 DEF Failure
    <3>3. QED
      BY <2>1, <3>1, <3>2 DEF Gave
  <2>2. ASSUME NEW i, NEW r, Gave(i, r) PROVE Gave(i, r)'
    <3>1. ASSUME NEW v \in Workers, NEW k \in Nat, batch[v] # NoBatch,
                 k \in 1 .. Len(batch[v].results)
          PROVE  FALSE
      BY <1>1, <3>1, IsSeqShort
    <3>2. i \in DOMAIN outcome /\ outcome[i] = r /\ r # NoResult
      BY <2>2, <3>1 DEF Gave
    <3>3. QED
      BY <1>2, <3>2 DEF Gave
  <2>3. QED
    BY <1>2, <2>1, <2>2 DEF NoNews
<1>10. QED
  BY <1>2, <1>8, <1>9, IdleFetch, QuietKeeps

LEMMA BrowserInvNext == BrowserInv /\ [Next]_vars => BrowserInv'
<1> SUFFICES ASSUME BrowserInv, [Next]_vars PROVE BrowserInv'
  OBVIOUS
<1>1. CASE Submit
  BY <1>1, SubmitKeeps
<1>2. CASE HostStep
  BY <1>2, HostKeeps
<1>3. CASE BrowserDispatch
  BY <1>3, DispatchKeeps
<1>4. ASSUME UNCHANGED <<runtimeVars, memoryVars, fetch>> PROVE BrowserInv'
  <2>1. RuntimeInv' /\ NoNews /\ UNCHANGED <<issued, batch>>
    BY <1>4, RuntimeUnchanged, NoNewsWhenIdle DEF BrowserInv, runtimeVars
  <2>2. FetchInv'
    BY <1>4, <2>1 DEF BrowserInv, FetchInv, Busy
  <2>3. QED
    BY <1>4, <2>1, <2>2, QuietKeeps
<1>5. CASE BrowserGoes \/ Dispose
  BY <1>4, <1>5 DEF BrowserGoes, Dispose
<1>6. ASSUME NEW w \in Workers, RunTask(w) PROVE BrowserInv'
  BY <1>6, FetchStepKeeps, CommitPageKeeps DEF RunTask
<1>7. ASSUME NEW w \in Workers, CancelBatch(w) \/ BrowserAnswer(w) PROVE BrowserInv'
  BY <1>7, CancelKeeps, AnswerKeeps
<1>8. CASE UNCHANGED vars
  BY <1>4, <1>8 DEF vars, browserVars
<1>9. QED
  BY <1>1, <1>2, <1>3, <1>5, <1>6, <1>7, <1>8 DEF Next

LEMMA BrowserInvHolds == Spec => []BrowserInv
  BY BrowserInvInit, BrowserInvNext, PTL DEF Spec

LEMMA BrowserUp == Spec => [](browser \in {"up", "gone"})
<1>1. browser \in {"up", "gone"} /\ [Next]_vars => (browser \in {"up", "gone"})'
  BY DEF Next, Submit, HostStep, BrowserDispatch, BrowserGoes, Dispose, RunTask, Refuse, OpenTab,
     Navigate, WaitForSelector, ReadUrl, ReadTitle, ReadContent, FetchFails, CloseTab, CheckFails,
     CommitPage, CancelBatch,
     BrowserAnswer, Finish, Continue, browserVars, vars
<1>2. Init => browser \in {"up", "gone"}
  BY DEF Init
<1>3. QED
  BY <1>1, <1>2, PTL DEF Spec

(* Every variable keeps its type: the runtime's, the provider's and the browser's
   (the state run_batch and the backend keep, lib.rs:132). *)
THEOREM BrowserTypes == Spec => []TypeOK
<1>1. BrowserInv /\ browser \in {"up", "gone"} => TypeOK
  <2> SUFFICES ASSUME BrowserInv, browser \in {"up", "gone"} PROVE TypeOK
    OBVIOUS
  <2>1. RuntimeTypeOK
    BY RuntimeTypes DEF BrowserInv
  <2>2. Mem!TypeOK
    <3>1. DOMAIN resources \subseteq Mem!Slots
      BY DEF BrowserInv, ProviderInv, EntriesOK, Mem!Slots
    <3>2. resources \in [DOMAIN resources -> Mem!Entry]
      BY DEF BrowserInv, ProviderInv, EntriesOK
    <3>3. call \in [{Host, Runner} -> Mem!Call]
      BY DEF BrowserInv, ProviderInv, Mem!Call
    <3>4. QED
      BY <3>1, <3>2, <3>3 DEF BrowserInv, ProviderInv, Mem!TypeOK
  <2>3. \A h \in handed : h.reload \in 0 .. reloads /\ h.entry \in published
    BY ProviderAssumption DEF BrowserInv, HandedInv, ProviderInv
  <2>4. QED
    BY <2>1, <2>2, <2>3 DEF BrowserInv, FetchInv, TypeOK
<1>2. QED
  BY <1>1, BrowserInvHolds, BrowserUp, PTL

LEMMA CompletedGave ==
    ASSUME RuntimeInv, NEW i \in Completed
    PROVE  i \in DOMAIN issued /\ Gave(i, Result(i)) /\ Result(i).code = "ok"
  BY ResultWasGiven DEF Completed

(* In one load of the provider a slot and a version name one entry. *)
LEMMA HandedOnce ==
    ASSUME HandedInv, NEW h \in handed
    PROVE  HandedAs(h.reload, h.entry.desc.slot, h.entry.desc.version) = {h.entry}
<1> DEFINE S == {g \in handed : /\ g.reload = h.reload
                                /\ g.entry.desc.slot = h.entry.desc.slot
                                /\ g.entry.desc.version = h.entry.desc.version}
<1>1. \A g \in S : g = h
  BY DEF HandedInv, SameName
<1>2. S = {h}
  BY <1>1
<1>3. {g.entry : g \in S} = {h.entry}
  BY <1>2
<1>4. QED
  BY <1>3 DEF HandedAs

(* A page that completes became the next version of the resource its task named
   and no other commit did; what it replaced is the entry the task named, when the
   provider is still the one that handed it out; and no two tasks are told that
   they stored the same version (write_plan, lib.rs:357). *)
THEOREM NoUpdateIsLost == Spec => []NoLostUpdate
<1>1. BrowserInv => NoLostUpdate
  <2> SUFFICES ASSUME BrowserInv, NEW i \in Completed,
                      NEW named, named = issued[i].payload.output
               PROVE  /\ \A r \in Result(i).value :
                           /\ \E page \in Snapshots :
                                HandedAs(r.reload, named.entry.desc.slot, named.entry.desc.version + 1)
                                  = {[desc |-> r.desc, bytes |-> page]}
                           /\ r.reload = named.reload =>
                                HandedAs(r.reload, named.entry.desc.slot, named.entry.desc.version)
                                  = {named.entry}
                      /\ \A j \in Completed : i # j => Result(i).value # Result(j).value
    BY DEF NoLostUpdate
  <2>1. ASSUME NEW j \in Completed
        PROVE  \E v : /\ Result(j) = Success({v}) /\ FollowsOutput(j, v) /\ Answers(j, v)
                      /\ WasHanded(v) /\ j \in DOMAIN issued
    <3>1. PICK r : r = Result(j) /\ Gave(j, r) /\ r.code = "ok" /\ j \in DOMAIN issued
      BY <2>1, CompletedGave DEF BrowserInv
    <3>2. PICK v : r = Success({v}) /\ FollowsOutput(j, v) /\ WasHanded(v)
      BY <3>1 DEF BrowserInv, GivenInv, AnswersInv
    <3>3. QED
      BY <3>1, <3>2 DEF Answers
  <2>2. PICK v : /\ Result(i) = Success({v}) /\ FollowsOutput(i, v) /\ Answers(i, v)
                 /\ WasHanded(v) /\ i \in DOMAIN issued
    BY <2>1
  <2>3. ASSUME NEW j \in Completed, Result(i).value = Result(j).value PROVE i = j
    <3>1. PICK u : Result(j) = Success({u}) /\ Answers(j, u)
      BY <2>1
    <3>2. {u} = {v}
      BY <2>2, <2>3, <3>1, SuccessFacts
    <3>3. u = v
      BY <3>2
    <3>4. QED
      BY <2>2, <3>1, <3>3 DEF BrowserInv, GivenInv, DistinctInv
  <2>4. \A r \in Result(i).value : r = v
    <3>1. Success({v}).value = {v}
      BY SuccessFacts
    <3>2. Result(i).value = {v}
      BY <2>2, <3>1
    <3>3. QED
      BY <3>2
  <2>5. PICK h \in handed :
          h.reload = v.reload /\ h.entry.desc = v.desc /\ h.entry.bytes \in Snapshots
    BY <2>2 DEF WasHanded
  <2>6. h.entry = [desc |-> v.desc, bytes |-> h.entry.bytes]
    <3>1. h.entry \in Mem!Entry
      BY DEF BrowserInv, HandedInv, ProviderInv
    <3>2. QED
      BY <2>5, <3>1 DEF Mem!Entry
  <2>7. HandedAs(h.reload, h.entry.desc.slot, h.entry.desc.version) = {h.entry}
    BY HandedOnce DEF BrowserInv
  <2>8. /\ h.reload = v.reload /\ h.entry.desc.slot = named.entry.desc.slot
        /\ h.entry.desc.version = named.entry.desc.version + 1
    BY <2>2, <2>5 DEF FollowsOutput, OutputOf
  <2>9. HandedAs(v.reload, named.entry.desc.slot, named.entry.desc.version + 1)
          = {[desc |-> v.desc, bytes |-> h.entry.bytes]}
    BY <2>6, <2>7, <2>8
  <2>10. v.reload = named.reload =>
           HandedAs(v.reload, named.entry.desc.slot, named.entry.desc.version) = {named.entry}
    <3>1. named \in handed
      BY <2>2 DEF BrowserInv, OutputsInv
    <3>2. QED
      BY <3>1, HandedOnce DEF BrowserInv
  <2>11. QED
    BY <2>3, <2>4, <2>5, <2>9, <2>10
<1>2. QED
  BY <1>1, BrowserInvHolds, PTL

(* Every page that was ever stored is the answer of a task that completed: an
   error is never the answer of a task that stored its page (run_task,
   lib.rs:187). *)
THEOREM StoredPagesAreAnswered == Spec => []PagesAreAnswered
<1>1. BrowserInv => PagesAreAnswered
  <2> SUFFICES ASSUME BrowserInv, NEW h \in handed, h.entry.bytes \in Snapshots
               PROVE  \E i \in Completed :
                        [reload |-> h.reload, desc |-> h.entry.desc] \in Result(i).value
    BY DEF PagesAreAnswered
  <2>1. PICK i, v : Answers(i, v) /\ v = [reload |-> h.reload, desc |-> h.entry.desc]
    BY DEF BrowserInv, GivenInv, StoredInv
  <2>2. i \in DOMAIN issued /\ Result(i) = Success({v})
    BY <2>1, SuccessFacts, GaveIsResult DEF BrowserInv, Answers
  <2>3. i \in Completed /\ v \in Result(i).value
    BY <2>2, SuccessFacts DEF Completed
  <2>4. QED
    BY <2>1, <2>3
<1>2. QED
  BY <1>1, BrowserInvHolds, PTL
=============================================================================
