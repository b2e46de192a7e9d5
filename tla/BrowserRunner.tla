---------------------------- MODULE BrowserRunner ----------------------------
(* The Chromium snapshot runner (plugins/mutsuki-plugin-io-browser-chromium):
   it opens a tab, loads the page a task names, closes the tab, checks what it
   got, and commits the page to the task's output resource, which the in-memory
   provider keeps (module MemoryProvider). Other callers commit to the output
   and the runtime reloads the provider while a page is being loaded. Chromium
   is not this program's: it may refuse, hang until a timeout, or go away.

   A URL is [scheme, host], a host the sequence of its labels, and a page what
   a tab shows at one moment: [url, html]. The runner reads the two in separate
   calls, and the tab may have moved on in between. *)
EXTENDS EffectRuntime, SequencesExt

CONSTANTS
    Config,       \* ChromiumConfig
    Requests,     \* what tasks ask for, without their output
    Pages,        \* what a tab may show
    Text,         \* what other callers commit
    Empty,
    Size,         \* lengths in bytes
    MaxSlot, MaxVersion, MaxReloads   \* bounds of MemoryProvider

VARIABLES
    nextSlot, resources, call, reply, published, reloads,   \* the provider
    handed,       \* history: the entries handed out, each with the reload it is of
    browser,      \* Chromium behind the backend: "up", or "gone"
    tabs,         \* the tabs Chromium has open
    kept,         \* history: those it did not close when told to
    fetch         \* what the runner is doing for its entry
memoryVars == <<nextSlot, resources, call, reply, published, reloads, handed>>
browserVars == <<browser, tabs, kept, fetch>>
vars == <<runtimeVars, memoryVars, browserVars>>

(* BrowserSnapshot, as far as a check looks at it: the URL of one page and the
   content of another, or of the same. *)
Snapshot(url, html) == [url |-> url, html |-> html]
Snapshots == {Snapshot(p.url, q.html) : p, q \in Pages}

Host == "host"
Runner == "runner"
Mem == INSTANCE MemoryProvider WITH
         Clients <- {Host, Runner}, UsesOf <- [c \in {Host, Runner} |-> {"create", "commit"}],
         Contents <- Snapshots \cup {Empty, Text}, Utf8 <- Snapshots \cup {Empty, Text},
         MaxCommands <- 0

(* What other callers store is told from a snapshot. *)
ASSUME ContentsDiffer == Empty \notin Snapshots /\ Text \notin Snapshots
ASSUME ProviderAssumption ==
    /\ Size \in [Snapshots \cup {Empty, Text} -> Nat]
    /\ {MaxSlot, MaxReloads} \subseteq Nat /\ MaxVersion \in Nat \ {0}
(* A request without its output_resource does not decode. *)
ASSUME RequestsNameOutputs == \A r \in Requests : "output" \in DOMAIN r

-----------------------------------------------------------------------------
(* The checks. *)

(* normalize_domain, of a name that has only letters, digits, "." and "-". *)
NormalizeDomain(domain) ==
    IF domain = None \/ \A i \in DOMAIN domain : domain[i] = "" THEN None
    ELSE LET first == CHOOSE i \in DOMAIN domain :
                        domain[i] # "" /\ \A j \in 1 .. i - 1 : domain[j] = ""
         IN  SubSeq(domain, first, Len(domain))

UrlAllowed(url) ==
    /\ url # None /\ url.scheme = "https" /\ url.host # None
    /\ \E domain \in Config.allowlist :
         NormalizeDomain(domain) # None /\ IsSuffix(NormalizeDomain(domain), url.host)

(* ChromiumConfig::validate: no runner is launched without it. *)
ASSUME ConfigIsValid ==
    /\ Config.allowlist # {} /\ \A d \in Config.allowlist : NormalizeDomain(d) # None
    /\ Config.timeout > 0 /\ Config.maxDomBytes > 0

RequestValid(request) ==
    /\ request.timeout \in 1 .. Config.timeout
    /\ request.schema = "snapshot"
    /\ request.wait = "selector" => request.selector \notin {None, ""}
    /\ UrlAllowed(request.url)

RedirectUnchecked(page) == TRUE   \* mutant
RedirectAllowed(page) == UrlAllowed(page.url)

-----------------------------------------------------------------------------
(* `page` is what was read so far, None before and after an error. *)
Fetch(step, page) == [step |-> step, page |-> page]
NoFetch == Fetch("none", None)

Init ==
    /\ RuntimeInit
    /\ Mem!Init
    /\ browser = "up"
    /\ tabs = 0
    /\ kept = 0
    /\ fetch = NoFetch
    /\ handed = {}

At(w, step) == Busy(w) /\ fetch.step = step
Request(w) == Current(w).payload
Finish(w, result) ==
    /\ FinishEntry(w, result)
    /\ fetch' = NoFetch
    /\ UNCHANGED <<browser, tabs, kept>>
Continue(next) ==
    /\ fetch' = next
    /\ UNCHANGED <<runtimeVars, memoryVars, browser, tabs, kept>>

SnapshotFailed == Failure("snapshot_failed")   \* browser_error: one code for all

Refuse(w) ==
    /\ At(w, "none") /\ ~RequestValid(Request(w))
    /\ Finish(w, SnapshotFailed) /\ UNCHANGED memoryVars

(* new_tab, on a browser that is there. *)
OpenTab(w) ==
    /\ At(w, "none") /\ RequestValid(Request(w))
    /\ \/ Finish(w, SnapshotFailed) /\ UNCHANGED memoryVars
       \/ /\ browser = "up"
          /\ tabs' = tabs + 1
          /\ fetch' = Fetch("navigate", None)
          /\ UNCHANGED <<runtimeVars, memoryVars, browser, kept>>

(* navigate_to, wait_until_navigated, and the selector. Where redirects and
   scripts lead is seen when the page is read. *)
Navigate(w) ==
    /\ At(w, "navigate") /\ browser = "up"
    /\ Continue(Fetch(IF Request(w).wait = "selector" THEN "wait" ELSE "url", None))

WaitForSelector(w) ==
    /\ At(w, "wait") /\ browser = "up"
    /\ Continue(Fetch("url", None))

(* What the tab shows is read in three calls, at each of which it may show
   another page: get_url, which asks nobody and cannot fail, get_title, of which
   nothing is kept here, and get_content. *)
ReadUrl(w) ==
    /\ At(w, "url")
    /\ \E shown \in Pages : Continue(Fetch("title", Snapshot(shown.url, None)))
ReadTitle(w) ==
    /\ At(w, "title") /\ browser = "up"
    /\ Continue(Fetch("content", fetch.page))
ReadContent(w) ==
    /\ At(w, "content") /\ browser = "up"
    /\ \E shown \in Pages : Continue(Fetch("close", Snapshot(fetch.page.url, shown.html)))

(* Mutants: the error leaves through "?", past the close; a call on a browser that
   is gone waits for it. *)
Calls == {"navigate", "wait", "title", "content"}
FetchFailsUnclosed(w) ==
    /\ Busy(w) /\ fetch.step \in Calls
    /\ Finish(w, SnapshotFailed) /\ UNCHANGED memoryVars
FetchWaits(w) ==
    /\ Busy(w) /\ fetch.step \in Calls /\ browser = "up"
    /\ Continue(Fetch("close", None))

(* Each call but get_url may fail, for a reason of its own or at its timeout; the
   tab is still closed. *)
FetchFails(w) ==
    /\ Busy(w) /\ fetch.step \in Calls
    /\ Continue(Fetch("close", None))

(* tab.close, whose outcome is not looked at. *)
CloseTab(w) ==
    /\ At(w, "close")
    /\ \/ browser = "up" /\ tabs' = tabs - 1 /\ UNCHANGED kept
       \/ browser = "up" /\ kept' = kept + 1 /\ UNCHANGED tabs
       \/ browser # "up" /\ UNCHANGED <<tabs, kept>>
    /\ IF fetch.page = None
         THEN FinishEntry(w, SnapshotFailed) /\ fetch' = NoFetch
         ELSE fetch' = Fetch("commit", fetch.page) /\ UNCHANGED runtimeVars
    /\ UNCHANGED <<memoryVars, browser>>

CheckFails(w) ==
    /\ At(w, "commit")
    /\ \/ ~RedirectAllowed(fetch.page) /\ Finish(w, SnapshotFailed)
       \/ /\ RedirectAllowed(fetch.page)
          /\ Size[fetch.page] > Config.maxDomBytes
          /\ Finish(w, SnapshotFailed)
    /\ UNCHANGED memoryVars

(* write_plan: the output's descriptor as the task brought it, and its version
   as the base. Mutant: the descriptor the provider has now. *)
PlanOutputNow(w) ==
    LET named == Request(w).output.entry
    IN  IF named.desc.slot \in DOMAIN resources THEN resources[named.desc.slot] ELSE named
PlanOutput(w) == Request(w).output.entry

(* What the provider keeps was handed out when it was entered. *)
HandOut ==
    handed' = handed \cup {[reload |-> reloads', entry |-> resources'[s]] : s \in DOMAIN resources'}

(* commit_write_plan, one call of the provider, and the task's result. *)
CommitUnchecked(w) ==   \* mutant: the size is looked at when the page is stored
    LET plan == PlanOutput(w)
        base == plan.desc.version
    IN  /\ At(w, "commit") /\ RedirectAllowed(fetch.page)
        /\ Mem!Commit(Runner, plan, base, base, fetch.page) /\ HandOut
        /\ Finish(w, IF reply'.status = "ok" /\ Size[fetch.page] =< Config.maxDomBytes
                       THEN Success({[reload |-> reloads, desc |-> reply'.got.desc]})
                       ELSE SnapshotFailed)
CommitPage(w) ==
    LET plan == PlanOutput(w)
        base == plan.desc.version
    IN  /\ At(w, "commit") /\ RedirectAllowed(fetch.page)
        /\ Size[fetch.page] =< Config.maxDomBytes
        /\ Mem!Commit(Runner, plan, base, base, fetch.page) /\ HandOut
        /\ Finish(w, IF reply'.status = "ok"
                       THEN Success({[reload |-> reloads, desc |-> reply'.got.desc]})
                       ELSE SnapshotFailed)

-----------------------------------------------------------------------------
(* run_batch looks for a cancel request once, before its entries; a request that
   comes later changes nothing, for the backend's cancel does nothing. *)
Cancelled(w) == [i \in 1 .. batch[w].last + 1 - batch[w].first |-> Failure("task_cancelled")]
CancelAnyTime(w) ==   \* mutant: a later request ends the batch as well
    /\ Busy(w)
    /\ batch' = [batch EXCEPT ![w] = Batch(batch[w].first, batch[w].last, Cancelled(w))]
    /\ UNCHANGED <<submitted, issued, taken, outcome, crashes, memoryVars, browserVars>>
CancelBatch(w) ==
    /\ Busy(w) /\ batch[w].results = <<>> /\ fetch = NoFetch
    /\ batch' = [batch EXCEPT ![w] = Batch(batch[w].first, batch[w].last, Cancelled(w))]
    /\ UNCHANGED <<submitted, issued, taken, outcome, crashes, memoryVars, browserVars>>

(* Chromium goes away, or closes the connection after idle_browser_timeout. It
   is not launched again. *)
BrowserGoes ==
    /\ browser = "up"
    /\ browser' = "gone"
    /\ tabs' = 0 /\ kept' = 0
    /\ UNCHANGED <<runtimeVars, memoryVars, fetch>>

(* The runtime disposes of the runner when it runs nothing; Chromium is closed
   with it. *)
Dispose ==
    /\ \A w \in Workers : batch[w] = NoBatch
    /\ browser = "up"
    /\ browser' = "gone"
    /\ tabs' = 0 /\ kept' = 0
    /\ UNCHANGED <<runtimeVars, memoryVars, fetch>>

Submit ==
    /\ \E r \in Requests, h \in handed :
         /\ h.entry.desc.version < MaxVersion
         /\ SubmitEffect(NextTask("snapshot", [r EXCEPT !.output = h]))
    /\ UNCHANGED <<memoryVars, browserVars>>

(* Other callers of the provider, which change it with what they just read of it
   (a stale plan of theirs changes nothing), and its reload. *)
HostStep ==
    /\ \/ Mem!Create(Host, "cow", Empty)
       \/ \E s \in DOMAIN resources :
            LET version == resources[s].desc.version
            IN  Mem!Commit(Host, resources[s], version, version, Text)
       \/ Mem!Reload
    /\ HandOut
    /\ UNCHANGED <<runtimeVars, browserVars>>

(* The runner is one object that a batch has to itself. *)
BrowserDispatch ==
    /\ \E w \in Workers, n \in 1 .. MaxBatch : Dispatch(w, n, 1)
    /\ UNCHANGED <<memoryVars, browserVars>>
BrowserAnswer(w) == Answer(w) /\ UNCHANGED <<memoryVars, browserVars>>

RunTask(w) ==
    \/ Refuse(w) \/ OpenTab(w) \/ Navigate(w) \/ WaitForSelector(w)
    \/ ReadUrl(w) \/ ReadTitle(w) \/ ReadContent(w) \/ FetchFails(w) \/ CloseTab(w) \/ CheckFails(w) \/ CommitPage(w)

Next ==
    \/ Submit \/ HostStep \/ BrowserDispatch \/ BrowserGoes \/ Dispose
    \/ \E w \in Workers : RunTask(w) \/ CancelBatch(w) \/ BrowserAnswer(w)

Spec == Init /\ [][Next]_vars

(* Every call of Chromium returns or times out, and the runner goes on. *)
Fairness ==
    /\ WF_vars(BrowserDispatch)
    /\ \A w \in Workers : WF_vars(RunTask(w)) /\ WF_vars(BrowserAnswer(w))
LiveSpec == Spec /\ Fairness

-----------------------------------------------------------------------------
(* Properties. *)

TypeOK ==
    /\ RuntimeTypeOK
    /\ Mem!TypeOK
    /\ browser \in {"up", "gone"}
    /\ fetch # NoFetch => \E w \in Workers : Busy(w)
    /\ fetch.step \in {"none", "navigate", "wait", "url", "title", "content", "close", "commit"}
    /\ fetch.step \in {"title", "content"} => \E p \in Pages : fetch.page = Snapshot(p.url, None)
    /\ fetch.step = "commit" => fetch.page \in Snapshots
    /\ \A h \in handed : h.reload \in 0 .. reloads /\ h.entry \in published

(* No tab is left open by a task, whichever way its snapshot failed, unless
   Chromium did not close it when told to (snapshot, lib.rs:94). *)
NoTabLeak ==
    tabs = kept + IF browser = "up" /\ fetch.step \in Calls \cup {"url", "close"} THEN 1 ELSE 0

(* Whatever is stored of a page names a URL of an allowed site and is within the
   limit, wherever redirects led, whatever the tab showed between the calls that
   read it and whoever else writes to the output (run_task, lib.rs:168). The
   content may be of a page the tab moved on to after its URL was read. *)
StoredPagesAllowed ==
    \A s \in DOMAIN resources :
      LET stored == resources[s].bytes
      IN  stored \in Snapshots => UrlAllowed(stored.url) /\ Size[stored] =< Config.maxDomBytes

(* The tasks that completed, answered or still in a batch. *)
Completed == {i \in DOMAIN issued : Result(i) # NoResult /\ Result(i).code = "ok"}

(* A page that completes became the next version of the resource its task named,
   and nobody else's commit became that version (write_plan, lib.rs:357). What
   it replaced is the very entry the task named, with its content, unless the
   provider was loaded again after that entry was handed out: then another
   resource may have its slot and version, and the code does not notice. *)
HandedAs(reload, slot, version) ==
    {h.entry : h \in {g \in handed : /\ g.reload = reload
                                     /\ g.entry.desc.slot = slot /\ g.entry.desc.version = version}}
NoLostUpdate ==
    \A i \in Completed :
      LET named == issued[i].payload.output
          slot == named.entry.desc.slot
          version == named.entry.desc.version
      IN  /\ \A r \in Result(i).value :
               /\ \E page \in Snapshots :
                    HandedAs(r.reload, slot, version + 1) = {[desc |-> r.desc, bytes |-> page]}
               /\ r.reload = named.reload => HandedAs(r.reload, slot, version) = {named.entry}
          /\ \A j \in Completed : i # j => Result(i).value # Result(j).value

(* A task that is answered with an error has stored nothing: every page that was
   ever stored is the result of a task that completed (run_task, lib.rs:187). *)
PagesAreAnswered ==
    \A h \in handed :
      h.entry.bytes \in Snapshots =>
        \E i \in Completed : [reload |-> h.reload, desc |-> h.entry.desc] \in Result(i).value
=============================================================================
