-------------------------- MODULE LanguageWorkers --------------------------
(***************************************************************************)
(* The worker thread of a language group and the leases on it: the client  *)
(* (src/src/intelligence/languages/shared/worker-client.ts and             *)
(* language-worker-client.ts), which bounds what is outstanding, retires   *)
(* the thread on a cancellation or a broken answer and holds new requests  *)
(* back meanwhile, and the dispatchers (lifecycle/dispatcher.ts), the last *)
(* of which closes the thread.  Timers and signals may fire at any time.   *)
(*                                                                         *)
(* The second part is where the process learns its languages from:         *)
(* LanguageRegistry of parser/registry.ts, registries that take grammars   *)
(* from native libraries until one of them parses, and the process's one   *)
(* registration of them.  It shares no state with the first: GrammarInit   *)
(* and GrammarNext stand beside Init and Next.                             *)
(***************************************************************************)
EXTENDS Naturals, FiniteSets, Sequences, FiniteSetsExt

CONSTANTS Dispatchers, Requests,
          Of,             \* the dispatcher each request goes through
          MaxPending,     \* maxPendingRequests
          MaxBytes,       \* maxOutstandingBytes
          Bytes,          \* the size of each source
          MaxFaults,      \* broken answers, exits and retirements that time out
          Registries,
          Pinned,         \* the grammars of the catalogue, part of every registration
          Calls,          \* calls of addDynamic and loadDynamicManifest
          OnRegistry,     \* of each call, the registry
          Entries,        \* of each call, a sequence of [id, asset, claimed], one of
                          \* addDynamic; claimed is the set of at most one fingerprint
          Assets          \* of each library, "good" or "bad"

VARIABLES worker,         \* the current thread, 0 when there is none
          threads,        \* the threads that have not ended
          termination,    \* "none", "running" or "failed": the pending retirement
          req,            \* the state of each request
          waits,          \* the requests admitted during a retirement
          pending,        \* the requests that count against the limits
          outstanding,    \* their bytes
          retiring,       \* those the retirement in progress gives back
          leases,         \* activeDispatcherLeases
          disp, ready,    \* the state of each dispatcher and of its lease
          shutdown,       \* how far the shutdown is that new leases wait for
          lost,           \* the leases that can never be given back
          workerFaults,
          grammars,       \* of each registry, the dynamic grammars by their language
          registered,     \* the registries that have parsed
          native,         \* registeredGrammarFingerprints: the sets registered, at most one
          call,           \* of each call, its step and the entries it has added
          refused         \* the registries whose parsing was refused

client == <<worker, threads, termination, req, waits, pending, outstanding, retiring>>
lease  == <<leases, disp, ready, shutdown, lost>>
vars   == <<client, lease, workerFaults>>

Unsettled == {"asked", "queued", "sent", "waiting"}
Settled(r) == req[r] \notin Unsettled

LanguageWorkersAssumption ==
    /\ Of \in [Requests -> Dispatchers] /\ Bytes \in [Requests -> Nat]
    /\ MaxPending \in Nat /\ MaxBytes \in Nat

TypeOK ==
    /\ termination \in {"none", "running", "failed"}
    /\ req \in [Requests -> {"new", "answered", "rejected", "closed"} \cup Unsettled]
    /\ pending \subseteq Requests /\ retiring \subseteq pending /\ waits \subseteq pending
    /\ disp \in [Dispatchers -> {"new", "open", "releasing", "closing", "closed"}]
    /\ ready \in [Dispatchers -> {"now", "waits", "failed"}]

Init ==
    /\ worker = 0 /\ threads = {} /\ termination = "none"
    /\ req = [r \in Requests |-> "new"] /\ waits = {} /\ pending = {} /\ outstanding = 0
    /\ retiring = {}
    /\ leases = 0 /\ disp = [d \in Dispatchers |-> "new"]
    /\ ready = [d \in Dispatchers |-> "now"] /\ shutdown = "none" /\ lost = 0
    /\ workerFaults = 0

Faulty == workerFaults < MaxFaults /\ workerFaults' = workerFaults + 1

-----------------------------------------------------------------------------
(* The client.                                                             *)

Finish(R) ==
    /\ pending' = pending \ R /\ waits' = waits \ R
    /\ outstanding' = outstanding - MapThenSumSet(LAMBDA r : Bytes[r], R \cap pending)
Rejected(R, why) ==
    req' = [r \in Requests |-> IF r \in R /\ ~Settled(r) THEN why ELSE req[r]]

(* Nothing outstanding survives a retirement: it is rejected at once and   *)
(* counts until the thread has ended.  A retirement under way is joined.   *)
Terminate(why) ==
    IF termination = "none"
    THEN /\ termination' = "running" /\ worker' = 0 /\ retiring' = pending
         /\ Rejected(pending, why)
         /\ UNCHANGED <<threads, waits, pending, outstanding>>
    ELSE UNCHANGED client

Fits(r) == /\ Cardinality(pending) < MaxPending
           /\ outstanding + Bytes[r] <= MaxBytes

Analyze(r) ==
    /\ req[r] = "asked" /\ ready[Of[r]] = "now"
    /\ IF termination = "failed" \/ ~Fits(r)
       THEN /\ req' = [req EXCEPT ![r] = "rejected"]
            /\ UNCHANGED <<waits, pending, outstanding>>
       ELSE /\ req' = [req EXCEPT ![r] = "queued"]
            /\ pending' = pending \cup {r} /\ outstanding' = outstanding + Bytes[r]
            /\ waits' = IF termination = "none" THEN waits ELSE waits \cup {r}
    /\ UNCHANGED <<worker, threads, termination, retiring, lease, workerFaults>>

Spawned == 1 + Cardinality(threads) + worker

(* The microtask that posts the request; posting may throw.                *)
Start(r) ==
    /\ req[r] = "queued" /\ r \notin retiring
    /\ \/ /\ termination = "none"
          /\ worker' = IF worker = 0 THEN Spawned ELSE worker
          /\ threads' = threads \cup {worker'}
          /\ req' = [req EXCEPT ![r] = "sent"] /\ waits' = waits \ {r}
          /\ UNCHANGED <<termination, pending, outstanding, retiring, workerFaults>>
       \/ /\ termination = "running"
          /\ req' = [req EXCEPT ![r] = "waiting"] /\ waits' = waits \cup {r}
          /\ UNCHANGED <<worker, threads, termination, pending, outstanding, retiring, workerFaults>>
       \/ /\ termination = "failed"
          /\ Finish({r}) /\ req' = [req EXCEPT ![r] = "rejected"]
          /\ UNCHANGED <<worker, threads, termination, retiring, workerFaults>>
       \/ termination = "none" /\ Faulty /\ Terminate("rejected")
    /\ UNCHANGED lease

Answer(r) ==
    /\ req[r] = "sent" /\ r \notin retiring
    /\ Finish({r}) /\ req' = [req EXCEPT ![r] = "answered"]
    /\ UNCHANGED <<worker, threads, termination, retiring, lease, workerFaults>>

(* An invalid answer, or an error of the thread.                           *)
Breaks == worker # 0 /\ Faulty /\ Terminate("rejected") /\ UNCHANGED lease

Exits ==
    /\ worker # 0 /\ Faulty
    /\ Finish(pending) /\ Rejected(pending, "rejected")
    /\ worker' = 0 /\ threads' = threads \ {worker}
    /\ UNCHANGED <<termination, retiring, lease>>

(* An abort or a timeout: a request that was held back only goes away, any *)
(* other takes the thread with it.                                         *)
HeldBack(r) == r \in waits

Cancel(r) ==
    /\ req[r] \in {"queued", "sent", "waiting"}
    /\ IF HeldBack(r)
       THEN /\ Finish({r}) /\ req' = [req EXCEPT ![r] = "rejected"]
            /\ UNCHANGED <<worker, threads, termination, retiring>>
       ELSE Terminate("rejected")
    /\ UNCHANGED <<lease, workerFaults>>

-----------------------------------------------------------------------------
(* The leases and the shutdown after the last of them.                     *)

Ends(outcome) ==
    /\ shutdown' = "none"
    /\ ready' = [d \in Dispatchers |-> IF ready[d] = "waits" THEN outcome ELSE ready[d]]
    /\ disp' = [d \in Dispatchers |-> IF disp[d] = "closing" THEN "closed" ELSE disp[d]]
    /\ UNCHANGED <<leases, lost>>

(* The thread has ended; what was held back may start.                     *)
Retired ==
    /\ termination # "none"
    /\ termination' = "none" /\ threads' = {} /\ retiring' = {}
    /\ Finish(retiring)
    /\ req' = [r \in Requests |-> IF req[r] = "waiting" THEN "queued" ELSE req[r]]
    /\ UNCHANGED <<worker, workerFaults>>
    /\ IF shutdown = "ending" THEN Ends("now")
       ELSE IF shutdown \in {"awaiting", "awaiting to close"}
       THEN /\ shutdown' = IF shutdown = "awaiting" THEN "drain" ELSE "close"
            /\ UNCHANGED <<leases, disp, ready, lost>>
       ELSE UNCHANGED lease

(* The retirement's deadline rejects whoever waits for it; the thread may  *)
(* still end later.                                                        *)
TimesOut ==
    /\ termination = "running" /\ Faulty
    /\ termination' = "failed"
    /\ LET R == {r \in Requests : req[r] = "waiting"} IN Finish(R) /\ Rejected(R, "rejected")
    /\ UNCHANGED <<worker, threads, retiring>>
    /\ IF shutdown \in {"awaiting", "awaiting to close", "ending"} THEN Ends("failed")
       ELSE UNCHANGED lease

(* Mutant: a new lease does not wait for the shutdown in progress.         *)
AcquireAtOnce(d) ==
    /\ disp[d] = "new"
    /\ disp' = [disp EXCEPT ![d] = "open"] /\ leases' = leases + 1
    /\ UNCHANGED <<client, ready, shutdown, lost, workerFaults>>

Acquire(d) ==
    /\ disp[d] = "new"
    /\ disp' = [disp EXCEPT ![d] = "open"] /\ leases' = leases + 1
    /\ ready' = [ready EXCEPT ![d] = IF shutdown = "none" THEN "now" ELSE "waits"]
    /\ UNCHANGED <<client, shutdown, lost, workerFaults>>

Ask(r) ==
    /\ req[r] = "new" /\ disp[Of[r]] = "open"
    /\ req' = [req EXCEPT ![r] = "asked"]
    /\ UNCHANGED <<worker, threads, termination, waits, pending, outstanding, retiring, lease,
                   workerFaults>>

LeaseFails(r) ==
    /\ req[r] = "asked" /\ ready[Of[r]] = "failed"
    /\ req' = [req EXCEPT ![r] = "rejected"]
    /\ UNCHANGED <<worker, threads, termination, waits, pending, outstanding, retiring, lease,
                   workerFaults>>

(* The runtime closes its dispatcher when its operations have settled.     *)
Quiet(d) == \A r \in Requests : Of[r] = d => Settled(r)

Close(d) ==
    /\ disp[d] = "open" /\ Quiet(d)
    /\ disp' = [disp EXCEPT ![d] = "releasing"]
    /\ UNCHANGED <<client, leases, ready, shutdown, lost, workerFaults>>

(* A lease whose shutdown failed is never given back.                      *)
Release(d) ==
    /\ disp[d] = "releasing" /\ ready[d] # "waits"
    /\ \/ /\ ready[d] = "failed"
          /\ disp' = [disp EXCEPT ![d] = "closed"] /\ lost' = lost + 1
          /\ UNCHANGED <<leases, shutdown>>
       \/ /\ ready[d] = "now" /\ leases > 1
          /\ leases' = leases - 1 /\ disp' = [disp EXCEPT ![d] = "closed"]
          /\ UNCHANGED <<shutdown, lost>>
       \/ /\ ready[d] = "now" /\ leases <= 1
          /\ leases' = 0 /\ disp' = [disp EXCEPT ![d] = "closing"]
          /\ shutdown' = "drain" /\ UNCHANGED lost
    /\ UNCHANGED <<client, ready, workerFaults>>

(* drain(): it follows a retirement, or waits until nothing is pending.    *)
Drain ==
    /\ shutdown \in {"drain", "draining"}
    /\ CASE shutdown = "drain" /\ termination = "running" ->
                shutdown' = "awaiting" /\ UNCHANGED <<leases, disp, ready, lost>>
         [] shutdown = "drain" /\ termination = "failed" -> Ends("failed")
         [] termination = "none" /\ pending = {} ->
                shutdown' = "close" /\ UNCHANGED <<leases, disp, ready, lost>>
         [] OTHER -> /\ shutdown = "drain" /\ shutdown' = "draining"
                     /\ UNCHANGED <<leases, disp, ready, lost>>
    /\ UNCHANGED <<client, workerFaults>>

CloseWorker ==
    /\ shutdown = "close"
    /\ CASE termination = "running" -> /\ shutdown' = "awaiting to close"
                                       /\ UNCHANGED <<client, leases, disp, ready, lost>>
         [] termination = "failed"  -> Ends("failed") /\ UNCHANGED client
         [] termination = "none"    -> /\ Terminate("closed") /\ shutdown' = "ending"
                                       /\ UNCHANGED <<leases, disp, ready, lost>>
    /\ UNCHANGED workerFaults

AllClosed == (\A d \in Dispatchers : disp[d] = "closed") /\ UNCHANGED vars

Next ==
    \/ \E r \in Requests : Ask(r) \/ LeaseFails(r) \/ Analyze(r) \/ Start(r) \/ Answer(r) \/ Cancel(r)
    \/ \E d \in Dispatchers : Acquire(d) \/ Close(d) \/ Release(d)
    \/ Breaks \/ Exits \/ Retired \/ TimesOut \/ Drain \/ CloseWorker \/ AllClosed

Spec == Init /\ [][Next]_vars

-----------------------------------------------------------------------------
(* No request is stranded: one that is not settled is about to be posted,  *)
(* is with the thread that is current, or waits for a retirement that will *)
(* give it back or reject it; and the limits count every source that is    *)
(* still held.                                                             *)
NobodyIsStranded ==
    /\ \A r \in Requests :
          /\ req[r] = "sent"    => worker # 0 /\ r \in pending \ retiring
          /\ req[r] = "waiting" => termination = "running" /\ r \in pending \ retiring
    /\ outstanding = MapThenSumSet(LAMBDA r : Bytes[r], pending)
    /\ outstanding <= MaxBytes /\ Cardinality(pending) <= MaxPending

(* A thread that may still run is never joined by a second one.            *)
OneThread == Cardinality(threads) <= 1 /\ (termination # "none" => worker = 0)

(* A shutdown never takes a request of a dispatcher that is still open,    *)
(* and when the last lease was given back no thread is left.               *)
LastLeaseCloses ==
    /\ \A r \in Requests : req[r] # "closed"
    /\ leases = 0 /\ shutdown = "none" /\ termination = "none" => threads = {}
    /\ leases = lost + Cardinality({d \in Dispatchers : disp[d] \in {"open", "releasing"}})

WorkersAreSound == NobodyIsStranded /\ OneThread /\ LastLeaseCloses

-----------------------------------------------------------------------------
(* The languages of the process.                                           *)

GrammarInit ==
        /\ grammars = [r \in Registries |-> {}]
        /\ registered = {} /\ native = {} /\ refused = {}
        /\ call = [c \in Calls |-> [step |-> "checks", done |-> 0]]

(* A fingerprint is of all a grammar is; its library's path stands for the    *)
(* library, which nobody replaces while the process runs.                     *)
Fingerprint(e) == <<e.id, e.asset>>

Entry(c) == Entries[c][call[c].done + 1]

Registration(r) == Pinned \cup grammars[r]

Ids(r) == {g[1] : g \in Registration(r)}

Closed(r) == r \in registered

(* The checks before the library is read.                                     *)
Checks(c) ==
    /\ call[c].step = "checks"
    /\ call' = [call EXCEPT ![c].step =
                   IF Closed(OnRegistry[c]) \/ Entry(c).id \in Ids(OnRegistry[c]) THEN "refused" ELSE "validate"]
    /\ UNCHANGED <<grammars, registered, native, refused>>

(* validateGrammarAsset.                                                      *)
Validate(c) ==
    /\ call[c].step = "validate"
    /\ call' = [call EXCEPT ![c].step = IF Assets[Entry(c).asset] = "good" THEN "add" ELSE "refused"]
    /\ UNCHANGED <<grammars, registered, native, refused>>

Added(c) == [call EXCEPT ![c] = [step |-> IF @.done + 1 = Len(Entries[c]) THEN "added" ELSE "checks",
                                 done |-> @.done + 1]]

(* Mutant: what was checked before the library was read is not looked at again.*)
AddUnchecked(c) ==
    /\ call[c].step = "add"
    /\ IF ~(Entry(c).claimed \subseteq {Fingerprint(Entry(c))}) \/ native # {}
       THEN call' = [call EXCEPT ![c].step = "refused"] /\ UNCHANGED grammars
       ELSE /\ grammars' = [grammars EXCEPT ![OnRegistry[c]] =
                               {g \in @ : g[1] # Entry(c).id} \cup {Fingerprint(Entry(c))}]
            /\ call' = Added(c)
    /\ UNCHANGED <<registered, native, refused>>

Add(c) ==
    /\ call[c].step = "add"
    /\ IF \/ Closed(OnRegistry[c]) \/ Entry(c).id \in Ids(OnRegistry[c])
          \/ ~(Entry(c).claimed \subseteq {Fingerprint(Entry(c))}) \/ native # {}
       THEN call' = [call EXCEPT ![c].step = "refused"] /\ UNCHANGED grammars
       ELSE /\ grammars' = [grammars EXCEPT ![OnRegistry[c]] = @ \cup {Fingerprint(Entry(c))}]
            /\ call' = Added(c)
    /\ UNCHANGED <<registered, native, refused>>

(* registerDynamicGrammars, at a registry's first parse: the process takes one*)
(* set; another registry may parse only with the same.                        *)
Register(r) ==
    /\ r \notin registered \cup refused
    /\ IF native \subseteq {Registration(r)}
       THEN native' = {Registration(r)} /\ registered' = registered \cup {r} /\ UNCHANGED refused
       ELSE refused' = refused \cup {r} /\ UNCHANGED <<native, registered>>
    /\ UNCHANGED <<grammars, call>>

Ended == /\ \A c \in Calls : call[c].step \in {"added", "refused"}
         /\ registered \cup refused = Registries
         /\ UNCHANGED <<grammars, registered, native, call, refused>>

GrammarNext ==
        \/ \E c \in Calls : Checks(c) \/ Validate(c) \/ Add(c)
        \/ \E r \in Registries : Register(r)
        \/ Ended

-----------------------------------------------------------------------------
(* A registry that parses offers exactly the grammars the process knows, each *)
(* language once, and a call that succeeded was not overtaken: its grammars   *)
(* are those its registry has.                                                *)
GrammarsAreKnown ==
    /\ \A r \in registered : native = {Pinned \cup grammars[r]}
    /\ \A r \in Registries : \A g, h \in grammars[r] : g[1] = h[1] => g = h
    /\ \A c \in Calls : \A n \in 1 .. call[c].done :
          Fingerprint(Entries[c][n]) \in grammars[OnRegistry[c]]
=============================================================================
