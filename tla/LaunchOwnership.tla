-------------------------- MODULE LaunchOwnership --------------------------
(***************************************************************************)
(* What the installer owns of a configuration it shares with the user:     *)
(* the launch fields of the "ast-mcp" server and a receipt of what they    *)
(* replaced (src/src/installer/ownership.ts), Codex's approval policy and  *)
(* the overlay that remembers it (codex.ts), and the factory hook          *)
(* (index.ts).  Installing, updating and uninstalling alternate with edits *)
(* of the user in any order.                                               *)
(***************************************************************************)
EXTENDS Naturals, Sequences, SequencesExt

CONSTANTS Own,        \* the launches ast-mcp installs, one per transport
          Theirs,     \* the launches of the user's own
          MaxEdits, MaxRuns

VARIABLES target,     \* "claude" or "copilot": only copilot's tools are owned
          entry,      \* the server entry of the client's configuration
          receipt,    \* the launch receipt beside it
          policy, overlay, \* Codex's approval policy and its overlay
          hooks,      \* the client's hooks for the event
          wish,       \* what the user last asked for
          installed,  \* whether the last run was an installation
          edits, runs

vars == <<target, entry, receipt, policy, overlay, hooks, wish, installed, edits, runs>>

None    == "none"
NoEntry == [launch |-> None, tools |-> None, extra |-> FALSE]
Nothing == [launch |-> None, tools |-> None]
Policy  == {None, "on-request", "never", "granular", "granular+", "never+"}
Hook    == {"user", "custom", "factory", "legacy"}
Part    == [launch : {None} \cup Own \cup Theirs, tools : {None, "star", "some"}]

TypeOK ==
    /\ entry \in [launch : {None} \cup Own \cup Theirs, tools : {None, "star", "some"},
                  extra : BOOLEAN]
    /\ receipt = Nothing \/ receipt \in [before : Part, installed : Part]
    /\ policy \in Policy /\ hooks \in Seq(Hook)

-----------------------------------------------------------------------------
(* Entries and receipts.                                                   *)

ownsTools == target = "copilot"
Owned(e)  == [launch |-> e.launch, tools |-> IF ownsTools THEN e.tools ELSE None]
HasReceipt == receipt # Nothing
SameLaunch(e) == HasReceipt /\ e.launch = receipt.installed.launch

(* Copilot asks for every tool on a first installation only.               *)
ManagedTools(e) ==
    IF ownsTools /\ e = NoEntry /\ ~HasReceipt THEN "star" ELSE e.tools

Installed(own) == [entry EXCEPT !.launch = own, !.tools = ManagedTools(entry)]

(* What the receipt says was there before: what the earlier receipt says   *)
(* while the launch is still the installed one, else the launch found.     *)
BeforeAnew(e) == IF e.launch # None THEN Owned(e) ELSE Nothing

Before(e) ==
    LET found == IF SameLaunch(e) THEN receipt.before
                 ELSE IF e.launch # None THEN Owned(e) ELSE Nothing
        toolsChanged == /\ SameLaunch(e) /\ receipt.installed.tools # None
                        /\ e.tools # receipt.installed.tools IN
    IF toolsChanged
    THEN [launch |-> IF found = Nothing THEN e.launch ELSE found.launch, tools |-> e.tools]
    ELSE found

LaunchReceipt(own) == [before |-> Before(entry), installed |-> Owned(Installed(own))]

(* What uninstalling leaves of an entry whose launch is the installed one: *)
(* the earlier launch with the user's settings, or nothing; without an     *)
(* earlier launch an entry with settings of the user's stays whole.        *)
Unmanaged ==
    LET was   == receipt.before
        kept  == receipt.installed.tools
        tools == CASE kept # None /\ was.tools = None /\ entry.tools = kept -> None
                   [] entry.tools # None -> entry.tools
                   [] kept # None /\ entry.tools # kept -> None
                   [] OTHER -> was.tools IN
    IF ~SameLaunch(entry) THEN entry
    ELSE IF was # Nothing THEN [launch |-> was.launch, tools |-> tools, extra |-> entry.extra]
    ELSE IF tools # None \/ entry.extra THEN entry
    ELSE NoEntry

-----------------------------------------------------------------------------
(* Codex's approval policy must let the server ask its questions.          *)

Enabled(p) == CASE p = "never" -> "never+" [] p = "granular" -> "granular+" [] OTHER -> p

Elicits ==
    IF Enabled(policy) = policy THEN UNCHANGED <<policy, overlay>>
    ELSE /\ policy' = Enabled(policy)
         /\ overlay' = [previous |-> policy, enabled |-> Enabled(policy)]

NoOverlay == [previous |-> None, enabled |-> None]

RemovesOverlay ==
    /\ overlay' = NoOverlay
    /\ policy' = IF overlay # NoOverlay /\ policy = overlay.enabled THEN overlay.previous ELSE policy

-----------------------------------------------------------------------------
(* Hooks: an entry of an older installation is brought up to date in its   *)
(* place, the factory's own is kept once, an edited one is the user's.     *)

Refreshed == [i \in 1..Len(hooks) |-> IF hooks[i] = "legacy" THEN "factory" ELSE hooks[i]]
OneFactory(hs) ==
    LET Keep(i) == hs[i] # "factory" \/ \A j \in 1..(i - 1) : hs[j] # "factory"
        Add(acc, i) == IF Keep(i) THEN Append(acc, hs[i]) ELSE acc IN
    FoldLeft(Add, <<>>, [i \in 1..Len(hs) |-> i])
ManagedHooks ==
    IF ToSet(Refreshed) \cap {"factory", "custom"} # {} THEN OneFactory(Refreshed)
    ELSE Append(Refreshed, "factory")
UnmanagedHook(h) == h \notin {"factory", "legacy"}

-----------------------------------------------------------------------------
Init ==
    /\ target \in {"claude", "copilot"}
    /\ entry \in {NoEntry} \cup [launch : Theirs, tools : {None, "some"}, extra : BOOLEAN]
                          \cup {[NoEntry EXCEPT !.extra = TRUE]}
    /\ receipt = Nothing /\ policy \in Policy \ {"never+"} /\ overlay = NoOverlay
    /\ hooks \in {<<>>, <<"user">>, <<"custom">>, <<"legacy", "user">>, <<"factory", "user", "factory">>}
    /\ wish = [launch |-> entry.launch, tools |-> entry.tools, extra |-> entry.extra, late |-> FALSE, chosen |-> FALSE,
               policy |-> policy, hooks |-> SelectSeq(hooks, UnmanagedHook)]
    /\ installed = FALSE /\ edits = 0 /\ runs = 0

(* install and update: the receipt is saved before the entry it describes. *)
Install(own) ==
    /\ runs < MaxRuns /\ runs' = runs + 1
    /\ receipt' = LaunchReceipt(own)
    /\ entry' = Installed(own)
    /\ Elicits
    /\ hooks' = ManagedHooks
    /\ installed' = TRUE
    /\ UNCHANGED <<target, wish, edits>>

(* An entry that stays whole is the user's from then on.                   *)
Uninstall ==
    /\ runs < MaxRuns /\ runs' = runs + 1
    /\ IF entry = NoEntry \/ ~HasReceipt
       THEN UNCHANGED <<entry, receipt, wish>>
       ELSE /\ entry' = Unmanaged /\ receipt' = Nothing
            /\ wish' = IF entry' = entry THEN [wish EXCEPT !.launch = entry.launch] ELSE wish
    /\ RemovesOverlay
    /\ hooks' = SelectSeq(hooks, UnmanagedHook)
    /\ installed' = FALSE
    /\ UNCHANGED <<target, edits>>

(* Tools chosen for an entry whose receipt owns none.                      *)
Late == HasReceipt /\ receipt.installed.tools = None

(* Putting back what ast-mcp had written takes back the last change.       *)
EditEntry ==
    /\ \E e \in [launch : {None, entry.launch} \cup Theirs, tools : {None, "some"}, extra : BOOLEAN] :
          /\ e # entry /\ (e.launch = None => e = NoEntry)
          /\ entry' = e
          /\ wish' = [wish EXCEPT !.launch = IF e.launch = entry.launch THEN @ ELSE e.launch,
                                  !.tools = IF e.tools = entry.tools THEN @ ELSE e.tools,
                                  !.late = IF e.tools = entry.tools THEN @ ELSE Late,
                                  !.chosen = @ \/ e.tools # entry.tools,
                                  !.extra = e.extra]
    /\ UNCHANGED <<policy, hooks>>

EditPolicy ==
    /\ \E p \in Policy \ {"never+"} :
          /\ p # policy /\ policy' = p
          /\ wish' = [wish EXCEPT !.policy =
                         IF overlay # NoOverlay /\ p = overlay.enabled THEN overlay.previous ELSE p]
    /\ UNCHANGED <<entry, hooks>>

EditHooks ==
    /\ \E i \in 1..Len(hooks) :
          /\ hooks[i] = "factory"
          /\ hooks' = [hooks EXCEPT ![i] = "custom"]
    /\ wish' = [wish EXCEPT !.hooks = SelectSeq(hooks', UnmanagedHook)]
    /\ UNCHANGED <<entry, policy>>

Edit ==
    /\ edits < MaxEdits /\ edits' = edits + 1
    /\ EditEntry \/ EditPolicy \/ EditHooks
    /\ UNCHANGED <<target, receipt, overlay, installed, runs>>

Idle == runs = MaxRuns /\ UNCHANGED vars

Next == (\E own \in Own : Install(own)) \/ Uninstall \/ Edit \/ Idle

Spec == Init /\ [][Next]_vars

-----------------------------------------------------------------------------
(* The user's settings, tools and hooks are there whatever has been run,   *)
(* and a launch or a policy of theirs is back when ast-mcp is uninstalled. *)
(* Tools are the exception: the ones chosen after an installation that     *)
(* found none are taken for ast-mcp's at the next update (ownership.ts:52) *)
(* and go with it (ownership.ts:87), so they are left out.                 *)
UserSettingsSurvive ==
    /\ entry.extra = wish.extra
    /\ wish.tools = "some" /\ ~wish.late => entry.tools = "some"
    /\ SelectSeq(hooks, UnmanagedHook) = wish.hooks
    /\ ~installed => (wish.launch # None => entry.launch = wish.launch)
    /\ ~installed => policy = wish.policy

(* Nothing of ast-mcp's is left where the user had, added and chose        *)
(* nothing.                                                                *)
NothingIsLeft ==
    ~installed /\ runs > 0 =>
        /\ wish.launch = None /\ ~wish.extra /\ wish.tools = None /\ ~wish.chosen => entry.launch \notin Own
        /\ overlay = NoOverlay
        /\ \A i \in 1..Len(hooks) : UnmanagedHook(hooks[i])

OwnershipIsHonest == UserSettingsSurvive /\ NothingIsLeft
=============================================================================
