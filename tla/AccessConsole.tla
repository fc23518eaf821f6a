---------------------------- MODULE AccessConsole ----------------------------
(***************************************************************************)
(* The dashboard's page "Client access" (QuotasView.vue) against the admin  *)
(* API: the allowlist and the quotas of one selected client, in two panels  *)
(* that are read together after every click.                               *)
(*                                                                         *)
(* The page is one thread, yet each click is an async function that goes on *)
(* whenever its requests come back, and requests come back in any order.   *)
(* Where such a function names selectedClientId after an await it names    *)
(* the client that is selected by then.                                    *)
(*                                                                         *)
(* Limits and divert targets of quotas are abstracted to the alias that has *)
(* one.  The registry's aliases are constant.  An empty allowlist is an     *)
(* unrestricted client.                                                    *)
(***************************************************************************)
EXTENDS Naturals, Sequences, FiniteSets

CONSTANTS
    Client,     \* client ids
    Alias,      \* the aliases of the registry
    None,       \* nothing selected, nothing read
    Slot,       \* bounds how many async functions are under way at once
    MaxOthers   \* bound on what other operators do meanwhile

ASSUME AccessConsoleAssumption ==
    /\ None \notin Client \cup Alias
    /\ Slot # {} /\ IsFiniteSet(Slot) /\ MaxOthers \in Nat

VARIABLES
    gateway,  \* what the admin API holds of each client
    page,     \* the refs of the view
    dialog,   \* the confirmation that is open
    calls,    \* [Slot -> Call], the async functions under way
    others    \* how often another operator acted

vars == <<gateway, page, dialog, calls, others>>

Panel   == {"access", "envelope"}
Rows    == SUBSET Alias
Answer  == [clientId : Client, rows : Rows]

Mutation == {"save", "clear", "quota", "remove"}
Call ==
    [kind : Mutation \cup {"load", "change"},
     stage : {"listing", "sent", "replied", "gone", "reading"},
     client : Client \cup {None}, rows : Rows,
     reads : SUBSET Panel]  \* the panels that are not back

Over == [kind |-> "none", stage |-> "over"]

TypeOK ==
    /\ gateway \in [Client -> [live : BOOLEAN, access : Rows, envelope : Rows]]
    /\ page.clients \subseteq Client
    /\ page.selected \in page.clients \cup {None}
    /\ page.access \in Answer \cup {None} /\ page.envelope \in Answer \cup {None}
    /\ page.draft \in Rows
    /\ page.loading \in BOOLEAN /\ page.accessSaving \in BOOLEAN /\ page.saving \in BOOLEAN
    /\ page.rowBusy \in Alias \cup {None}
    /\ dialog \in {None} \cup [about : {"clear"}, rows : {{}}]
                         \cup [about : {"remove"}, rows : {{a} : a \in Alias}]
    /\ \A k \in Slot : calls[k] = Over \/ calls[k] \in Call
    /\ others \in 0..MaxOthers

-----------------------------------------------------------------------------
(* What the page shows.                                                     *)

permittedAliases == IF page.access = None THEN {} ELSE page.access.rows
draftDirty       == page.access # None /\ page.draft # permittedAliases

canSaveAliases == draftDirty /\ page.draft # {} /\ ~page.accessSaving

\* The modal's backdrop covers everything else.
Clickable == dialog = None

\* The rows of the table that can be deleted, and the form below it.
deletable == IF page.loading \/ page.envelope = None THEN {}
             ELSE page.envelope.rows \ {page.rowBusy}

submittable == page.selected # None /\ ~page.saving

-----------------------------------------------------------------------------
(* The async functions.                                                     *)

Starts(kind, stage, c, rows) ==
    \E k \in Slot :
        /\ calls[k] = Over
        /\ calls' = [calls EXCEPT ![k] = [kind |-> kind, stage |-> stage, client |-> c,
                                          rows |-> rows,
                                          reads |-> IF stage = "reading" THEN Panel ELSE {}]]

\* What is on the page as refresh() starts for c.
Refreshing(pg, c) ==
    IF c = None THEN [pg EXCEPT !.access = None, !.envelope = None, !.draft = {}]
    ELSE [pg EXCEPT !.loading = TRUE]

clearDraft(pg) == [pg EXCEPT !.access = None, !.draft = {}]

\* The finally blocks.
Finally(pg, k) ==
    CASE calls[k].kind \in {"save", "clear"} -> [pg EXCEPT !.accessSaving = FALSE]
      [] calls[k].kind = "quota"  -> [pg EXCEPT !.saving = FALSE]
      [] calls[k].kind = "remove" -> [pg EXCEPT !.rowBusy = None]
      [] calls[k].kind = "load"   -> [pg EXCEPT !.loading = FALSE]
      [] OTHER -> pg

\* Call k goes on to refresh() with the page as it is by now.
Refreshes(k, pg) ==
    LET c     == pg.selected
        shown == Refreshing(pg, c)
    IN  IF c = None
        THEN /\ page' = Finally(shown, k)
             /\ calls' = [calls EXCEPT ![k] = Over]
        ELSE /\ page' = shown
             /\ calls' = [calls EXCEPT ![k] = [kind |-> @.kind, stage |-> "reading",
                                              client |-> c, rows |-> {}, reads |-> Panel]]

Ends(k) ==
    /\ page' = Finally(page, k)
    /\ calls' = [calls EXCEPT ![k] = Over]

-----------------------------------------------------------------------------
(* Clicks.                                                                  *)

\* loadAll, on "Reload".
LoadAll ==
    /\ Clickable /\ ~page.loading
    /\ Starts("load", "listing", None, {})
    /\ page' = [page EXCEPT !.loading = TRUE]
    /\ UNCHANGED <<gateway, dialog, others>>

onClientChange(c) ==
    /\ Clickable /\ c \in page.clients \ {page.selected}
    /\ Starts("change", "reading", c, {})
    /\ page' = Refreshing(clearDraft([page EXCEPT !.selected = c]), c)
    /\ UNCHANGED <<gateway, dialog, others>>

addDraftAlias(a) ==
    /\ Clickable /\ page.access # None /\ a \notin page.draft
    /\ page' = [page EXCEPT !.draft = @ \cup {a}]
    /\ UNCHANGED <<gateway, dialog, calls, others>>

removeDraftAlias(a) ==
    /\ Clickable /\ page.access # None /\ a \in page.draft
    /\ page' = [page EXCEPT !.draft = @ \ {a}]
    /\ UNCHANGED <<gateway, dialog, calls, others>>

discardDraft ==
    /\ Clickable /\ draftDirty /\ ~page.accessSaving
    /\ page' = [page EXCEPT !.draft = permittedAliases]
    /\ UNCHANGED <<gateway, dialog, calls, others>>

saveAliases ==
    /\ Clickable /\ canSaveAliases /\ page.selected # None
    /\ Starts("save", "sent", page.selected, page.draft)
    /\ page' = [page EXCEPT !.accessSaving = TRUE]
    /\ UNCHANGED <<gateway, dialog, others>>

\* The button of a restricted client, and the question it asks first.
onReturnToUnrestricted ==
    /\ Clickable /\ page.selected # None /\ permittedAliases # {} /\ ~page.accessSaving
    /\ dialog' = [about |-> "clear", rows |-> {}]
    /\ UNCHANGED <<gateway, page, calls, others>>

submitQuota(a) ==
    /\ Clickable /\ submittable
    /\ Starts("quota", "sent", page.selected, {a})
    /\ page' = [page EXCEPT !.saving = TRUE]
    /\ UNCHANGED <<gateway, dialog, others>>

\* "Delete" in a row of the quotas on show.
onDelete(a) ==
    /\ Clickable /\ a \in deletable
    /\ dialog' = [about |-> "remove", rows |-> {a}]
    /\ UNCHANGED <<gateway, page, calls, others>>

\* The answer of the dialog; the write goes to whoever is selected by then.
Confirm ==
    /\ dialog # None /\ dialog' = None
    /\ \/ UNCHANGED <<page, calls>>
       \/ /\ page.selected # None
          /\ Starts(dialog.about, "sent", page.selected, dialog.rows)
          /\ page' = IF dialog.about = "clear" THEN [page EXCEPT !.accessSaving = TRUE]
                     ELSE [page EXCEPT !.rowBusy = CHOOSE a \in dialog.rows : TRUE]
    /\ UNCHANGED <<gateway, others>>

-----------------------------------------------------------------------------
(* The gateway, and the responses as they arrive.                           *)

\* The rows a GET reads, in one panel's shape or the other's.
Describe(c, p) == [clientId |-> c, rows |-> gateway[c][p]]

\* What the write of call k makes of the client's rows.
Written(k, g) ==
    CASE calls[k].kind = "save"   -> [g EXCEPT !.access = calls[k].rows]
      [] calls[k].kind = "clear"  -> [g EXCEPT !.access = {}]
      [] calls[k].kind = "quota"  -> [g EXCEPT !.envelope = @ \cup calls[k].rows]
      [] calls[k].kind = "remove" -> [g EXCEPT !.envelope = @ \ calls[k].rows]

\* 404: the client is gone, or the quota to remove is.
Missing(k, g) == ~g.live \/ (calls[k].kind = "remove" /\ ~(calls[k].rows \subseteq g.envelope))

Write(k) ==
    LET c == calls[k].client
    IN  /\ calls[k].stage = "sent"
        /\ IF Missing(k, gateway[c])
           THEN calls' = [calls EXCEPT ![k].stage = "gone"] /\ UNCHANGED gateway
           ELSE /\ calls' = [calls EXCEPT ![k].stage = "replied"]
                /\ gateway' = [gateway EXCEPT ![c] = Written(k, @)]
        /\ UNCHANGED <<page, dialog, others>>

\* A write that worked is read back, and so is a quota that was removed already.
\* One that fails, before or after the gateway has done it, ends the call.
WriteHeard(k) ==
    /\ \/ /\ \/ calls[k].stage = "replied"
             \/ calls[k].stage = "gone" /\ calls[k].kind = "remove"
          /\ Refreshes(k, page)
       \/ calls[k].stage \in {"sent", "replied", "gone"} /\ Ends(k)
    /\ UNCHANGED <<gateway, dialog, others>>

\* Mutant: the selection survives the client.
Select_Stays(pg, live) == {pg}

\* The first client of the list replaces one that is no longer in it.
Select(pg, live) ==
    IF pg.selected \in live THEN {pg}
    ELSE {clearDraft([pg EXCEPT !.selected = c]) : c \in IF live = {} THEN {None} ELSE live}

\* loadClients: who exists; a selected client that does not is left.
loadClients(k) ==
    LET live == {c \in Client : gateway[c].live}
    IN  /\ calls[k].stage = "listing"
        /\ \/ \E pg \in Select([page EXCEPT !.clients = live], live) : Refreshes(k, pg)
           \/ Ends(k)  \* the list does not load
        /\ UNCHANGED <<gateway, dialog, others>>

\* Mutant: the panel is loading until its rows are there.
Shown_OnSuccess(p, answer) ==
    IF p = "envelope" THEN [page EXCEPT !.envelope = answer, !.loading = answer = None]
    ELSE [page EXCEPT !.access = answer, !.draft = IF answer = None THEN {} ELSE answer.rows]

\* A panel takes what came back; the draft is seeded anew.
Shown(p, answer) ==
    IF p = "envelope" THEN [page EXCEPT !.envelope = answer, !.loading = FALSE]
    ELSE [page EXCEPT !.access = answer, !.draft = IF answer = None THEN {} ELSE answer.rows]

LastBack(k, p) == calls[k].reads = {p}

\* Mutant: the flag falls with the first panel that is back.
Returned_Early(k, p, pg) == Finally(pg, k)

\* The call is over when both of its panels are.
Returned(k, p, pg) == IF LastBack(k, p) THEN Finally(pg, k) ELSE pg

\* loadAccess and loadQuotas go on, with the rows of the client they asked for
\* as the gateway holds them when it answers, or with an error (None).
Arrive(k, p) ==
    LET c     == calls[k].client
        there == IF gateway[c].live THEN {Describe(c, p)} ELSE {}
        goesOn == [calls[k] EXCEPT !.reads = @ \ {p}]
    IN  /\ calls[k].stage = "reading" /\ p \in calls[k].reads
        /\ \E answer \in there \cup {None} :
              page' = Returned(k, p, Shown(p, answer))
        /\ calls' = [calls EXCEPT ![k] = IF LastBack(k, p) THEN Over ELSE goesOn]
        /\ UNCHANGED <<gateway, dialog, others>>

\* Another operator, on another page.
OtherOperator(c) ==
    /\ others < MaxOthers /\ others' = others + 1 /\ gateway[c].live
    /\ \/ gateway' = [gateway EXCEPT ![c] = [live |-> FALSE, access |-> {}, envelope |-> {}]]
       \/ \E p \in Panel : \E rows \in Rows \ {gateway[c][p]} :
             gateway' = [gateway EXCEPT ![c][p] = rows]
    /\ UNCHANGED <<page, dialog, calls>>

-----------------------------------------------------------------------------

Init ==
    /\ gateway \in [Client -> [live : {TRUE}, access : Rows, envelope : Rows]]
    /\ page = [clients |-> {}, selected |-> None, access |-> None, envelope |-> None,
               draft |-> {}, loading |-> TRUE, accessSaving |-> FALSE, saving |-> FALSE,
               rowBusy |-> None]
    /\ dialog = None
    /\ \E k \in Slot :
          calls = [s \in Slot |->
                      IF s = k THEN [kind |-> "load", stage |-> "listing", client |-> None,
                                     rows |-> {}, reads |-> {}] ELSE Over]
    /\ others = 0

Next ==
    \/ LoadAll \/ discardDraft \/ saveAliases \/ onReturnToUnrestricted \/ Confirm
    \/ \E c \in Client : onClientChange(c) \/ OtherOperator(c)
    \/ \E a \in Alias : addDraftAlias(a) \/ removeDraftAlias(a) \/ submitQuota(a) \/ onDelete(a)
    \/ \E k \in Slot :
          \/ loadClients(k) \/ Write(k) \/ WriteHeard(k)
          \/ \E p \in Panel : Arrive(k, p)

Spec == Init /\ [][Next]_vars

-----------------------------------------------------------------------------

\* Writes of the allowlist do not overlap: the page is marked as saving exactly
\* while one save or return to unrestricted is under way, which includes the
\* question of the dialog having been answered and both panels being read back.
OneWriteAtATime ==
    LET writing == {k \in Slot :
                       calls[k].kind \in {"save", "clear"}}
    IN  /\ Cardinality(writing) <= 1
        /\ page.accessSaving <=> writing # {}

\* No control of the page stays disabled for good, although its flags are shared
\* by functions that end in any order: a flag that is up has a function under way
\* whose finally block, or whose panel, lowers it.
BusyMeansUnderWay ==
    /\ page.loading =>
          \E k \in Slot : \/ calls[k].stage = "listing"
                          \/ calls[k].stage = "reading" /\ "envelope" \in calls[k].reads
    /\ page.saving <=> \E k \in Slot : calls[k].kind = "quota"
    /\ page.rowBusy # None => \E k \in Slot : calls[k].kind = "remove"

\* The flags of the page are true: accessSaving keeps two writes apart, and each
\* of the others has somebody to lower it.
FlagsAreTrue == OneWriteAtATime /\ BusyMeansUnderWay

\* The draft is never another client's than the one it would be saved for
\* ("A draft belongs to ONE client", onClientChange).
DraftBelongsToClient == page.access # None => page.access.clientId = page.selected
=============================================================================
