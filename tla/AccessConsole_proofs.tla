------------------------ MODULE AccessConsole_proofs ------------------------
(***************************************************************************)
(* Which writes of the page "Client access" may overlap, for any number of *)
(* clients, aliases and async functions under way.                         *)
(***************************************************************************)
EXTENDS AccessConsole, FiniteSetTheorems, TLAPS

USE AccessConsoleAssumption

-----------------------------------------------------------------------------
(* The inductive invariant                                                  *)

Writes == {"save", "clear"}

PageSet ==
    [clients : SUBSET Client, selected : Client \cup {None},
     access : Answer \cup {None}, envelope : Answer \cup {None}, draft : Rows,
     loading : BOOLEAN, accessSaving : BOOLEAN, saving : BOOLEAN,
     rowBusy : Alias \cup {None}]

Good(pg) == pg \in PageSet /\ pg.selected \in pg.clients \cup {None}

Gateway == [Client -> [live : BOOLEAN, access : Rows, envelope : Rows]]

Dialog == {None} \cup [about : {"clear"}, rows : {{}}]
                 \cup [about : {"remove"}, rows : {{a} : a \in Alias}]

\* A request that writes, or reads, is about a client.
Shaped(d) ==
    /\ d \in Call
    /\ d.stage \in {"sent", "replied", "gone"} => d.kind \in Mutation /\ d.client \in Client
    /\ d.stage = "reading" => d.client \in Client

CallsShaped ==
    /\ calls \in [Slot -> Call \cup {Over}]
    /\ \A k \in Slot : calls[k] = Over \/ Shaped(calls[k])

\* The flag is up exactly while the one write there may be is under way.
OneWriter ==
    /\ \A j, k \in Slot : calls[j].kind \in Writes /\ calls[k].kind \in Writes => j = k
    /\ page.accessSaving <=> \E k \in Slot : calls[k].kind \in Writes

\* Nothing is written while the question of the dialog stands.
DialogQuiet == dialog # None /\ dialog.about = "clear" => ~page.accessSaving

ConsoleInv ==
    /\ gateway \in Gateway
    /\ Good(page)
    /\ dialog \in Dialog
    /\ others \in 0..MaxOthers
    /\ CallsShaped
    /\ OneWriter
    /\ DialogQuiet

-----------------------------------------------------------------------------
(* The page                                                                 *)

\* A call that is under way is not one that is over.
LEMMA OverIsNoCall ==
    /\ Over \notin Call
    /\ Over.kind \notin Writes
    /\ Over.stage \notin {"listing", "sent", "replied", "gone", "reading"}
BY DEF Over, Call, Writes

\* refresh() and clearDraft() leave the selection and the flag of a write alone.
LEMMA RefreshingKeeps ==
    ASSUME NEW pg, Good(pg), NEW c
    PROVE  /\ Good(Refreshing(pg, c)) /\ Good(clearDraft(pg))
           /\ Refreshing(pg, c).accessSaving = pg.accessSaving
           /\ clearDraft(pg).accessSaving = pg.accessSaving
           /\ Refreshing(pg, c).selected = pg.selected
BY DEF Good, PageSet, Refreshing, clearDraft, Rows

\* The finally block of a call lowers its own flag only.
LEMMA FinallyKeeps ==
    ASSUME NEW pg, Good(pg), NEW k \in Slot
    PROVE  /\ Good(Finally(pg, k))
           /\ Finally(pg, k).accessSaving
                 = IF calls[k].kind \in Writes THEN FALSE ELSE pg.accessSaving
BY DEF Good, PageSet, Finally, Writes

-----------------------------------------------------------------------------
(* Three kinds of steps                                                     *)

\* Nothing is started and nothing ends.
LEMMA PageStep ==
    ASSUME ConsoleInv, Good(page'), page'.accessSaving = page.accessSaving,
           UNCHANGED calls, gateway' \in Gateway, others' \in 0..MaxOthers,
           dialog' \in Dialog,
           dialog' = dialog \/ dialog' = None \/ dialog'.about # "clear" \/ ~page.accessSaving
    PROVE  ConsoleInv'
<1>1. CallsShaped'
  BY DEF ConsoleInv, CallsShaped, Shaped, Call, Mutation, Over, Rows, Panel
<1>2. OneWriter'
  BY DEF ConsoleInv, OneWriter, Writes
<1>3. DialogQuiet'
  BY DEF ConsoleInv, DialogQuiet
<1> QED
  BY <1>1, <1>2, <1>3
     DEF ConsoleInv, Good, PageSet, Answer, Rows, Gateway, Dialog

\* A function starts in a free slot; if it writes the allowlist, nothing does.
LEMMA StartStep ==
    ASSUME ConsoleInv, Good(page'), UNCHANGED <<gateway, others>>,
           dialog' = None,
           NEW k \in Slot, calls[k] = Over, NEW d, Shaped(d),
           calls' = [calls EXCEPT ![k] = d],
           d.kind \in Writes => ~page.accessSaving /\ page'.accessSaving,
           d.kind \notin Writes => page'.accessSaving = page.accessSaving
    PROVE  ConsoleInv'
<1>1. calls \in [Slot -> Call \cup {Over}] /\ OneWriter
  BY DEF ConsoleInv, CallsShaped
<1>2. d \in Call
  BY DEF Shaped
<1>3. /\ calls' \in [Slot -> Call \cup {Over}] /\ calls'[k] = d
      /\ \A j \in Slot \ {k} : calls'[j] = calls[j]
  BY <1>1, <1>2
<1>4. CallsShaped'
  <2>1. \A j \in Slot : calls'[j] = Over \/ Shaped(calls'[j])
    BY <1>3 DEF ConsoleInv, CallsShaped
  <2> QED
    BY <1>3, <2>1 DEF CallsShaped, Shaped, Call, Mutation, Over, Rows, Panel
<1>5. OneWriter'
  <2>1. calls[k].kind \notin Writes
    BY OverIsNoCall
  <2>2. CASE d.kind \in Writes
    <3>1. \A j \in Slot : calls[j].kind \notin Writes
      BY <1>1, <2>2 DEF OneWriter
    <3>2. \A j \in Slot : calls'[j].kind \in Writes <=> j = k
      BY <1>3, <2>2, <3>1
    <3> QED
      BY <2>2, <3>2 DEF OneWriter, Writes
  <2>3. CASE d.kind \notin Writes
    <3>1. \A j \in Slot : calls'[j].kind \in Writes <=> calls[j].kind \in Writes
      BY <1>3, <2>1, <2>3
    <3> QED
      BY <1>1, <2>3, <3>1 DEF OneWriter, Writes
  <2> QED
    BY <2>2, <2>3
<1>6. DialogQuiet' /\ dialog' \in Dialog
  BY DEF DialogQuiet, Dialog
<1> QED
  BY <1>4, <1>5, <1>6 DEF ConsoleInv, Good, PageSet, Answer, Rows, Gateway, Dialog

\* A function that is under way goes on, or ends with its finally block.
LEMMA CallStep ==
    ASSUME ConsoleInv, Good(page'), gateway' \in Gateway, UNCHANGED <<dialog, others>>,
           NEW k \in Slot, calls[k] # Over,
           \/ /\ calls' = [calls EXCEPT ![k] = Over]
              /\ page'.accessSaving
                    = IF calls[k].kind \in Writes THEN FALSE ELSE page.accessSaving
           \/ \E d : /\ Shaped(d) /\ d.kind = calls[k].kind
                     /\ calls' = [calls EXCEPT ![k] = d]
                     /\ page'.accessSaving = page.accessSaving
    PROVE  ConsoleInv'
<1>1. calls \in [Slot -> Call \cup {Over}] /\ OneWriter /\ Good(page)
  BY DEF ConsoleInv, CallsShaped
<1>2. CallsShaped'
  <2>1. PICK d : (d = Over \/ Shaped(d)) /\ calls' = [calls EXCEPT ![k] = d]
    OBVIOUS
  <2>2. d \in Call \cup {Over}
    BY <2>1 DEF Shaped
  <2>3. calls' \in [Slot -> Call \cup {Over}]
    BY <1>1, <2>1, <2>2
  <2>4. \A j \in Slot : calls'[j] = Over \/ Shaped(calls'[j])
    BY <1>1, <2>1 DEF ConsoleInv, CallsShaped
  <2> QED
    BY <2>3, <2>4 DEF CallsShaped, Shaped, Call, Mutation, Over, Rows, Panel
<1>3. CASE /\ calls' = [calls EXCEPT ![k] = Over]
           /\ page'.accessSaving
                 = IF calls[k].kind \in Writes THEN FALSE ELSE page.accessSaving
  <2>1. /\ calls'[k].kind \notin Writes
        /\ \A j \in Slot \ {k} : calls'[j] = calls[j]
    BY <1>1, <1>3, OverIsNoCall
  <2>4. OneWriter'
    <3>1. CASE calls[k].kind \in Writes
      <4>1. \A j \in Slot : calls'[j].kind \notin Writes
        BY <1>1, <2>1, <3>1 DEF OneWriter
      <4> QED
        BY <1>3, <3>1, <4>1 DEF OneWriter, Writes
    <3>2. CASE calls[k].kind \notin Writes
      <4>1. \A j \in Slot : calls'[j].kind \in Writes <=> calls[j].kind \in Writes
        BY <2>1, <3>2
      <4> QED
        BY <1>1, <1>3, <3>2, <4>1 DEF OneWriter, Writes
    <3> QED
      BY <3>1, <3>2
  <2>5. page'.accessSaving => page.accessSaving
    BY <1>3
  <2> QED
    BY <1>2, <2>4, <2>5 DEF ConsoleInv, DialogQuiet, Good, PageSet, Answer, Rows, Gateway, Dialog
<1>4. ASSUME NEW d, Shaped(d), d.kind = calls[k].kind,
             calls' = [calls EXCEPT ![k] = d],
             page'.accessSaving = page.accessSaving
      PROVE  ConsoleInv'
  <2>1. \A j \in Slot : calls'[j].kind = calls[j].kind
    BY <1>1, <1>4
  <2>2. OneWriter'
    BY <1>1, <1>4, <2>1 DEF OneWriter, Writes
  <2> QED
    BY <1>2, <1>4, <2>2 DEF ConsoleInv, DialogQuiet, Good, PageSet, Answer, Rows, Gateway, Dialog
<1> QED
  BY <1>3, <1>4

-----------------------------------------------------------------------------
(* The steps                                                                *)

\* A function that goes on to refresh() the page as it is by then.
LEMMA RefreshesKeeps ==
    ASSUME ConsoleInv, gateway' \in Gateway, UNCHANGED <<dialog, others>>,
           NEW k \in Slot, calls[k] # Over, NEW pg, Good(pg),
           pg.accessSaving = page.accessSaving,
           Refreshes(k, pg)
    PROVE  ConsoleInv'
<1> DEFINE c == pg.selected
           shown == Refreshing(pg, c)
           d == [kind |-> calls[k].kind, stage |-> "reading", client |-> c,
                 rows |-> {}, reads |-> Panel]
<1>1. Good(shown) /\ shown.accessSaving = page.accessSaving
  BY RefreshingKeeps
<1>2. c \in Client \cup {None}
  BY DEF Good, PageSet
<1>3. CASE c = None
  <2>1. page' = Finally(shown, k) /\ calls' = [calls EXCEPT ![k] = Over]
    BY <1>3 DEF Refreshes
  <2> HIDE DEF shown
  <2>2. /\ Good(page')
        /\ page'.accessSaving
              = IF calls[k].kind \in Writes THEN FALSE ELSE page.accessSaving
    BY <1>1, <2>1, FinallyKeeps
  <2> QED
    BY <2>1, <2>2, CallStep
<1>4. CASE c # None
  <2>1. page' = shown /\ calls' = [calls EXCEPT ![k] = d]
    BY <1>4 DEF Refreshes
  <2>2. calls[k] \in Call
    BY DEF ConsoleInv, CallsShaped
  <2>3. Shaped(d) /\ d.kind = calls[k].kind
    BY <1>2, <1>4, <2>2 DEF Shaped, Call, Rows
  <2> HIDE DEF shown, d
  <2>4. Good(page') /\ page'.accessSaving = page.accessSaving
    BY <1>1, <2>1
  <2> QED
    BY <2>1, <2>3, <2>4, CallStep
<1> QED
  BY <1>3, <1>4

\* A function that is over.
LEMMA EndsKeeps ==
    ASSUME ConsoleInv, UNCHANGED <<gateway, dialog, others>>,
           NEW k \in Slot, calls[k] # Over, Ends(k)
    PROVE  ConsoleInv'
<1>1. Good(page) /\ gateway' \in Gateway
  BY DEF ConsoleInv
<1>2. page' = Finally(page, k) /\ calls' = [calls EXCEPT ![k] = Over]
  BY DEF Ends
<1>3. /\ Good(page')
      /\ page'.accessSaving = IF calls[k].kind \in Writes THEN FALSE ELSE page.accessSaving
  BY <1>1, <1>2, FinallyKeeps
<1> QED
  BY <1>1, <1>2, <1>3, CallStep

\* A click that starts a function.
LEMMA ClickStarts ==
    ASSUME ConsoleInv, Good(page'), UNCHANGED <<gateway, others>>, dialog' = None,
           NEW kind, NEW stage, NEW c, NEW rows,
           Starts(kind, stage, c, rows),
           kind \in Mutation \cup {"load", "change"},
           stage = "listing" \/ (stage = "sent" /\ kind \in Mutation) \/ stage = "reading",
           c \in Client \/ (stage = "listing" /\ c = None),
           rows \in Rows,
           kind \in Writes => ~page.accessSaving /\ page'.accessSaving,
           kind \notin Writes => page'.accessSaving = page.accessSaving
    PROVE  ConsoleInv'
<1> DEFINE d == [kind |-> kind, stage |-> stage, client |-> c, rows |-> rows,
                 reads |-> IF stage = "reading" THEN Panel ELSE {}]
<1>1. PICK k \in Slot : calls[k] = Over /\ calls' = [calls EXCEPT ![k] = d]
  BY DEF Starts
<1>2. Shaped(d) /\ d.kind = kind
  BY DEF Shaped, Call
<1> HIDE DEF d
<1> QED
  BY <1>1, <1>2, StartStep

\* Clicks.
LEMMA Clicks ==
    ASSUME ConsoleInv,
           \/ LoadAll \/ discardDraft \/ saveAliases \/ onReturnToUnrestricted \/ Confirm
           \/ \E c \in Client : onClientChange(c)
           \/ \E a \in Alias : \/ addDraftAlias(a) \/ removeDraftAlias(a)
                               \/ submitQuota(a) \/ onDelete(a)
    PROVE  ConsoleInv'
<1>0. /\ Good(page) /\ gateway \in Gateway /\ others \in 0..MaxOthers /\ dialog \in Dialog
      /\ page \in PageSet
  BY DEF ConsoleInv, Good
<1>a. {} \in Rows /\ \A a \in Alias : {a} \in Rows
  BY DEF Rows
<1>1. CASE LoadAll
  <2>1. Good(page') /\ page'.accessSaving = page.accessSaving
    BY <1>0, <1>1 DEF LoadAll, Good, PageSet
  <2>2. Starts("load", "listing", None, {}) /\ dialog' = None
    BY <1>1 DEF LoadAll, Clickable
  <2> QED
    BY <1>1, <1>a, <2>1, <2>2, ClickStarts DEF LoadAll, Writes
<1>2. CASE discardDraft
  <2>1. permittedAliases \in Rows
    BY <1>0 DEF permittedAliases, PageSet, Answer, Rows
  <2>2. Good(page') /\ page'.accessSaving = page.accessSaving
    BY <1>0, <1>2, <2>1 DEF discardDraft, Good, PageSet
  <2> QED
    BY <1>0, <1>2, <2>2, PageStep DEF discardDraft
<1>3. CASE saveAliases
  <2>1. Good(page') /\ page'.accessSaving /\ ~page.accessSaving
    BY <1>0, <1>3 DEF saveAliases, canSaveAliases, Good, PageSet
  <2>2. /\ Starts("save", "sent", page.selected, page.draft) /\ dialog' = None
        /\ page.selected \in Client /\ page.draft \in Rows
    BY <1>0, <1>3 DEF saveAliases, Clickable, PageSet
  <2> QED
    BY <1>3, <2>1, <2>2, ClickStarts DEF saveAliases, Writes, Mutation
<1>4. CASE onReturnToUnrestricted
  <2>1. dialog' \in Dialog /\ ~page.accessSaving
    BY <1>4 DEF onReturnToUnrestricted, Dialog
  <2> QED
    BY <1>0, <1>4, <2>1, PageStep DEF onReturnToUnrestricted
<1>5. CASE Confirm
  <2>1. dialog # None /\ dialog' = None /\ UNCHANGED <<gateway, others>> /\ None \in Dialog
    BY <1>5 DEF Confirm, Dialog
  <2>2. CASE UNCHANGED <<page, calls>>
    BY <1>0, <2>1, <2>2, PageStep
  <2>3. CASE /\ page.selected # None
             /\ Starts(dialog.about, "sent", page.selected, dialog.rows)
             /\ page' = IF dialog.about = "clear" THEN [page EXCEPT !.accessSaving = TRUE]
                        ELSE [page EXCEPT !.rowBusy = CHOOSE a \in dialog.rows : TRUE]
    <3>1. page.selected \in Client
      BY <1>0, <2>3 DEF PageSet
    <3>2. CASE dialog \in [about : {"clear"}, rows : {{}}]
      <4>1. dialog.about = "clear" /\ dialog.rows = {} /\ ~page.accessSaving
        BY <2>1, <3>2 DEF ConsoleInv, DialogQuiet
      <4>2. Good(page') /\ page'.accessSaving
        BY <1>0, <2>3, <4>1 DEF Good, PageSet
      <4> QED
        BY <1>a, <2>1, <2>3, <3>1, <4>1, <4>2, ClickStarts DEF Mutation, Writes
    <3>3. CASE dialog \in [about : {"remove"}, rows : {{a} : a \in Alias}]
      <4>1. PICK b \in Alias : dialog.about = "remove" /\ dialog.rows = {b}
        BY <3>3
      <4>2. (CHOOSE a \in dialog.rows : TRUE) \in Alias
        BY <4>1
      <4>3. Good(page') /\ page'.accessSaving = page.accessSaving
        BY <1>0, <2>3, <4>1, <4>2 DEF Good, PageSet
      <4> QED
        BY <1>a, <2>1, <2>3, <3>1, <4>1, <4>3, ClickStarts DEF Mutation, Writes
    <3> QED
      BY <1>0, <2>1, <3>2, <3>3 DEF Dialog
  <2> QED
    BY <1>5, <2>2, <2>3 DEF Confirm
<1>6. ASSUME NEW c \in Client, onClientChange(c)
      PROVE  ConsoleInv'
  <2> DEFINE pg == [page EXCEPT !.selected = c]
  <2>1. Good(pg) /\ pg.accessSaving = page.accessSaving
    BY <1>0, <1>6 DEF onClientChange, Good, PageSet
  <2>2. page' = Refreshing(clearDraft(pg), c)
    BY <1>6 DEF onClientChange
  <2> HIDE DEF pg
  <2>3. Good(page') /\ page'.accessSaving = page.accessSaving
    BY <2>1, <2>2, RefreshingKeeps
  <2>4. Starts("change", "reading", c, {}) /\ dialog' = None
    BY <1>6 DEF onClientChange, Clickable
  <2> QED
    BY <1>6, <1>a, <2>3, <2>4, ClickStarts DEF onClientChange, Writes
<1>7. ASSUME NEW a \in Alias, addDraftAlias(a) \/ removeDraftAlias(a)
      PROVE  ConsoleInv'
  <2>1. Good(page') /\ page'.accessSaving = page.accessSaving
    BY <1>0, <1>7 DEF addDraftAlias, removeDraftAlias, Good, PageSet, Rows
  <2> QED
    BY <1>0, <1>7, <2>1, PageStep DEF addDraftAlias, removeDraftAlias
<1>8. ASSUME NEW a \in Alias, submitQuota(a)
      PROVE  ConsoleInv'
  <2>1. Good(page') /\ page'.accessSaving = page.accessSaving
    BY <1>0, <1>8 DEF submitQuota, Good, PageSet
  <2>2. /\ Starts("quota", "sent", page.selected, {a}) /\ dialog' = None
        /\ page.selected \in Client
    BY <1>0, <1>8 DEF submitQuota, submittable, Clickable, PageSet
  <2> QED
    BY <1>8, <1>a, <2>1, <2>2, ClickStarts DEF submitQuota, Writes, Mutation
<1>9. ASSUME NEW a \in Alias, onDelete(a)
      PROVE  ConsoleInv'
  <2>1. dialog' \in Dialog /\ dialog'.about # "clear"
    BY <1>9 DEF onDelete, Dialog
  <2> QED
    BY <1>0, <1>9, <2>1, PageStep DEF onDelete
<1> QED
  BY <1>1, <1>2, <1>3, <1>4, <1>5, <1>6, <1>7, <1>8, <1>9

\* The gateway executes a write.
LEMMA WriteKeeps ==
    ASSUME ConsoleInv, NEW k \in Slot, Write(k)
    PROVE  ConsoleInv'
<1> DEFINE c == calls[k].client
<1>0. /\ Good(page) /\ gateway \in Gateway /\ calls[k].stage = "sent"
      /\ UNCHANGED <<page, dialog, others>>
  BY DEF ConsoleInv, Write
<1>1. calls[k] # Over
  BY <1>0, OverIsNoCall
<1>2. /\ calls[k] \in Call /\ Shaped(calls[k]) /\ calls[k].kind \in Mutation /\ c \in Client
      /\ calls[k].rows \in Rows
  BY <1>0, <1>1 DEF ConsoleInv, CallsShaped, Shaped, Call
<1>3. Good(page') /\ page'.accessSaving = page.accessSaving
  BY <1>0
<1>4. ASSUME NEW next \in {"gone", "replied"},
             calls' = [calls EXCEPT ![k].stage = next]
      PROVE  \E d : /\ Shaped(d) /\ d.kind = calls[k].kind
                    /\ calls' = [calls EXCEPT ![k] = d]
  <2> DEFINE d == [calls[k] EXCEPT !.stage = next]
  <2>1. Shaped(d) /\ d.kind = calls[k].kind
    BY <1>2 DEF Shaped, Call
  <2>2. calls' = [calls EXCEPT ![k] = d]
    BY <1>4
  <2> QED
    BY <2>1, <2>2
<1>5. CASE calls' = [calls EXCEPT ![k].stage = "gone"] /\ UNCHANGED gateway
  BY <1>0, <1>1, <1>3, <1>4, <1>5, CallStep
<1>6. CASE /\ calls' = [calls EXCEPT ![k].stage = "replied"]
           /\ gateway' = [gateway EXCEPT ![c] = Written(k, gateway[c])]
  <2>1. gateway[c] \in [live : BOOLEAN, access : Rows, envelope : Rows]
    BY <1>0, <1>2 DEF Gateway
  <2>2. Written(k, gateway[c]) \in [live : BOOLEAN, access : Rows, envelope : Rows]
    BY <1>2, <2>1 DEF Written, Mutation, Rows
  <2>3. gateway' \in Gateway
    BY <1>0, <1>2, <1>6, <2>2 DEF Gateway
  <2> QED
    BY <1>0, <1>1, <1>3, <1>4, <1>6, <2>3, CallStep
<1> QED
  BY <1>5, <1>6 DEF Write

\* Its answer, and the list of clients, reach the page.
LEMMA AnswersKeep ==
    ASSUME ConsoleInv, NEW k \in Slot, WriteHeard(k) \/ loadClients(k)
    PROVE  ConsoleInv'
<1>0. Good(page) /\ gateway \in Gateway /\ UNCHANGED <<gateway, dialog, others>>
  BY DEF ConsoleInv, WriteHeard, loadClients
<1>1. calls[k] # Over
  BY OverIsNoCall DEF WriteHeard, loadClients
<1>2. CASE Refreshes(k, page)
  BY <1>0, <1>1, <1>2, RefreshesKeeps
<1>3. CASE Ends(k)
  BY <1>0, <1>1, <1>3, EndsKeeps
<1>4. ASSUME NEW live \in SUBSET Client,
             NEW pg \in Select([page EXCEPT !.clients = live], live),
             Refreshes(k, pg)
      PROVE  ConsoleInv'
  <2> DEFINE listed == [page EXCEPT !.clients = live]
  <2>1. listed \in PageSet /\ listed.clients = live /\ listed.accessSaving = page.accessSaving
    BY <1>0 DEF Good, PageSet
  <2> HIDE DEF listed
  <2>2. pg \in Select(listed, live)
    BY <1>4 DEF listed
  <2>3. CASE listed.selected \in live /\ pg = listed
    <3>1. Good(pg) /\ pg.accessSaving = page.accessSaving
      BY <2>1, <2>3 DEF Good
    <3> QED
      BY <1>0, <1>1, <1>4, <3>1, RefreshesKeeps
  <2>4. ASSUME NEW c \in IF live = {} THEN {None} ELSE live,
               pg = clearDraft([listed EXCEPT !.selected = c])
        PROVE  ConsoleInv'
    <3>1. /\ Good([listed EXCEPT !.selected = c])
          /\ [listed EXCEPT !.selected = c].accessSaving = page.accessSaving
      BY <2>1 DEF Good, PageSet
    <3>2. Good(pg) /\ pg.accessSaving = page.accessSaving
      BY <2>4, <3>1, RefreshingKeeps
    <3> QED
      BY <1>0, <1>1, <1>4, <3>2, RefreshesKeeps
  <2> QED
    BY <2>2, <2>3, <2>4 DEF Select
<1> QED
  BY <1>2, <1>3, <1>4 DEF WriteHeard, loadClients

\* A panel's rows reach the page.
LEMMA ArriveKeeps ==
    ASSUME ConsoleInv, NEW k \in Slot, NEW p \in Panel, Arrive(k, p)
    PROVE  ConsoleInv'
<1>0. /\ Good(page) /\ page \in PageSet /\ gateway \in Gateway
      /\ UNCHANGED <<gateway, dialog, others>> /\ calls[k].stage = "reading"
  BY DEF ConsoleInv, Good, Arrive
<1>1. calls[k] # Over
  BY <1>0, OverIsNoCall
<1>2. Shaped(calls[k]) /\ calls[k].client \in Client
  BY <1>0, <1>1 DEF ConsoleInv, CallsShaped, Shaped
<1>3. PICK answer \in Answer \cup {None} : page' = Returned(k, p, Shown(p, answer))
  <2>1. \A q \in Panel : Describe(calls[k].client, q) \in Answer
    BY <1>0, <1>2 DEF Describe, Answer, Gateway, Panel
  <2> QED
    BY <2>1 DEF Arrive
<1>4. Good(Shown(p, answer)) /\ Shown(p, answer).accessSaving = page.accessSaving
  <2>1. (IF answer = None THEN {} ELSE answer.rows) \in Rows
    BY DEF Answer, Rows
  <2> QED
    BY <1>0, <2>1 DEF Shown, Good, PageSet, Panel
<1>5. CASE LastBack(k, p)
  <2>1. page' = Finally(Shown(p, answer), k) /\ calls' = [calls EXCEPT ![k] = Over]
    BY <1>3, <1>5 DEF Returned, Arrive
  <2>2. /\ Good(page')
        /\ page'.accessSaving = IF calls[k].kind \in Writes THEN FALSE ELSE page.accessSaving
    BY <1>4, <2>1, FinallyKeeps
  <2> QED
    BY <1>0, <1>1, <2>1, <2>2, CallStep
<1>6. CASE ~LastBack(k, p)
  <2> DEFINE d == [calls[k] EXCEPT !.reads = calls[k].reads \ {p}]
  <2>1. page' = Shown(p, answer) /\ calls' = [calls EXCEPT ![k] = d]
    <3>1. page' = Shown(p, answer)
      BY <1>3, <1>6 DEF Returned
    <3>2. calls' = [calls EXCEPT ![k] = IF LastBack(k, p) THEN Over ELSE d]
      BY Zenon DEF Arrive
    <3>3. calls' = [calls EXCEPT ![k] = d]
      BY <1>6, <3>2
    <3> QED
      BY <3>1, <3>3
  <2>2. Shaped(d) /\ d.kind = calls[k].kind
    BY <1>2 DEF Shaped, Call
  <2> HIDE DEF d
  <2> QED
    BY <1>0, <1>1, <1>4, <2>1, <2>2, CallStep
<1> QED
  BY <1>5, <1>6

\* Another operator changes what the gateway holds.
LEMMA OthersKeep ==
    ASSUME ConsoleInv, NEW c \in Client, OtherOperator(c)
    PROVE  ConsoleInv'
<1>0. /\ Good(page) /\ gateway \in Gateway /\ others \in 0..MaxOthers /\ dialog \in Dialog
      /\ UNCHANGED <<page, dialog, calls>>
  BY DEF ConsoleInv, OtherOperator
<1>1. others' \in 0..MaxOthers
  BY <1>0 DEF OtherOperator
<1>2. gateway' \in Gateway
  <2>1. {} \in Rows
    BY DEF Rows
  <2>2. CASE gateway' = [gateway EXCEPT ![c] = [live |-> FALSE, access |-> {}, envelope |-> {}]]
    BY <1>0, <2>1, <2>2 DEF Gateway
  <2>3. ASSUME NEW p \in Panel, NEW rows \in Rows, gateway' = [gateway EXCEPT ![c][p] = rows]
        PROVE  gateway' \in Gateway
    BY <1>0, <2>3 DEF Gateway, Panel
  <2> QED
    BY <2>2, <2>3 DEF OtherOperator
<1> QED
  BY <1>0, <1>1, <1>2, PageStep

\* The invariant is initially true.
LEMMA ConsoleInit == Init => ConsoleInv
<1> SUFFICES ASSUME Init PROVE ConsoleInv
  OBVIOUS
<1>1. PICK k \in Slot :
          calls = [s \in Slot |->
                      IF s = k THEN [kind |-> "load", stage |-> "listing", client |-> None,
                                     rows |-> {}, reads |-> {}] ELSE Over]
  BY DEF Init
<1>2. CallsShaped
  BY <1>1 DEF CallsShaped, Shaped, Call, Rows
<1>3. \A s \in Slot : calls[s].kind \notin Writes
  BY <1>1 DEF Writes, Over
<1>4. Good(page) /\ ~page.accessSaving
  BY DEF Init, Good, PageSet, Rows
<1>5. OneWriter
  BY <1>3, <1>4 DEF OneWriter
<1>6. gateway \in Gateway
  BY DEF Init, Gateway
<1>7. dialog \in Dialog /\ DialogQuiet /\ others \in 0..MaxOthers
  BY <1>4 DEF Init, Dialog, DialogQuiet
<1> QED
  BY <1>2, <1>4, <1>5, <1>6, <1>7 DEF ConsoleInv

\* Every step keeps the invariant.
LEMMA ConsoleStep ==
    ASSUME ConsoleInv, [Next]_vars
    PROVE  ConsoleInv'
<1>1. CASE UNCHANGED vars
  BY <1>1, PageStep DEF vars, ConsoleInv
<1> QED
  BY <1>1, Clicks, WriteKeeps, AnswersKeep, ArriveKeeps, OthersKeep DEF Next

-----------------------------------------------------------------------------
(* The flags that disable the page's controls                               *)

\* The panel of quotas is still to come back from call d.
Fetches(d) == d.stage = "listing" \/ (d.stage = "reading" /\ "envelope" \in d.reads)

\* Each flag that is up has its function.  Two quotas are never submitted at once,
\* so the first one's finally block does not enable the form under the second;
\* only loadAll lists the clients, and it lowers the flag when that fails.
FlagsHeld ==
    /\ \A k \in Slot : calls[k].stage = "listing" => calls[k].kind = "load"
    /\ \A j, k \in Slot : calls[j].kind = "quota" /\ calls[k].kind = "quota" => j = k
    /\ page.loading => \E k \in Slot : Fetches(calls[k])
    /\ page.saving <=> \E k \in Slot : calls[k].kind = "quota"
    /\ page.rowBusy # None => \E k \in Slot : calls[k].kind = "remove"

\* pg has the flags of the page after call k, which was c, has become d.
Follows(c, d, pg) ==
    /\ d.stage = "listing" => d.kind = "load"
    /\ pg.loading => Fetches(d) \/ (page.loading /\ ~Fetches(c))
    /\ d.kind = "quota" => pg.saving /\ (c.kind = "quota" \/ ~page.saving)
    /\ d.kind # "quota" => (pg.saving <=> page.saving /\ c.kind # "quota")
    /\ pg.rowBusy # None => d.kind = "remove" \/ (page.rowBusy # None /\ c.kind # "remove")

SameFlags(pg, qg) ==
    pg.loading = qg.loading /\ pg.saving = qg.saving /\ pg.rowBusy = qg.rowBusy

LEMMA OverIsIdle ==
    /\ ~Fetches(Over) /\ Over.stage # "listing"
    /\ Over.kind \notin {"load", "quota", "remove"}
BY DEF Over, Fetches

\* What refresh() and the finally blocks do to the flags.
LEMMA FlagsOfThePage ==
    ASSUME NEW pg \in PageSet, NEW k \in Slot, NEW c
    PROVE  /\ SameFlags(clearDraft(pg), pg)
           /\ Refreshing(pg, c).saving = pg.saving
           /\ Refreshing(pg, c).rowBusy = pg.rowBusy
           /\ c = None => Refreshing(pg, c).loading = pg.loading
           /\ Finally(pg, k).loading = IF calls[k].kind = "load" THEN FALSE ELSE pg.loading
           /\ Finally(pg, k).saving = IF calls[k].kind = "quota" THEN FALSE ELSE pg.saving
           /\ Finally(pg, k).rowBusy
                 = IF calls[k].kind = "remove" THEN None ELSE pg.rowBusy
BY DEF PageSet, SameFlags, clearDraft, Refreshing, Finally

\* One function starts, goes on or ends.
LEMMA FlagsFollow ==
    ASSUME FlagsHeld, calls \in [Slot -> Call \cup {Over}],
           NEW k \in Slot, NEW d, calls' = [calls EXCEPT ![k] = d],
           Follows(calls[k], d, page')
    PROVE  FlagsHeld'
<1>1. calls'[k] = d /\ \A j \in Slot \ {k} : calls'[j] = calls[j]
  OBVIOUS
<1>2. \A j \in Slot : calls'[j].stage = "listing" => calls'[j].kind = "load"
  BY <1>1 DEF FlagsHeld, Follows
<1>3. page'.loading => \E j \in Slot : Fetches(calls'[j])
  <2>1. CASE Fetches(d)
    BY <1>1, <2>1
  <2>2. CASE page.loading /\ ~Fetches(calls[k])
    <3>1. PICK j \in Slot : Fetches(calls[j])
      BY <2>2 DEF FlagsHeld
    <3>2. calls'[j] = calls[j]
      BY <1>1, <2>2, <3>1
    <3> QED
      BY <3>1, <3>2
  <2> QED
    BY <2>1, <2>2 DEF Follows
<1>4. /\ \A i, j \in Slot : calls'[i].kind = "quota" /\ calls'[j].kind = "quota" => i = j
      /\ page'.saving <=> \E j \in Slot : calls'[j].kind = "quota"
  <2>1. CASE d.kind = "quota"
    <3>1. \A j \in Slot \ {k} : calls[j].kind # "quota"
      BY <2>1 DEF FlagsHeld, Follows
    <3> QED
      BY <1>1, <2>1, <3>1 DEF Follows
  <2>2. CASE d.kind # "quota"
    <3>1. CASE calls[k].kind = "quota"
      <4>1. \A j \in Slot \ {k} : calls[j].kind # "quota"
        BY <3>1 DEF FlagsHeld
      <4> QED
        BY <1>1, <2>2, <3>1, <4>1 DEF Follows
    <3>2. CASE calls[k].kind # "quota"
      <4>1. \A j \in Slot : calls'[j].kind = "quota" <=> calls[j].kind = "quota"
        BY <1>1, <2>2, <3>2
      <4> QED
        BY <2>2, <3>2, <4>1 DEF FlagsHeld, Follows
    <3> QED
      BY <3>1, <3>2
  <2> QED
    BY <2>1, <2>2
<1>5. page'.rowBusy # None => \E j \in Slot : calls'[j].kind = "remove"
  <2>1. CASE d.kind = "remove"
    BY <1>1, <2>1
  <2>2. CASE page.rowBusy # None /\ calls[k].kind # "remove"
    <3>1. PICK j \in Slot : calls[j].kind = "remove"
      BY <2>2 DEF FlagsHeld
    <3>2. calls'[j] = calls[j]
      BY <1>1, <2>2, <3>1
    <3> QED
      BY <3>1, <3>2
  <2> QED
    BY <2>1, <2>2 DEF Follows
<1> QED
  BY <1>2, <1>3, <1>4, <1>5 DEF FlagsHeld, Fetches

\* Nothing starts and nothing ends.
LEMMA FlagsStay ==
    ASSUME FlagsHeld, UNCHANGED calls, SameFlags(page', page)
    PROVE  FlagsHeld'
BY DEF FlagsHeld, SameFlags, Fetches

\* A click starts a function in a free slot.
LEMMA FlagsOfClick ==
    ASSUME FlagsHeld, calls \in [Slot -> Call \cup {Over}],
           NEW kind, NEW stage, NEW c, NEW rows, Starts(kind, stage, c, rows),
           stage = "listing" => kind = "load",
           page'.loading => page.loading \/ stage = "listing" \/ stage = "reading",
           IF kind = "quota" THEN page'.saving /\ ~page.saving
                             ELSE page'.saving = page.saving,
           page'.rowBusy = page.rowBusy \/ kind = "remove"
    PROVE  FlagsHeld'
<1> DEFINE d == [kind |-> kind, stage |-> stage, client |-> c, rows |-> rows,
                 reads |-> IF stage = "reading" THEN Panel ELSE {}]
<1>1. PICK k \in Slot : calls[k] = Over /\ calls' = [calls EXCEPT ![k] = d]
  BY DEF Starts
<1>2. d.kind = kind /\ d.stage = stage /\ (stage \in {"listing", "reading"} => Fetches(d))
  BY DEF Fetches, Panel
<1> HIDE DEF d
<1>3. Follows(calls[k], d, page')
  BY <1>1, <1>2, OverIsIdle DEF Follows
<1> QED
  BY <1>1, <1>3, FlagsFollow

LEMMA ClicksFlagged ==
    ASSUME ConsoleInv, FlagsHeld,
           \/ LoadAll \/ discardDraft \/ saveAliases \/ onReturnToUnrestricted \/ Confirm
           \/ \E c \in Client : onClientChange(c)
           \/ \E a \in Alias : \/ addDraftAlias(a) \/ removeDraftAlias(a)
                               \/ submitQuota(a) \/ onDelete(a)
    PROVE  FlagsHeld'
<1>0. calls \in [Slot -> Call \cup {Over}] /\ page \in PageSet /\ dialog \in Dialog
  BY DEF ConsoleInv, CallsShaped, Good
<1>1. CASE LoadAll
  <2>1. page'.saving = page.saving /\ page'.rowBusy = page.rowBusy
    BY <1>0, <1>1 DEF LoadAll, PageSet
  <2> QED
    BY <1>0, <1>1, <2>1, FlagsOfClick DEF LoadAll
<1>2. CASE discardDraft
  BY <1>0, <1>2, FlagsStay DEF discardDraft, SameFlags, PageSet
<1>3. CASE saveAliases
  <2>1. SameFlags(page', page)
    BY <1>0, <1>3 DEF saveAliases, SameFlags, PageSet
  <2> QED
    BY <1>0, <1>3, <2>1, FlagsOfClick DEF saveAliases, SameFlags
<1>4. CASE onReturnToUnrestricted
  BY <1>4, FlagsStay DEF onReturnToUnrestricted, SameFlags
<1>5. CASE Confirm
  <2>1. CASE UNCHANGED <<page, calls>>
    BY <2>1, FlagsStay DEF SameFlags
  <2>2. CASE /\ Starts(dialog.about, "sent", page.selected, dialog.rows)
             /\ page' = IF dialog.about = "clear" THEN [page EXCEPT !.accessSaving = TRUE]
                        ELSE [page EXCEPT !.rowBusy = CHOOSE a \in dialog.rows : TRUE]
    <3>1. dialog.about \in {"clear", "remove"}
      BY <1>0, <1>5 DEF Confirm, Dialog
    <3>2. /\ page'.loading = page.loading /\ page'.saving = page.saving
          /\ page'.rowBusy = page.rowBusy \/ dialog.about = "remove"
      BY <1>0, <2>2, <3>1 DEF PageSet
    <3> QED
      BY <1>0, <2>2, <3>1, <3>2, FlagsOfClick
  <2> QED
    BY <1>5, <2>1, <2>2 DEF Confirm
<1>6. ASSUME NEW c \in Client, onClientChange(c)
      PROVE  FlagsHeld'
  <2> DEFINE pg == [page EXCEPT !.selected = c]
  <2>1. pg \in PageSet /\ SameFlags(pg, page)
    BY <1>0, <1>6 DEF onClientChange, PageSet, SameFlags
  <2>2. page' = Refreshing(clearDraft(pg), c)
    BY <1>6 DEF onClientChange
  <2> HIDE DEF pg
  <2>3. clearDraft(pg) \in PageSet /\ SameFlags(clearDraft(pg), pg)
    BY <2>1 DEF clearDraft, PageSet, Rows, SameFlags
  <2>4. \A qg \in PageSet : /\ Refreshing(qg, c).saving = qg.saving
                            /\ Refreshing(qg, c).rowBusy = qg.rowBusy
    BY FlagsOfThePage
  <2>5. page'.saving = page.saving /\ page'.rowBusy = page.rowBusy
    BY <2>1, <2>2, <2>3, <2>4 DEF SameFlags
  <2> QED
    BY <1>0, <1>6, <2>5, FlagsOfClick DEF onClientChange
<1>7. ASSUME NEW a \in Alias, addDraftAlias(a) \/ removeDraftAlias(a)
      PROVE  FlagsHeld'
  BY <1>0, <1>7, FlagsStay DEF addDraftAlias, removeDraftAlias, SameFlags, PageSet
<1>8. ASSUME NEW a \in Alias, submitQuota(a)
      PROVE  FlagsHeld'
  <2>1. /\ page'.loading = page.loading /\ page'.rowBusy = page.rowBusy
        /\ page'.saving /\ ~page.saving
    BY <1>0, <1>8 DEF submitQuota, submittable, PageSet
  <2> QED
    BY <1>0, <1>8, <2>1, FlagsOfClick DEF submitQuota
<1>9. ASSUME NEW a \in Alias, onDelete(a)
      PROVE  FlagsHeld'
  BY <1>9, FlagsStay DEF onDelete, SameFlags
<1> QED
  BY <1>1, <1>2, <1>3, <1>4, <1>5, <1>6, <1>7, <1>8, <1>9

\* A function goes on to refresh(), or ends.
LEMMA RefreshesFlagged ==
    ASSUME FlagsHeld, calls \in [Slot -> Call \cup {Over}],
           NEW k \in Slot, NEW pg \in PageSet, SameFlags(pg, page),
           Fetches(calls[k]) => calls[k].kind = "load",
           \/ Refreshes(k, pg)
           \/ page' = Finally(pg, k) /\ calls' = [calls EXCEPT ![k] = Over]
    PROVE  FlagsHeld'
<1> DEFINE shown == Refreshing(pg, pg.selected)
           d == [kind |-> calls[k].kind, stage |-> "reading", client |-> pg.selected,
                 rows |-> {}, reads |-> Panel]
<1>1. ASSUME NEW qg \in PageSet, SameFlags(qg, page),
             page' = Finally(qg, k), calls' = [calls EXCEPT ![k] = Over]
      PROVE  FlagsHeld'
  <2>1. Follows(calls[k], Over, page')
    BY <1>1, FlagsOfThePage, OverIsIdle DEF Follows, SameFlags
  <2> QED
    BY <1>1, <2>1, FlagsFollow
<1>2. CASE pg.selected = None /\ page' = Finally(shown, k)
           /\ calls' = [calls EXCEPT ![k] = Over]
  <2>1. shown \in PageSet
    BY <1>2 DEF Refreshing, PageSet, Rows
  <2>2. SameFlags(shown, page)
    BY <1>2, FlagsOfThePage DEF SameFlags
  <2> HIDE DEF shown
  <2> QED
    BY <1>1, <1>2, <2>1, <2>2
<1>3. CASE page' = shown /\ calls' = [calls EXCEPT ![k] = d]
  <2>1. Fetches(d) /\ d.kind = calls[k].kind /\ d.stage # "listing"
    BY DEF Fetches, Panel
  <2>2. page'.saving = page.saving /\ page'.rowBusy = page.rowBusy
    BY <1>3, FlagsOfThePage DEF SameFlags
  <2> HIDE DEF d
  <2>3. calls[k].kind = "quota" => page.saving
    BY DEF FlagsHeld
  <2>4. Follows(calls[k], d, page')
    BY <2>1, <2>2, <2>3 DEF Follows
  <2> QED
    BY <1>3, <2>4, FlagsFollow
<1> QED
  BY <1>1, <1>2, <1>3 DEF Refreshes

\* The gateway executes a write, and the answers reach the page.
LEMMA AnswersFlagged ==
    ASSUME ConsoleInv, FlagsHeld, NEW k \in Slot,
           Write(k) \/ WriteHeard(k) \/ loadClients(k)
    PROVE  FlagsHeld'
<1>0. /\ calls \in [Slot -> Call \cup {Over}] /\ page \in PageSet
      /\ calls[k].stage = "listing" => calls[k].kind = "load"
  BY DEF ConsoleInv, CallsShaped, Good, FlagsHeld
<1>1. CASE Write(k)
  <2>0. calls[k] \in Call /\ calls[k].stage = "sent" /\ UNCHANGED page
    BY <1>0, <1>1, OverIsNoCall DEF Write
  <2>1. PICK next \in {"gone", "replied"} : calls' = [calls EXCEPT ![k].stage = next]
    BY <1>1 DEF Write
  <2> DEFINE d == [calls[k] EXCEPT !.stage = next]
  <2>2. calls' = [calls EXCEPT ![k] = d]
    BY <2>1
  <2>3. d.kind = calls[k].kind /\ d.stage # "listing" /\ ~Fetches(calls[k])
    BY <2>0, <2>1 DEF Call, Fetches
  <2>4. calls[k].kind = "quota" => page.saving
    BY DEF FlagsHeld
  <2> HIDE DEF d
  <2>5. Follows(calls[k], d, page')
    BY <2>0, <2>3, <2>4 DEF Follows
  <2> QED
    BY <1>0, <2>2, <2>5, FlagsFollow
<1>2. CASE WriteHeard(k)
  <2>1. ~Fetches(calls[k])
    BY <1>2 DEF WriteHeard, Fetches
  <2> QED
    BY <1>0, <1>2, <2>1, RefreshesFlagged DEF WriteHeard, Ends, SameFlags
<1>3. CASE loadClients(k)
  <2>1. calls[k].kind = "load"
    BY <1>0, <1>3 DEF loadClients
  <2>2. CASE Ends(k)
    BY <1>0, <2>1, <2>2, RefreshesFlagged DEF Ends, SameFlags
  <2>3. ASSUME NEW live \in SUBSET Client,
               NEW pg \in Select([page EXCEPT !.clients = live], live),
               Refreshes(k, pg)
        PROVE  FlagsHeld'
    <3>1. pg \in PageSet /\ SameFlags(pg, page)
      <4> DEFINE listed == [page EXCEPT !.clients = live]
      <4>1. listed \in PageSet /\ SameFlags(listed, page)
        BY <1>0 DEF PageSet, SameFlags
      <4> HIDE DEF listed
      <4>2. pg \in Select(listed, live)
        BY <2>3 DEF listed
      <4>3. ASSUME NEW c \in Client \cup {None},
                   pg = clearDraft([listed EXCEPT !.selected = c])
            PROVE  pg \in PageSet /\ SameFlags(pg, page)
        BY <4>1, <4>3 DEF clearDraft, PageSet, Rows, SameFlags
      <4> QED
        BY <4>1, <4>2, <4>3 DEF Select
    <3> QED
      BY <1>0, <2>1, <2>3, <3>1, RefreshesFlagged
  <2> QED
    BY <1>3, <2>2, <2>3 DEF loadClients
<1> QED
  BY <1>1, <1>2, <1>3

\* A panel's rows reach the page: the panel of quotas lowers the flag, with rows
\* or without.
LEMMA ArriveFlagged ==
    ASSUME ConsoleInv, FlagsHeld, NEW k \in Slot, NEW p \in Panel, Arrive(k, p)
    PROVE  FlagsHeld'
<1>0. /\ calls \in [Slot -> Call \cup {Over}] /\ page \in PageSet /\ gateway \in Gateway
      /\ calls[k].stage = "reading" /\ p \in calls[k].reads
  BY DEF ConsoleInv, CallsShaped, Good, Arrive
<1>1. calls[k] \in Call /\ calls[k].client \in Client
  BY <1>0, OverIsNoCall DEF ConsoleInv, CallsShaped, Shaped
<1>2. PICK answer \in Answer \cup {None} : page' = Returned(k, p, Shown(p, answer))
  <2>1. \A q \in Panel : Describe(calls[k].client, q) \in Answer
    BY <1>0, <1>1 DEF Describe, Answer, Gateway, Panel
  <2> QED
    BY <2>1 DEF Arrive
<1> DEFINE shown == Shown(p, answer)
<1>3. /\ shown \in PageSet /\ shown.saving = page.saving /\ shown.rowBusy = page.rowBusy
      /\ shown.loading => p = "access" /\ page.loading
  <2>1. (IF answer = None THEN {} ELSE answer.rows) \in Rows
    BY DEF Answer, Rows
  <2> QED
    BY <1>0, <2>1 DEF Shown, PageSet, Panel
<1> HIDE DEF shown
<1>4. CASE LastBack(k, p)
  <2>1. page' = Finally(shown, k) /\ calls' = [calls EXCEPT ![k] = Over]
    BY <1>2, <1>4 DEF Returned, Arrive, shown
  <2>2. p = "access" => ~Fetches(calls[k])
    BY <1>0, <1>4 DEF LastBack, Fetches
  <2>3. Follows(calls[k], Over, page')
    BY <1>3, <2>1, <2>2, FlagsOfThePage, OverIsIdle DEF Follows
  <2> QED
    BY <1>0, <2>1, <2>3, FlagsFollow
<1>5. CASE ~LastBack(k, p)
  <2> DEFINE d == [calls[k] EXCEPT !.reads = calls[k].reads \ {p}]
  <2>1. page' = shown
    BY <1>2, <1>5 DEF Returned, shown
  <2>2. calls' = [calls EXCEPT ![k] = IF LastBack(k, p) THEN Over ELSE d]
    BY Zenon DEF Arrive
  <2>3. calls' = [calls EXCEPT ![k] = d]
    BY <1>5, <2>2
  <2>4. /\ d.kind = calls[k].kind /\ d.stage = "reading"
        /\ p = "access" /\ Fetches(calls[k]) => Fetches(d)
    BY <1>0, <1>1 DEF Call, Fetches
  <2>5. calls[k].kind = "quota" => page.saving
    BY DEF FlagsHeld
  <2> HIDE DEF d
  <2>6. Follows(calls[k], d, page')
    BY <1>3, <2>1, <2>4, <2>5 DEF Follows
  <2> QED
    BY <1>0, <2>3, <2>6, FlagsFollow
<1> QED
  BY <1>4, <1>5

LEMMA FlagsInit == Init => FlagsHeld
<1> SUFFICES ASSUME Init PROVE FlagsHeld
  OBVIOUS
<1>1. PICK k \in Slot :
          calls = [s \in Slot |->
                      IF s = k THEN [kind |-> "load", stage |-> "listing", client |-> None,
                                     rows |-> {}, reads |-> {}] ELSE Over]
  BY DEF Init
<1>2. Fetches(calls[k]) /\ calls[k].kind = "load"
  BY <1>1 DEF Fetches
<1>3. \A s \in Slot \ {k} : calls[s] = Over
  BY <1>1
<1>4. ~page.saving /\ page.rowBusy = None
  BY DEF Init
<1> QED
  BY <1>2, <1>3, <1>4, OverIsIdle DEF FlagsHeld

LEMMA FlagsStep ==
    ASSUME ConsoleInv, FlagsHeld, [Next]_vars
    PROVE  FlagsHeld'
<1>1. CASE UNCHANGED vars
  BY <1>1, FlagsStay DEF vars, SameFlags
<1>2. ASSUME NEW c \in Client, OtherOperator(c)
      PROVE  FlagsHeld'
  BY <1>2, FlagsStay DEF OtherOperator, SameFlags
<1> QED
  BY <1>1, <1>2, ClicksFlagged, AnswersFlagged, ArriveFlagged DEF Next

-----------------------------------------------------------------------------
(* The theorems                                                             *)

\* The inductive invariant holds of every behaviour.
THEOREM ConsoleInvariant == Spec => []ConsoleInv
<1>1. ConsoleInv /\ [Next]_vars => ConsoleInv'
  BY ConsoleStep
<1> QED
  BY ConsoleInit, <1>1, PTL DEF Spec

\* The page, its calls and the gateway are well typed; a selected client is one
\* of the list.
THEOREM ConsoleTypeCorrect == Spec => []TypeOK
<1>1. ConsoleInv => TypeOK
  BY DEF ConsoleInv, Good, PageSet, Gateway, Dialog, CallsShaped, TypeOK
<1> QED
  BY ConsoleInvariant, <1>1, PTL

\* The writes of the allowlist that QuotasView.vue sends never overlap, however
\* many functions are under way and whatever is clicked between their awaits.
THEOREM WritesDoNotOverlap == Spec => []OneWriteAtATime
<1>1. ConsoleInv => OneWriteAtATime
  <2> SUFFICES ASSUME ConsoleInv PROVE OneWriteAtATime
    OBVIOUS
  <2> DEFINE writing == {k \in Slot : calls[k].kind \in {"save", "clear"}}
  <2>1. writing = {} \/ \E k \in Slot : writing = {k}
    BY DEF ConsoleInv, OneWriter, Writes
  <2>2. Cardinality(writing) <= 1
    <3>1. \A k : Cardinality({k}) = 1
      BY FS_Singleton
    <3>2. Cardinality({}) = 0
      BY FS_EmptySet
    <3> HIDE DEF writing
    <3>3. Cardinality(writing) = 0 \/ Cardinality(writing) = 1
      BY <2>1, <3>1, <3>2, Zenon
    <3> QED
      BY <3>3
  <2>3. page.accessSaving <=> writing # {}
    BY DEF ConsoleInv, OneWriter, Writes
  <2> QED
    BY <2>2, <2>3 DEF OneWriteAtATime
<1> QED
  BY ConsoleInvariant, <1>1, PTL

\* No flag of the page outlives the functions that are to lower it, so nothing
\* stays disabled: loading, saving and rowBusy of QuotasView.vue, which any
\* number of functions share.
THEOREM NothingStaysDisabled == Spec => []BusyMeansUnderWay
<1>1. ConsoleInv /\ FlagsHeld /\ [Next]_vars => FlagsHeld'
  BY FlagsStep
<1>2. FlagsHeld => BusyMeansUnderWay
  BY DEF FlagsHeld, Fetches, BusyMeansUnderWay
<1> QED
  BY ConsoleInvariant, FlagsInit, <1>1, <1>2, PTL DEF Spec

\* What the flags of QuotasView.vue say is true, in every order in which its
\* functions go on.
THEOREM FlagsTellTheTruth == Spec => []FlagsAreTrue
BY WritesDoNotOverlap, NothingStaysDisabled, PTL DEF FlagsAreTrue
=============================================================================
