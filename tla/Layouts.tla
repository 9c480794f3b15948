------------------------------- MODULE Layouts -------------------------------
(***************************************************************************)
(* One layout of the site (FAQ, categories or banner): createLayout,       *)
(* editLayout and getLayoutByType of apps/api, and an editor of apps/admin *)
(* that loads the layout, changes it and saves it (EditFaq,                *)
(* EditCategories, EditHero).                                              *)
(*                                                                         *)
(* Each request is one call.  Of a layout the model keeps the set of its   *)
(* entries (the banner has one, which its edits replace).                  *)
(***************************************************************************)
EXTENDS Handlers

CONSTANT Entries   \* entries that a layout may have

VARIABLES
  layouts,     \* Layout rows of the type, by the request that made them (Nothing: seeded)
  refetches,   \* the editor refetches after a save: all but EditFaq do
  data,        \* what the editor's query has, Nothing before
  draft,       \* what its form has
  latestSave,  \* the save whose outcome the mutation hook shows
  outcome      \* "none", "success" or "error": its outcome

\* History.
VARIABLES
  removed,     \* entries that the author took out of the form
  kept,        \* entries that saves wrote and no later save took out
  stale,       \* the form went back to data from before a save
  excused      \* a save was made from such a form, or saves were served crosswise

layoutNotes == <<removed, kept, stale, excused>>
hook == <<latestSave, outcome>>
layoutVars == <<layouts, refetches, data, draft, hook, layoutNotes, handlers>>

LayoutSteps == {"free", "get", "got", "edit", "write", "edited", "refused",
                "insert", "done"}
Contents == SUBSET Entries
Makers == Requests \union {Nothing}

\* body: the entries that a call sends or was answered; without: those taken out
\* of the form that it saves; row: the row it found.
LayoutMemory == [body : Contents, without : Contents, row : Makers]

LayoutTypeOK ==
  /\ layouts \in [Makers -> [row : BOOLEAN, has : Contents]]
  /\ refetches \in BOOLEAN /\ stale \in BOOLEAN /\ excused \in BOOLEAN
  /\ data \in [known : BOOLEAN, has : Contents]
  /\ draft \in Contents /\ removed \in Contents /\ kept \in Contents
  /\ latestSave \in Makers
  /\ outcome \in {"none", "success", "error"}
  /\ step \in [Requests -> LayoutSteps]
  /\ mem \in [Requests -> LayoutMemory \union {Nothing}]
  /\ \A r \in Requests : step[r] \notin {"free", "done"} => mem[r] \in LayoutMemory
  /\ breaks \in 0..MaxBreaks

Rows == {m \in Makers : layouts[m].row}
Saving == {r \in Requests : step[r] \in {"edit", "write"}}
Sent(body) == [body |-> body, without |-> {}, row |-> Nothing]

\* These entries are not those of a row, or may soon be no more.
Outdated(entries) == Saving # {} \/ \A w \in Rows : layouts[w].has # entries

-----------------------------------------------------------------------------
\* createLayout looks for a row of the type, and makes one.
BeginLayout(r, body) ==
  /\ step[r] = "free" /\ Rows = {}
  /\ GoesWith(r, "insert", Sent(body))
  /\ UNCHANGED <<layouts, refetches, data, draft, hook, layoutNotes, breaks>>

InsertLayout(r) ==
  /\ step[r] = "insert"
  /\ Goes(r, "done")
  /\ layouts' = [layouts EXCEPT ![r] = [row |-> TRUE, has |-> mem[r].body]]
  /\ excused' = (excused \/ Rows # {})
  /\ UNCHANGED <<refetches, data, draft, hook, removed, kept, stale, breaks>>

\* A query that is being fetched is not fetched again (RTK Query).
Fetching == \E q \in Requests : step[q] \in {"get", "got"}

\* The editor is opened: refetchOnMountOrArgChange.
Mount(r) ==
  /\ step[r] = "free"
  /\ IF Fetching THEN UNCHANGED <<step, mem>> ELSE GoesWith(r, "get", Sent({}))
  /\ draft' = data.has /\ latestSave' = Nothing /\ outcome' = "none"
  /\ removed' = {} /\ stale' = Outdated(data.has)
  /\ UNCHANGED <<layouts, refetches, data, kept, excused, breaks>>

\* getLayoutByType.
ServeGet(r) ==
  /\ step[r] = "get"
  /\ \/ \E w \in Rows : GoesWith(r, "got", [Sent(layouts[w].has) EXCEPT !.row = w])
     \/ Rows = {} /\ Goes(r, "done")
  /\ UNCHANGED <<layouts, refetches, data, draft, hook, layoutNotes, breaks>>

\* Mutant of Filled: the form ignores what a refetch brings.
FilledOnce(r) == IF data.known THEN draft ELSE mem[r].body

\* The effect on `data` fills the form, when the answer is a new one.
Filled(r) == IF data.known /\ data.has = mem[r].body THEN draft ELSE mem[r].body

\* After a success the effect refetches again, once the data have changed.
Got(r) ==
  /\ step[r] = "got"
  /\ data' = [known |-> TRUE, has |-> mem[r].body]
  /\ IF data' # data /\ refetches /\ outcome = "success"
     THEN GoesWith(r, "get", Sent({})) ELSE Goes(r, "done")
  /\ draft' = Filled(r)
  /\ removed' = IF data'= data THEN removed ELSE {}
  /\ stale' = Outdated(mem[r].body)
  /\ UNCHANGED <<layouts, refetches, hook, kept, excused, breaks>>

\* The author adds an entry, or takes one out.
Compose(x) ==
  /\ data.known
  /\ \/ x \notin draft /\ draft' = draft \union {x} /\ removed' = removed \ {x}
     \/ x \in draft /\ draft' = draft \ {x} /\ removed' = removed \union {x}
  /\ UNCHANGED <<layouts, refetches, data, hook, kept, stale, excused, handlers>>

-----------------------------------------------------------------------------
\* Whenever isSuccess or error changes, the effect fills the form with the
\* data from before the save.
Reset(changed) ==
  /\ draft' = IF changed THEN data.has ELSE draft
  /\ removed' = IF changed THEN {} ELSE removed

\* A changed form is saved; the author need not wait for the answer.  The
\* hook forgets the outcome of the save before.
SaveLayout(r) ==
  /\ step[r] = "free" /\ data.known /\ draft # data.has
  /\ GoesWith(r, "edit", [Sent(draft) EXCEPT !.without = removed])
  /\ latestSave' = r /\ outcome' = "none"
  /\ Reset(outcome # "none")
  /\ stale' = (stale \/ outcome # "none")
  /\ excused' = (excused \/ stale \/ Saving # {})
  /\ UNCHANGED <<layouts, refetches, data, kept, breaks>>

\* editLayout looks for the row ...
FindLayout(r) ==
  /\ step[r] = "edit"
  /\ \/ \E w \in Rows : GoesWith(r, "write", [mem[r] EXCEPT !.row = w])
     \/ Rows = {} /\ Goes(r, "refused")
  /\ UNCHANGED <<layouts, refetches, data, draft, hook, layoutNotes, breaks>>

\* The call is lost on its way, or the upload or the database fails under it.
SaveFails(r) ==
  /\ step[r] \in {"edit", "write"}
  /\ breaks < MaxBreaks /\ breaks' = breaks + 1
  /\ Goes(r, "refused")
  /\ UNCHANGED <<layouts, refetches, data, draft, hook, layoutNotes>>

\* ... and writes all of its entries.  Its answer may be lost.
WriteLayout(r) ==
  /\ step[r] = "write"
  /\ layouts' = [layouts EXCEPT ![mem[r].row].has = mem[r].body]
  /\ \/ Goes(r, "edited") /\ UNCHANGED breaks
     \/ breaks < MaxBreaks /\ breaks' = breaks + 1 /\ Goes(r, "refused")
  /\ kept' = (kept \ mem[r].without) \union mem[r].body
  /\ UNCHANGED <<refetches, data, draft, hook, removed, stale, excused>>

\* The hook shows the outcome of the latest save.  After a success the query
\* is refetched, by some editors.
SavedLayout(r) ==
  /\ step[r] \in {"edited", "refused"}
  /\ Reset(r = latestSave)
  /\ stale' = IF r = latestSave THEN Outdated(data.has) ELSE stale
  /\ outcome' = IF r # latestSave THEN outcome
                ELSE IF step[r] = "edited" THEN "success" ELSE "error"
  /\ IF r = latestSave /\ step[r] = "edited" /\ refetches /\ ~Fetching
     THEN GoesWith(r, "get", Sent({})) ELSE Goes(r, "done")
  /\ UNCHANGED <<layouts, refetches, data, latestSave, kept, excused, breaks>>

-----------------------------------------------------------------------------
LayoutCall(r) ==
  \/ \E body \in Contents : BeginLayout(r, body)
  \/ InsertLayout(r) \/ Mount(r) \/ ServeGet(r) \/ Got(r)
  \/ SaveLayout(r) \/ FindLayout(r) \/ SaveFails(r) \/ WriteLayout(r)
  \/ SavedLayout(r)

RestLayout == AtRest /\ UNCHANGED layoutVars

LayoutNext ==
  \/ \E r \in Requests : LayoutCall(r)
  \/ \E x \in Entries : Compose(x)
  \/ RestLayout

LayoutInit ==
  /\ \E made \in SUBSET {Nothing}, body \in Contents :
       layouts = [m \in Makers |-> [row |-> m \in made,
                                   has |-> IF m \in made THEN body ELSE {}]]
  /\ step = [r \in Requests |-> "free"]
  /\ refetches \in BOOLEAN
  /\ data = [known |-> FALSE, has |-> {}] /\ draft = {}
  /\ latestSave = Nothing /\ outcome = "none"
  /\ removed = {} /\ kept = {} /\ stale = FALSE /\ excused = FALSE
  /\ mem = [r \in Requests |-> Nothing] /\ breaks = 0

LayoutSpec == LayoutInit /\ [][LayoutNext]_layoutVars

-----------------------------------------------------------------------------
\* Properties.

\* What a save wrote and no later one took out stays in the layout, however
\* saves fail, unless a save was made from a form that had gone back to the
\* layout before an earlier save, or together with another save, or into one of
\* two rows (the effects of EditFaq, EditCategories, EditHero).
SavedEntriesStay == excused \/ \A w \in Rows : kept \subseteq layouts[w].has
=============================================================================
