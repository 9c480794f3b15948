-------------------------------- MODULE MCApi --------------------------------
(***************************************************************************)
(* The components of apps/api whose handlers share the requests of         *)
(* Handlers, and the lists that apps/admin shows of them: each state graph *)
(* begins in one scene and stays there, the variables of the other         *)
(* components keep their first values.                                     *)
(***************************************************************************)
EXTENDS Storefront, Accounts, Identity, Notices, AdminLists, TLC

VARIABLE scene

Symmetry == Permutations(Requests)

storefrontOwn ==
  <<tables, cached, by, doubts>>
accountsOwn == <<account, live, causes>>
identityOwn == <<store, userRows, uses>>
noticesOwn == <<tablesOfNotices, dashboard, desk, pushNotes, missed, lost>>
listsOwn == <<onServer, listPage, mounted, listData, listDialogs, unlisted>>
apiVars == <<storefrontOwn, accountsOwn, identityOwn, noticesOwn, listsOwn, handlers, scene>>

\* The first values of the components that are not on the scene.
QuietStorefront ==
  /\ course = "unborn" /\ info = 0 /\ lessons = {} /\ minted = 0 /\ studied = {}
  /\ reviews = {} /\ replies = {} /\ rating = {} /\ enrolled = {} /\ users = {}
  /\ orders = {} /\ charged = {} /\ purchased = 0 /\ holder = Nothing
  /\ cached = Nothing /\ overtaken = {} /\ torn = FALSE /\ crossed = FALSE
  /\ by = [p \in Reviews |-> Learner] /\ answers = [p \in Reviews |-> p]

QuietAccounts ==
  /\ row = Nothing /\ images = {} /\ sessions = {} /\ cachedRow = Nothing
  /\ sockets = {} /\ adminRoom = {}
  /\ stale = FALSE /\ reopened = FALSE /\ bare = FALSE /\ answered = FALSE
  /\ early = {} /\ misled = {} /\ late = {} /\ ghosts = {}

QuietIdentity ==
  /\ pending = [p \in Registrations |-> Nothing] /\ told = {}
  /\ codes = {} /\ states = {} /\ did = [r \in Requests |-> Nothing]
  /\ emails = {} /\ holderOf = [d \in Dids |-> Nothing]
  /\ guesses = {} /\ ended = {} /\ raced = {} /\ signIns = {} /\ shared = {}

QuietNotices ==
  /\ questions = {} /\ feed = {} /\ unread = {} /\ older = [r \in Requests |-> {}]
  /\ tokens = [f \in Phones |-> Nothing] /\ documents = Nothing /\ status = "none"
  /\ listed = {} /\ shown = {} /\ fetch = NoFetch /\ events = {}
  /\ marked = FALSE /\ queue = Nothing
  /\ lastOwner = [f \in Phones |-> Nothing] /\ reported = {}
  /\ missed = {} /\ omitted = {} /\ lost = {} /\ judged = Nothing /\ under = FALSE

QuietLists ==
  /\ onServer = [i \in ListItems |-> "gone"] /\ listPage = "courses" /\ mounted = FALSE
  /\ arg = "all" /\ listCache = [a \in Args |-> Nothing]
  /\ listing = [a \in Args |-> IdleList] /\ onPage = Nothing
  /\ dialog = Nothing /\ busyRow = Nothing /\ awaited = {} /\ followed = NotFollowed
  /\ unlisted = [a \in Args |-> {}]

\* Bound: of the calls on a list two are made, in the queue, which has two
\* lists, one, and nothing fails.
FewChanges ==
  LET unsent == {r \in Requests : step'[r] = "free"}
  IN  IF listPage = "queue" THEN Cardinality(unsent) > 1 /\ breaks' = 0 ELSE unsent # {}

\* In the storefront one of the requests is a read of the public view that
\* has missed the cache; there is a learner, who studied the first lesson.
MCInit ==
  \/ /\ scene = "storefront"
     /\ StorefrontInit
     /\ Cardinality({r \in Requests : step[r] = "row"}) = 1
     /\ breaks = 0 /\ cached = Nothing /\ Cardinality(studied) < 2
     /\ QuietAccounts /\ QuietIdentity /\ QuietNotices /\ QuietLists
  \/ /\ scene = "accounts" /\ AccountsInit
     /\ QuietStorefront /\ QuietIdentity /\ QuietNotices /\ QuietLists
  \/ /\ scene = "identity" /\ IdentityInit
     /\ QuietStorefront /\ QuietAccounts /\ QuietNotices /\ QuietLists
  \/ /\ scene = "notices" /\ NoticesInit
     /\ QuietStorefront /\ QuietAccounts /\ QuietIdentity /\ QuietLists
  \/ /\ scene = "lists" /\ ListsInit
     /\ QuietStorefront /\ QuietAccounts /\ QuietIdentity /\ QuietNotices

MCNext ==
  /\ UNCHANGED scene
  /\ \/ /\ scene = "storefront" /\ StorefrontNext
        /\ UNCHANGED <<accountsOwn, identityOwn, noticesOwn, listsOwn>>
     \/ /\ scene = "accounts" /\ AccountsNext
        /\ UNCHANGED <<storefrontOwn, identityOwn, noticesOwn, listsOwn>>
     \/ /\ scene = "identity" /\ IdentityNext
        /\ UNCHANGED <<storefrontOwn, accountsOwn, noticesOwn, listsOwn>>
     \/ /\ scene = "notices" /\ NoticesNext
        /\ UNCHANGED <<storefrontOwn, accountsOwn, identityOwn, listsOwn>>
     \/ /\ scene = "lists" /\ ListsNext /\ FewChanges
        /\ UNCHANGED <<storefrontOwn, accountsOwn, identityOwn, noticesOwn>>

MCSpec == MCInit /\ [][MCNext]_apiVars

\* Every component keeps its types.
ApiTypeOK ==
  /\ scene = "storefront" => StorefrontTypeOK
  /\ scene = "accounts" => AccountsTypeOK
  /\ scene = "identity" => IdentityTypeOK
  /\ scene = "notices" => NoticesTypeOK
  /\ scene = "lists" => ListsTypeOK
=============================================================================
