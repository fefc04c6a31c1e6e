---------------------------- MODULE VolumeLister ----------------------------
(***************************************************************************)
(* The pages of ListVolumes and ListSnapshots (controllerserver.go and     *)
(* azure_snapshot_utils.go), and a client (a CSI sidecar) that follows the *)
(* tokens from the first page to the last. The resources do not change     *)
(* while the client pages: a token is a position in the lists of Azure.    *)
(***************************************************************************)
EXTENDS Integers, Sequences, FiniteSets, FiniteSetsExt

CONSTANTS
  NumGroups,  \* resource groups that hold volumes of the cluster
  MaxDisks,   \* bound: disks (or snapshots) of a resource group
  MaxLimit,   \* bound: max_entries of a request, 0 for no limit
  Apis        \* which listings the client asks for

(* "cluster": ListVolumes with a Kubernetes client; "group": without one;  *)
(* "snapshots": ListSnapshots. The last two list one resource group.       *)
Groups == 1 .. NumGroups

VARIABLES
  disks,         \* Azure: of each disk of each group, whether it belongs in the listing
  api, maxEntries, start,  \* the request: listing, max_entries, starting_token
  pc,            \* the client and the handler of its request
  group,         \* the resource group the handler lists next
  entries,       \* entries of the page so far: <<group, position>>
  numVisited, startFound, isCompleteRun,  \* locals of listVolumesInCluster
  seen           \* what the pages before this one listed

loop == <<group, numVisited, startFound, isCompleteRun>>
vars == <<disks, api, maxEntries, start, pc, entries, loop, seen>>

Lists == UNION {[1 .. n -> BOOLEAN] : n \in 0 .. MaxDisks}

Size(g) == Len(disks[g])

Wanted(g, from, to) == {i \in from .. to - 1 : disks[g][i + 1]}

(* What a complete listing holds.                                          *)
Listable ==
  UNION {{<<g, i>> : i \in Wanted(g, 0, Size(g))} : g \in IF api = "cluster" THEN Groups ELSE {1}}

Init ==
  /\ disks \in [Groups -> Lists]
  /\ api \in Apis /\ maxEntries \in 0 .. MaxLimit /\ start = 0
  /\ pc = "request"
  /\ group = 1 /\ entries = {} /\ numVisited = 0 /\ startFound = FALSE /\ isCompleteRun = TRUE
  /\ seen = {}

(* Nobody lists.                                                           *)
NoClient ==
  /\ disks = [g \in Groups |-> <<>>]
  /\ api = "cluster" /\ maxEntries = 0 /\ start = 0
  /\ pc = "idle"
  /\ group = 1 /\ entries = {} /\ numVisited = 0 /\ startFound = FALSE /\ isCompleteRun = TRUE
  /\ seen = {}

(* A page is full at the first position, from i on, where the entries, n   *)
(* of them before i, reach the limit; a limit below 1 is no limit.         *)
PageEnd(g, i, n, limit) ==
  Min({Size(g)} \cup {j \in i .. Size(g) : limit > 0 /\ n + Cardinality(Wanted(g, i, j)) >= limit})

listVolumesByResourceGroup(g, from, n, limit) ==
  LET first == IF from < 0 THEN 0 ELSE from
      last == PageEnd(g, first, n, limit)
  IN IF from > 0 /\ from >= Size(g)
     THEN [precondition |-> FALSE, numVisited |-> Size(g), isCompleteRun |-> TRUE, new |-> {}]
     ELSE [precondition |-> TRUE, numVisited |-> last - first, isCompleteRun |-> last = Size(g),
           new |-> {<<g, i>> : i \in Wanted(g, first, last)}]

(* The page goes to the client, with a token for the next one or 0.        *)
RespondWith(page, token) ==
  /\ entries' = page
  /\ start' = token
  /\ pc' = "page"
  /\ UNCHANGED <<disks, api, maxEntries, loop, seen>>

Fail ==
  /\ pc' = "failed"
  /\ UNCHANGED <<disks, api, maxEntries, start, entries, loop, seen>>

ListVolumes ==
  /\ pc = "request" /\ api = "cluster"
  /\ pc' = "listing"
  /\ group' = 1 /\ entries' = {} /\ numVisited' = 0 /\ startFound' = FALSE
  /\ isCompleteRun' = TRUE
  /\ UNCHANGED <<disks, api, maxEntries, start, seen>>

(* One pass of the loop over the resource groups. The start position       *)
(* counts from the first group; the limit shrinks by the entries found,    *)
(* which are compared with it again.                                       *)
PageFull == ~isCompleteRun \/ (maxEntries > 0 /\ Cardinality(entries) >= maxEntries)

listVolumesInCluster ==
  LET n == Cardinality(entries)
      localStart == IF startFound THEN 0 ELSE start - numVisited
      listStatus == listVolumesByResourceGroup(group, localStart, n, maxEntries - n)
  IN /\ pc = "listing" /\ group \in Groups /\ ~PageFull
     /\ group' = group + 1
     /\ numVisited' = numVisited + listStatus.numVisited
     /\ entries' = entries \cup listStatus.new
     /\ startFound' = (startFound \/ listStatus.precondition)
     /\ isCompleteRun' = listStatus.isCompleteRun
     /\ UNCHANGED <<disks, api, maxEntries, start, pc, seen>>

(* Mutant: the token counts the disks of this page only.                   *)
NextTokenOfPage == IF isCompleteRun /\ group > NumGroups THEN 0 ELSE numVisited

NextToken == IF isCompleteRun /\ group > NumGroups THEN 0 ELSE start + numVisited

ClusterPage ==
  /\ pc = "listing"
  /\ group \notin Groups \/ PageFull
  /\ IF start > 0 /\ ~startFound THEN Fail ELSE RespondWith(entries, NextToken)

(* Without a Kubernetes client: the token is what this call visited.       *)
listVolumesInNodeResourceGroup ==
  LET listStatus == listVolumesByResourceGroup(1, start, 0, maxEntries)
  IN /\ pc = "request" /\ api = "group"
     /\ IF listStatus.precondition
        THEN RespondWith(listStatus.new,
                         IF listStatus.isCompleteRun THEN 0 ELSE listStatus.numVisited)
        ELSE Fail

(* Mutant: the token of a page of snapshots skips a position.              *)
LateSnapshotToken(last) == IF last + 1 < Size(1) THEN last + 1 ELSE 0

SnapshotToken(last) == IF last < Size(1) THEN last ELSE 0

GetEntriesAndNextToken ==
  LET left == Size(1) - start
      limit == IF maxEntries > 0 /\ maxEntries < left THEN maxEntries ELSE left
      last == IF limit = 0 THEN start ELSE PageEnd(1, start, 0, limit)
  IN /\ pc = "request" /\ api = "snapshots"
     /\ IF start > 0 /\ start >= Size(1)
        THEN Fail
        ELSE RespondWith({<<1, i>> : i \in Wanted(1, start, last)}, SnapshotToken(last))

(* Azure or Kubernetes does not answer.                                    *)
ListFails ==
  /\ pc \in {"request", "listing"}
  /\ Fail

(* The client keeps the entries and asks for the next page, if any; it     *)
(* starts over from the first page when it is done or had an error.        *)
FollowToken ==
  /\ pc = "page"
  /\ seen' = seen \cup entries
  /\ pc' = IF start = 0 THEN "done" ELSE "request"
  /\ UNCHANGED <<disks, api, maxEntries, start, entries, loop>>

StartOver ==
  /\ pc \in {"done", "failed"}
  /\ pc' = "request" /\ start' = 0 /\ entries' = {} /\ seen' = {}
  /\ maxEntries' \in 0 .. MaxLimit
  /\ UNCHANGED <<disks, api, loop>>

Respond ==
  \/ ListVolumes \/ listVolumesInCluster \/ ClusterPage
  \/ listVolumesInNodeResourceGroup \/ GetEntriesAndNextToken \/ FollowToken

Next == Respond \/ ListFails \/ StartOver

Spec == Init /\ [][Next]_vars

(* The client asks for the next page and the handler answers.              *)
FairSpec == Spec /\ WF_vars(Respond)

-----------------------------------------------------------------------------
(* The positions and counters of the handler stay in the lists.            *)
TypeOK ==
  /\ disks \in [Groups -> Lists] /\ api \in Apis /\ maxEntries \in 0 .. MaxLimit
  /\ start \in Nat /\ pc \in {"idle", "request", "listing", "page", "done", "failed"}
  /\ group \in 1 .. NumGroups + 1 /\ numVisited \in Nat
  /\ startFound \in BOOLEAN /\ isCompleteRun \in BOOLEAN
  /\ entries \subseteq Listable /\ seen \subseteq Listable

(* ListVolumes "return all available volumes", ListSnapshots "list all     *)
(* snapshots": when the last page has no token, the pages together held    *)
(* every one.                                                              *)
PagesListAll == pc = "done" => seen = Listable

(* Where one resource group holds all the disks (always so for             *)
(* ListSnapshots and listVolumesInNodeResourceGroup), the pages together   *)
(* hold every entry.                                                       *)
OneListComplete ==
  pc = "done" /\ (api # "cluster" \/ \A g \in Groups \ {1} : Size(g) = 0) => seen = Listable

(* A client that follows the tokens reaches a page without one (except     *)
(* without a Kubernetes client, where the token counts the disks of one    *)
(* page and leads back to it).                                             *)
PagingEnds == pc = "request" ~> pc \in {"done", "failed"} \/ api = "group"
=============================================================================
