------------------------------- MODULE Listing -------------------------------
(***************************************************************************)
(* ListObjects page by page while objects come and go.  What a listing     *)
(* collects are directory entries: the flat file or the `.ec` directory of *)
(* a key, and a key may have both, when a PUT in one format left the file  *)
(* of the other behind.  An entry is its place in the byte order of keys.  *)
(* Keys that share a common prefix at the delimiter share a group, and     *)
(* stand next to each other; group 0 is no delimiter at all.               *)
(***************************************************************************)
EXTENDS Naturals, Sequences, FiniteSetsExt

CONSTANTS
  LastEntry,     \* entries are 1 .. LastEntry
  KeyOf,         \* entry -> its key's place among the keys
  GroupOf,       \* entry -> the group of its key
  Prefixed,      \* the entries whose keys begin with the prefix asked for
  CaseTwins,     \* those whose keys do so but for upper and lower case
  MaxChanges     \* bound on changes during a listing

ListedEntry == 1 .. LastEntry

ASSUME ListingAssumption ==
  /\ LastEntry \in Nat /\ MaxChanges \in Nat
  /\ KeyOf \in [ListedEntry -> Nat \ {0}] /\ GroupOf \in [ListedEntry -> Nat]
  /\ Prefixed \subseteq ListedEntry /\ CaseTwins \subseteq ListedEntry \ Prefixed
  /\ \A d, e \in ListedEntry : d <= e => KeyOf[d] <= KeyOf[e]
  /\ \A d, e \in ListedEntry : KeyOf[d] = KeyOf[e] =>
       GroupOf[d] = GroupOf[e] /\ (d \in Prefixed <=> e \in Prefixed)
  /\ \A i, j, k \in ListedEntry : i < j /\ j < k /\ GroupOf[i] = GroupOf[k] /\ GroupOf[i] # 0
       => GroupOf[j] = GroupOf[i]

VARIABLES
  present,       \* the entries there are; their keys are the objects of the bucket
  unsettled,     \* keys in the middle of a change, which a walk cannot see: the sidecar
                 \* is cut and not filled, or the `.ec` directory is moved aside
  indexed,       \* the server keeps a metadata index
  pager,         \* the client's listing and the page being made
  pages,         \* the pages it has: [contents, prefixes]
  steady,        \* history: entries that were there all the time
  rewritten,     \* history: keys that were unsettled at some time
  everSeen,      \* history: entries that were there at some time
  changes

bucketVars == <<present, unsettled, indexed, changes>>
listHistory == <<steady, rewritten, everSeen>>
listVars == <<bucketVars, pager, pages, listHistory>>

NoPager == [pc |-> "idle", start |-> 0, first |-> 0, max |-> 0, delim |-> FALSE,
            unseen |-> {}, found |-> {}]

ListInit ==
  /\ present \in {ListedEntry, ListedEntry \ {2}}
  /\ unsettled = {}
  /\ indexed \in BOOLEAN
  /\ pager = NoPager /\ pages = <<>>
  /\ steady = {} /\ rewritten = {} /\ everSeen = {} /\ changes = 0

\* parse_max_keys: an absent one is 1000, a larger one is cut to that.
MaxKeys == {0, 1, 2, 1000}

\* The first request: start is start-after or marker, 0 if there is none.
StartListing(start, max, delim) ==
  /\ pager.pc = "idle"
  /\ pager' = [pc |-> "list", start |-> start, first |-> start, max |-> max,
               delim |-> delim, unseen |-> ListedEntry, found |-> {}]
  /\ steady' = present /\ rewritten' = unsettled /\ everSeen' = present
  /\ UNCHANGED <<bucketVars, pages>>

\* The index has one row for a key.
Rows(entries) == {e \in entries : \A d \in entries : d < e => KeyOf[d] # KeyOf[e]}

\* MetadataIndex::list: one query.  LIKE ignores the case of ASCII letters.
ListIndex ==
  /\ pager.pc = "list" /\ indexed
  /\ pager' = [pager EXCEPT !.pc = "page",
                            !.found = Rows(present) \intersect (Prefixed \union CaseTwins)]
  /\ UNCHANGED <<bucketVars, pages, listHistory>>

\* walk_dir: the entries of the directories in no particular order, each looked at
\* when its turn comes and skipped if its sidecar is not there or does not parse.
Listed(e) == e \in present \intersect Prefixed /\ KeyOf[e] \notin unsettled

WalkEntry(e) ==
  /\ pager.pc = "list" /\ ~indexed /\ e \in pager.unseen
  /\ pager' = [pager EXCEPT !.unseen = @ \ {e},
                            !.found = IF Listed(e) THEN @ \union {e} ELSE @]
  /\ UNCHANGED <<bucketVars, pages, listHistory>>

EndWalk ==
  /\ pager.pc = "list" /\ ~indexed /\ pager.unseen = {}
  /\ pager' = [pager EXCEPT !.pc = "page"]
  /\ UNCHANGED <<bucketVars, pages, listHistory>>

\* split_by_delimiter.
ShownKeys(p, delim) == {e \in p : delim => GroupOf[e] = 0}
ShownPrefixes(p, delim) == IF delim THEN {GroupOf[e] : e \in p} \ {0} ELSE {}

\* Mutant: the token names the last entry shown among the contents.
TokenOfContents(p, delim) ==
  LET shown == ShownKeys(p, delim) IN IF shown = {} THEN 0 ELSE KeyOf[Max(shown)]

\* The last key of the page, whether it shows as itself or in a common prefix; 0
\* if there is none.
NextToken(p, delim) == IF p = {} THEN 0 ELSE KeyOf[Max(p)]

\* The first n entries in byte order.
FirstKeys(entries, n) == {e \in entries : Cardinality({d \in entries : d < e}) < n}

\* list_objects_v1, list_objects_v2: what has a key after the start, cut to max-keys.
\* The client goes on with the token while the answer says it is truncated.
MakePage ==
  LET filtered == {e \in pager.found : KeyOf[e] > pager.start}
      truncated == Cardinality(filtered) > pager.max
      page == FirstKeys(filtered, pager.max)
      token == NextToken(page, pager.delim) IN
    /\ pager.pc = "page"
    /\ pages' = Append(pages, [contents |-> ShownKeys(page, pager.delim),
                               prefixes |-> ShownPrefixes(page, pager.delim)])
    /\ pager' = [pager EXCEPT
                   !.pc = IF ~truncated THEN "done" ELSE IF token = 0 THEN "stuck" ELSE "list",
                   !.start = IF truncated THEN token ELSE @,
                   !.unseen = ListedEntry, !.found = {}]
    /\ UNCHANGED <<bucketVars, listHistory>>

\* The next listing.
EndListing ==
  /\ pager.pc \in {"done", "stuck"}
  /\ pager' = NoPager /\ pages' = <<>>
  /\ steady' = {} /\ rewritten' = {} /\ everSeen' = {}
  /\ UNCHANGED bucketVars

\* Another client stores an object, in one format or the other, or removes one with
\* all its files; the index follows in the same call.
PutKey(e) ==
  /\ changes < MaxChanges /\ e \notin present /\ changes' = changes + 1
  /\ present' = present \union {e} /\ everSeen' = everSeen \union {e}
  /\ unsettled' = unsettled \ {KeyOf[e]}
  /\ UNCHANGED <<indexed, pager, pages, steady, rewritten>>

RemoveKey(k) ==
  LET gone == {e \in present : KeyOf[e] = k} IN
    /\ changes < MaxChanges /\ gone # {} /\ changes' = changes + 1
    /\ present' = present \ gone /\ steady' = steady \ gone
    /\ unsettled' = unsettled \ {k}
    /\ UNCHANGED <<indexed, pager, pages, rewritten, everSeen>>

\* Another client sets tags or a lock, which cuts the sidecar and then fills it, or
\* replaces an erasure-coded object, which moves its directory aside first; the
\* server may die in between.
Unsettle(k) ==
  /\ changes < MaxChanges /\ k \notin unsettled /\ changes' = changes + 1
  /\ \E e \in present : KeyOf[e] = k
  /\ unsettled' = unsettled \union {k} /\ rewritten' = rewritten \union {k}
  /\ UNCHANGED <<present, indexed, pager, pages, steady, everSeen>>

Settle(k) ==
  /\ k \in unsettled /\ unsettled' = unsettled \ {k}
  /\ UNCHANGED <<present, indexed, changes, pager, pages, listHistory>>

ListNext ==
  \/ \E start \in {0, 2}, max \in MaxKeys, delim \in BOOLEAN : StartListing(start, max, delim)
  \/ ListIndex \/ EndWalk \/ MakePage \/ EndListing
  \/ \E e \in ListedEntry : WalkEntry(e) \/ PutKey(e)
  \/ \E k \in {KeyOf[e] : e \in ListedEntry} : RemoveKey(k) \/ Unsettle(k) \/ Settle(k)

ListSpec == ListInit /\ [][ListNext]_listVars

-----------------------------------------------------------------------------
(* Properties.                                                              *)

PagesWith(k) == {i \in 1 .. Len(pages) : \E e \in pages[i].contents : KeyOf[e] = k}
Covered(e) == \E i \in 1 .. Len(pages) : GroupOf[e] \in pages[i].prefixes

\* What a listing must show: what was there all the time and, if directories are
\* walked, what nobody was rewriting meanwhile.
Expected == {e \in steady \intersect Prefixed : indexed \/ KeyOf[e] \notin rewritten}

\* A listing that ends has every object that was there, and not being rewritten, from
\* its first to its last page: on one page, as itself or under its common prefix,
\* whatever was stored or removed between two pages or two directory entries.  It shows
\* nothing that was never there, nothing at or before the start, and no page is larger
\* than asked for.  A key shows twice, on that page, only if directories are walked and
\* it had both a flat file and an `.ec` directory.  (A common prefix may come twice, at
\* the end of one page and the start of the next; max-keys=0 says it is truncated and
\* gives no token.)
PagingComplete ==
  /\ pager.pc = "done" =>
       \A e \in Expected : KeyOf[e] > pager.first =>
         IF pager.delim /\ GroupOf[e] # 0 THEN PagesWith(KeyOf[e]) = {} /\ Covered(e)
         ELSE Cardinality(PagesWith(KeyOf[e])) = 1
  /\ \A i \in 1 .. Len(pages) :
       /\ Cardinality(pages[i].contents) + Cardinality(pages[i].prefixes) <= pager.max
       /\ \A e \in pages[i].contents :
            /\ e \in everSeen /\ KeyOf[e] > pager.first
            /\ Cardinality(PagesWith(KeyOf[e])) = 1
            /\ IF indexed THEN \A d \in pages[i].contents : KeyOf[d] = KeyOf[e] => d = e
               ELSE e \in Prefixed
  /\ pager.pc = "stuck" => pager.max = 0
=============================================================================
