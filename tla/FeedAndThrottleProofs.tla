----------------------- MODULE FeedAndThrottleProofs ------------------------
(***************************************************************************)
(* Proofs about what stands between a view and its rows: the pages of Feed *)
(* and the rate limits of Throttle, two specifications that have nothing   *)
(* in common but that.                                                     *)
(*                                                                         *)
(* Feed, for any authors, page size and number of posts: its invariant is  *)
(* about the positions of posts.  What was shown is before the page that   *)
(* is next as long as nothing comes in, what was not is not before it as   *)
(* long as nothing goes.  A step of the database changes positions one way *)
(* or the other, so the lemmas compare positions in a set of posts and in  *)
(* one that contains it.                                                   *)
(*                                                                         *)
(* Throttle, for any throttles, rates, periods, clients and threads: its   *)
(* invariant says that a key that was never raced for has in the cache     *)
(* what it let through, and a request about to write to it that list with  *)
(* one time in front.                                                      *)
(***************************************************************************)
EXTENDS Feed, Throttle, FiniteSetTheorems, SequenceTheorems, TLAPS

-----------------------------------------------------------------------------
(* Pages and positions. *)

\* The last page ends where the posts end, or later.
LEMMA PagesCover ==
    \A total, n \in Nat : n >= total_pages(total) => n * PageSize >= total
<1> SUFFICES ASSUME NEW total \in Nat, NEW n \in Nat, n >= total_pages(total)
             PROVE  n * PageSize >= total
  OBVIOUS
<1> DEFINE q == (total + PageSize - 1) \div PageSize
<1>1. PageSize \in Nat /\ PageSize > 0
  BY FeedAssumption
<1>2. q \in Nat /\ total + PageSize - 1 < PageSize * (q + 1)
  BY <1>1
<1>3. n >= q
  BY DEF total_pages
<1>4. PageSize * (q + 1) = q * PageSize + PageSize
  <2> HIDE DEF q
  <2> QED BY <1>1, <1>2
<1>5. n * PageSize >= q * PageSize
  <2> HIDE DEF q
  <2> QED BY <1>1, <1>2, <1>3
<1>6. n * PageSize \in Nat /\ q * PageSize \in Nat
  <2> HIDE DEF q
  <2> QED BY <1>1, <1>2
<1> HIDE DEF q
<1> QED BY <1>1, <1>2, <1>4, <1>5, <1>6

\* There are no more pages than for all the posts that there can be.
LEMMA PagesBounded ==
    \A total \in 0..MaxPosts :
        /\ total_pages(total) \in Nat
        /\ total_pages(total) <= total_pages(MaxPosts)
        /\ total_pages(MaxPosts) >= 1
<1> SUFFICES ASSUME NEW total \in 0..MaxPosts
             PROVE  /\ total_pages(total) \in Nat
                    /\ total_pages(total) <= total_pages(MaxPosts)
                    /\ total_pages(MaxPosts) >= 1
  OBVIOUS
<1> DEFINE q == total_pages(total)
           m == total_pages(MaxPosts)
<1>1. PageSize \in Nat /\ PageSize > 0 /\ MaxPosts \in Nat /\ MaxPosts > 0
  BY FeedAssumption
<1>2. q \in Nat /\ PageSize * q <= total + PageSize - 1
  BY <1>1 DEF total_pages
<1>3. m \in Nat /\ MaxPosts + PageSize - 1 < PageSize * (m + 1)
  BY <1>1 DEF total_pages
<1> HIDE DEF q, m
<1>4. PageSize * q < PageSize * (m + 1)
  BY <1>1, <1>2, <1>3
<1>5. q < m + 1
  BY <1>1, <1>2, <1>3, <1>4
<1>6. m # 0
  BY <1>1, <1>3
<1> QED BY <1>2, <1>3, <1>5, <1>6 DEF q, m

\* The next page begins where this one ends.
LEMMA NextPage ==
    \A n \in Nat \ {0} :
        /\ (n - 1) * PageSize \in Nat /\ n * PageSize \in Nat
        /\ (n + 1 - 1) * PageSize = n * PageSize
        /\ (n - 1) * PageSize <= n * PageSize
BY FeedAssumption

\* Sets of posts are finite.
LEMMA PostsFinite ==
    ASSUME TypeOK, NEW S \in SUBSET posts
    PROVE  /\ IsFiniteSet(S) /\ Cardinality(S) \in 0..MaxPosts
           /\ \A p \in Nat : Newer(S, p) \in Nat
<1>1. IsFiniteSet(1..created) /\ Cardinality(1..created) = created
  BY FS_Interval DEF TypeOK
<1>2. S \in SUBSET (1..created)
  BY DEF TypeOK
<1>3. IsFiniteSet(S) /\ Cardinality(S) <= created
  BY <1>1, <1>2, FS_Subset
<1>4. \A p \in Nat : {q \in S : q > p} \in SUBSET S
  OBVIOUS
<1>5. \A p \in Nat : Newer(S, p) \in Nat
  BY <1>3, <1>4, FS_Subset, FS_CardinalityType DEF Newer
<1> QED BY <1>3, <1>5, FS_CardinalityType, FeedAssumption DEF TypeOK

\* The more posts there are, the more are newer.
LEMMA NewerMonotone ==
    ASSUME NEW T, IsFiniteSet(T), NEW S \in SUBSET T, NEW p
    PROVE  /\ Newer(S, p) \in Nat /\ Newer(T, p) \in Nat
           /\ Newer(S, p) <= Newer(T, p)
<1> DEFINE A == {q \in S : q > p}
           B == {q \in T : q > p}
<1>1. A \in SUBSET B /\ B \in SUBSET T
  OBVIOUS
<1>2. IsFiniteSet(B)
  BY <1>1, FS_Subset
<1>3. IsFiniteSet(A) /\ Cardinality(A) <= Cardinality(B)
  BY <1>1, <1>2, FS_Subset
<1>4. Cardinality(A) \in Nat /\ Cardinality(B) \in Nat
  BY <1>2, <1>3, FS_CardinalityType
<1> QED BY <1>3, <1>4 DEF Newer

\* A post is not newer than itself.
LEMMA NewerIsLess ==
    ASSUME NEW T, IsFiniteSet(T), T \subseteq Nat, NEW p \in T
    PROVE  Newer(T, p) < Cardinality(T)
<1> DEFINE A == {q \in T : q > p}
<1>1. A \in SUBSET (T \ {p})
  OBVIOUS
<1>2. IsFiniteSet(T \ {p}) /\ Cardinality(T \ {p}) = Cardinality(T) - 1
  BY FS_RemoveElement
<1>3. Cardinality(A) <= Cardinality(T) - 1 /\ IsFiniteSet(A)
  BY <1>1, <1>2, FS_Subset
<1>4. Cardinality(A) \in Nat /\ Cardinality(T) \in Nat
  BY <1>3, FS_CardinalityType
<1> QED BY <1>3, <1>4 DEF Newer

-----------------------------------------------------------------------------
(* Every step preserves the invariant. *)

LEMMA InitIInv == Init => IInv
<1> SUFFICES ASSUME Init PROVE IInv
  OBVIOUS
<1>1. TypeOK
  <2>1. author \in [Ids -> Authors]
    BY FeedAssumption DEF Init
  <2>2. 0 \in 0..total_pages(MaxPosts) /\ 0 \in 0..MaxPosts
    BY PagesBounded, FeedAssumption
  <2> QED BY <2>1, <2>2 DEF Init, TypeOK
<1>2. PageRuns /\ CountHolds /\ NoRepeats /\ NothingSkipped
  BY DEF Init, PageRuns, CountHolds, NoRepeats, NothingSkipped
<1>3. ShownBefore /\ SteadyListed /\ RestAfter
  BY DEF Init, ShownBefore, SteadyListed, RestAfter
<1> QED BY <1>1, <1>2, <1>3 DEF IInv

\* The database changes, or the authors are listed for the next page: posts
\* come in or go, and with them the positions of the others.
LEMMA ChangeStep ==
    ASSUME IInv, TypeOK', FeedChanges, UNCHANGED <<page, counted, shown, repeated>>,
           state' = state \/ (state = "list" /\ state' = "count")
    PROVE  IInv'
<1>1. /\ TypeOK /\ PageRuns /\ ShownBefore /\ SteadyListed /\ RestAfter /\ CountHolds
      /\ NoRepeats /\ NothingSkipped
  BY DEF IInv
<1>2. Listed \in SUBSET posts /\ Listed' \in SUBSET posts'
  BY DEF Listed
<1>3. IsFiniteSet(Listed) /\ IsFiniteSet(Listed')
  <2>1. IsFiniteSet(Listed)
    BY <1>1, <1>2, PostsFinite
  <2>2. IsFiniteSet(1..created')
    BY FS_Interval DEF TypeOK
  <2>3. Listed' \in SUBSET (1..created')
    BY <1>2 DEF TypeOK
  <2> QED BY <2>1, <2>2, <2>3, FS_Subset
<1>4. /\ grown' = FALSE => grown = FALSE /\ Listed' \in SUBSET Listed
      /\ shrunk' = FALSE => shrunk = FALSE /\ Listed \in SUBSET Listed'
      /\ torn' = FALSE => torn = FALSE /\ (state = "fetch" => Listed' \in SUBSET Listed)
      /\ steady' \subseteq steady
  BY <1>1 DEF FeedChanges, TypeOK
<1>5. /\ grown \in BOOLEAN /\ shrunk \in BOOLEAN /\ torn \in BOOLEAN
      /\ grown' \in BOOLEAN /\ shrunk' \in BOOLEAN /\ torn' \in BOOLEAN
  BY <1>1 DEF TypeOK
<1>6. page \in Nat /\ PageSize \in Nat
  BY <1>1, FeedAssumption, PagesBounded DEF TypeOK
<1>7. PageRuns'
  BY <1>1 DEF PageRuns
<1>8. ShownBefore'
  <2> SUFFICES ASSUME page # 0, ~grown', NEW p \in shown, p \in Listed'
               PROVE  Newer(Listed', p) < (page - 1) * PageSize
    BY DEF ShownBefore
  <2>1. ~grown /\ Listed' \in SUBSET Listed
    BY <1>4, <1>5
  <2>2. Newer(Listed, p) < (page - 1) * PageSize
    BY <1>1, <2>1 DEF ShownBefore
  <2>3. /\ Newer(Listed', p) \in Nat /\ Newer(Listed, p) \in Nat
        /\ Newer(Listed', p) <= Newer(Listed, p)
    BY <1>3, <2>1, NewerMonotone
  <2> QED BY <1>6, <2>2, <2>3, NextPage
<1>9. SteadyListed'
  BY <1>1, <1>4, <1>5 DEF SteadyListed
<1>10. RestAfter'
  <2> SUFFICES ASSUME page # 0, ~shrunk', NEW p \in steady', p \notin shown
               PROVE  Newer(Listed', p) >= (page - 1) * PageSize
    BY DEF RestAfter
  <2>1. ~shrunk /\ Listed \in SUBSET Listed' /\ p \in steady
    BY <1>4, <1>5
  <2>2. Newer(Listed, p) >= (page - 1) * PageSize
    BY <1>1, <2>1 DEF RestAfter
  <2>3. /\ Newer(Listed', p) \in Nat /\ Newer(Listed, p) \in Nat
        /\ Newer(Listed, p) <= Newer(Listed', p)
    BY <1>3, <2>1, NewerMonotone
  <2> QED BY <1>6, <2>2, <2>3, NextPage
<1>11. CountHolds'
  <2> SUFFICES ASSUME state' = "fetch", ~torn'
               PROVE  Cardinality(Listed') <= counted
    BY DEF CountHolds
  <2>1. state = "fetch" /\ ~torn /\ Listed' \in SUBSET Listed
    BY <1>4, <1>5
  <2>2. Cardinality(Listed) <= counted
    BY <1>1, <2>1 DEF CountHolds
  <2>3. Cardinality(Listed') <= Cardinality(Listed)
    BY <1>3, <2>1, FS_Subset
  <2>4. Cardinality(Listed') \in Nat /\ Cardinality(Listed) \in Nat /\ counted \in Nat
    BY <1>1, <1>3, FS_CardinalityType DEF TypeOK
  <2> QED BY <2>2, <2>3, <2>4
<1>12. NoRepeats'
  BY <1>1, <1>4, <1>5 DEF NoRepeats
<1>13. NothingSkipped'
  BY <1>1, <1>4, <1>5 DEF NothingSkipped
<1> QED BY <1>7, <1>8, <1>9, <1>10, <1>11, <1>12, <1>13 DEF IInv

\* The database alone changes.
LEMMA DatabaseStep ==
    ASSUME IInv, FeedChanges, UNCHANGED walk,
           created' \in 0..MaxPosts, created' >= created, posts' \subseteq 1..created',
           author' \in [Ids -> Authors], following' \subseteq Authors \ {Reader}
    PROVE  IInv'
<1>1. TypeOK
  BY DEF IInv
<1>2. shown' \subseteq 1..created'
  BY <1>1 DEF TypeOK, walk
<1>3. /\ steady' \subseteq Feed'
      /\ grown' \in BOOLEAN /\ shrunk' \in BOOLEAN /\ torn' \in BOOLEAN
  BY <1>1 DEF TypeOK, FeedChanges
<1>4. TypeOK'
  BY <1>1, <1>2, <1>3 DEF TypeOK, walk
<1> QED BY <1>4, ChangeStep DEF walk

\* The authors of the next page may be others than those of this one.
LEMMA ListStep == IInv /\ List => IInv'
<1> SUFFICES ASSUME IInv, List PROVE IInv'
  OBVIOUS
<1>1. TypeOK
  BY DEF IInv
<1>2. /\ steady' \subseteq Feed'
      /\ grown' \in BOOLEAN /\ shrunk' \in BOOLEAN /\ torn' \in BOOLEAN
  BY <1>1 DEF TypeOK, FeedChanges, List
<1>3. following_list' \subseteq Authors
  BY <1>1, FeedAssumption DEF TypeOK, List
<1>4. TypeOK'
  BY <1>1, <1>2, <1>3 DEF TypeOK, List, database
<1> QED BY <1>4, ChangeStep DEF List

\* A walk begins: what is listed is the feed.
LEMMA OpenStep == IInv /\ Open => IInv'
<1> SUFFICES ASSUME IInv, Open PROVE IInv'
  OBVIOUS
<1>1. TypeOK /\ UNCHANGED <<created, posts, author, following>>
  BY DEF IInv, Open, database
<1>2. /\ Feed' = Feed /\ Listed' = Feed
  BY <1>1 DEF Feed, Listed, Open
<1>3. TypeOK'
  <2>1. following_list' \subseteq Authors
    BY <1>1, FeedAssumption DEF TypeOK, Open
  <2>2. page' \in 0..total_pages(MaxPosts)
    BY PagesBounded, FeedAssumption DEF Open
  <2> QED BY <1>1, <1>2, <2>1, <2>2 DEF TypeOK, Open
<1>4. page' = 1 /\ state' = "count" /\ shown' = {} /\ repeated' = FALSE /\ steady' = Feed
  BY DEF Open
<1>5. RestAfter'
  <2> SUFFICES ASSUME NEW p \in Feed
               PROVE  Newer(Listed', p) >= (1 - 1) * PageSize
    BY <1>4 DEF RestAfter
  <2>1. Newer(Listed', p) \in Nat
    <3>1. Feed \in SUBSET posts /\ p \in Nat
      BY <1>1 DEF Feed, TypeOK
    <3> QED BY <1>1, <1>2, <3>1, PostsFinite
  <2> QED BY <2>1, FeedAssumption
<1> QED
  BY <1>2, <1>3, <1>4, <1>5
     DEF IInv, PageRuns, ShownBefore, SteadyListed, CountHolds, NoRepeats, NothingSkipped

\* The posts are counted.
LEMMA CountStep == IInv /\ Count => IInv'
<1> SUFFICES ASSUME IInv, Count PROVE IInv'
  OBVIOUS
<1>1. /\ TypeOK
      /\ UNCHANGED <<created, posts, author, following, page, following_list, shown, repeated>>
      /\ UNCHANGED <<steady, grown, shrunk, torn>>
      /\ state = "count" /\ state' = "fetch" /\ counted' = Cardinality(Listed)
  BY DEF IInv, Count, database, changes
<1>2. Listed' = Listed /\ Feed' = Feed
  BY <1>1 DEF Listed, Feed
<1>3. Cardinality(Listed) \in 0..MaxPosts
  <2>1. Listed \in SUBSET posts
    BY DEF Listed
  <2> QED BY <1>1, <2>1, PostsFinite
<1>4. TypeOK'
  BY <1>1, <1>2, <1>3 DEF TypeOK
<1>5. PageRuns' /\ NoRepeats' /\ NothingSkipped'
  BY <1>1 DEF IInv, PageRuns, NoRepeats, NothingSkipped
<1>6. ShownBefore' /\ SteadyListed' /\ RestAfter'
  BY <1>1, <1>2 DEF IInv, ShownBefore, SteadyListed, RestAfter
<1>7. CountHolds'
  BY <1>1, <1>2, <1>3 DEF CountHolds
<1> QED BY <1>4, <1>5, <1>6, <1>7 DEF IInv

\* A page is shown.  None of it was shown before unless something came in; if
\* it is the last one, nothing that is left is behind it.
LEMMA FetchStep == IInv /\ Fetch => IInv'
<1> SUFFICES ASSUME IInv, Fetch PROVE IInv'
  OBVIOUS
<1> DEFINE start == (page - 1) * PageSize
           end == page * PageSize
           found == Slice(Listed, start, end)
           more == page < total_pages(counted)
<1>1. /\ TypeOK /\ PageRuns /\ ShownBefore /\ SteadyListed /\ RestAfter /\ CountHolds
      /\ NoRepeats /\ NothingSkipped
  BY DEF IInv
<1>2. /\ UNCHANGED <<created, posts, author, following>>
      /\ UNCHANGED <<steady, grown, shrunk, torn>>
      /\ state = "fetch"
      /\ shown' = shown \cup found
      /\ repeated' = (repeated \/ found \cap shown # {})
      /\ state' = IF more THEN "list" ELSE "idle"
      /\ page' = IF more THEN page + 1 ELSE 0
      /\ following_list' = IF more THEN following_list ELSE {}
      /\ counted' = 0
  BY DEF Fetch, database, changes
<1>3. page \in Nat \ {0} /\ PageSize \in Nat \ {0} /\ counted \in Nat
  BY <1>1, <1>2, PagesBounded, FeedAssumption DEF TypeOK, PageRuns
<1>4. start \in Nat /\ end \in Nat /\ start <= end /\ (page + 1 - 1) * PageSize = end
  BY <1>3, NextPage
<1>5. /\ Listed \in SUBSET posts /\ Listed \subseteq Nat /\ found \subseteq Listed
      /\ IsFiniteSet(Listed) /\ Cardinality(Listed) \in Nat
      /\ \A p \in Listed : Newer(Listed, p) \in Nat
  <2>1. Listed \in SUBSET posts
    BY DEF Listed
  <2>2. found \subseteq Listed
    BY DEF Slice
  <2>3. Listed \subseteq Nat
    BY <1>1, <2>1 DEF TypeOK
  <2>4. /\ IsFiniteSet(Listed)
        /\ \A p \in Nat : Newer(Listed, p) \in Nat
    BY <1>1, <2>1, PostsFinite
  <2>5. Cardinality(Listed) \in Nat
    BY <2>4, FS_CardinalityType
  <2> HIDE DEF found
  <2> QED BY <2>1, <2>2, <2>3, <2>4, <2>5
<1>6. \A p \in Listed :
          p \in found <=> start <= Newer(Listed, p) /\ Newer(Listed, p) < end
  BY DEF Slice
<1>7. Feed' = Feed /\ (more => Listed' = Listed)
  BY <1>2 DEF Feed, Listed
<1>8. TypeOK'
  <2>1. page' \in 0..total_pages(MaxPosts)
    <3>1. /\ total_pages(counted) \in Nat /\ total_pages(MaxPosts) \in Nat
          /\ total_pages(counted) <= total_pages(MaxPosts)
      BY <1>1, PagesBounded, FeedAssumption DEF TypeOK
    <3> QED BY <1>2, <1>3, <3>1
  <2>2. shown' \subseteq 1..created'
    BY <1>1, <1>2, <1>5 DEF TypeOK
  <2>3. repeated' \in BOOLEAN
    BY <1>2
  <2>4. following_list' \subseteq Authors /\ counted' \in 0..MaxPosts
    BY <1>1, <1>2, FeedAssumption DEF TypeOK
  <2> HIDE DEF more, found
  <2> QED BY <1>1, <1>2, <1>7, <2>1, <2>2, <2>3, <2>4 DEF TypeOK
<1>9. PageRuns'
  <2> HIDE DEF more
  <2> QED BY <1>2, <1>3 DEF PageRuns
<1>10. ShownBefore'
  <2> SUFFICES ASSUME page' # 0, ~grown', NEW p \in shown', p \in Listed'
               PROVE  Newer(Listed', p) < (page' - 1) * PageSize
    BY DEF ShownBefore
  <2>1. page' = page + 1 /\ Listed' = Listed /\ ~grown /\ p \in shown \cup found
    BY <1>2, <1>7
  <2>2. Newer(Listed, p) < end
    <3>1. CASE p \in found
      BY <1>5, <1>6, <3>1
    <3>2. CASE p \in shown
      <4>1. Newer(Listed, p) < start
        BY <1>1, <1>3, <2>1, <3>2 DEF ShownBefore
      <4> HIDE DEF start, end
      <4> QED BY <1>4, <1>5, <2>1, <4>1
    <3> QED BY <2>1, <3>1, <3>2
  <2>3. page' - 1 = page
    BY <1>3, <2>1
  <2> HIDE DEF found, more, start
  <2> QED BY <2>1, <2>2, <2>3
<1>11. SteadyListed'
  BY <1>1, <1>2, <1>3, <1>7 DEF SteadyListed
\* What is left after this page.
<1>12. ASSUME ~shrunk, NEW p \in steady, p \notin shown, p \notin found
       PROVE  p \in Listed /\ Newer(Listed, p) >= end
  <2>1. p \in Listed
    BY <1>1, <1>3, <1>12 DEF SteadyListed
  <2>2. Newer(Listed, p) >= start
    BY <1>1, <1>3, <1>12 DEF RestAfter
  <2> QED BY <1>4, <1>5, <1>6, <1>12, <2>1, <2>2
<1>13. RestAfter'
  <2> SUFFICES ASSUME page' # 0, ~shrunk', NEW p \in steady', p \notin shown'
               PROVE  Newer(Listed', p) >= (page' - 1) * PageSize
    BY DEF RestAfter
  <2>1. /\ page' = page + 1 /\ Listed' = Listed /\ ~shrunk
        /\ p \in steady /\ p \notin shown /\ p \notin found
    BY <1>2, <1>7
  <2>2. Newer(Listed, p) >= end
    BY <1>12, <2>1
  <2>3. page' - 1 = page
    BY <1>3, <2>1
  <2> HIDE DEF found, more, start
  <2> QED BY <2>1, <2>2, <2>3
<1>14. CountHolds'
  BY <1>2 DEF CountHolds
<1>15. NoRepeats'
  <2> SUFFICES ASSUME ~grown, NEW p \in found, p \in shown
               PROVE  FALSE
    BY <1>1, <1>2 DEF NoRepeats, TypeOK
  <2> HIDE DEF found
  <2>1. p \in Listed
    BY <1>5
  <2>2. Newer(Listed, p) < start
    BY <1>1, <1>3, <2>1 DEF ShownBefore
  <2>3. start <= Newer(Listed, p)
    BY <1>6, <2>1
  <2> HIDE DEF start
  <2> QED BY <1>4, <1>5, <2>1, <2>2, <2>3
<1>16. NothingSkipped'
  <2> SUFFICES ASSUME ~more, ~shrunk, ~torn, NEW p \in steady, p \notin shown \cup found
               PROVE  FALSE
    BY <1>2 DEF NothingSkipped
  <2>1. p \in Listed /\ Newer(Listed, p) >= end
    BY <1>12
  <2>2. Cardinality(Listed) <= counted
    BY <1>1, <1>2 DEF CountHolds
  <2>3. Newer(Listed, p) < Cardinality(Listed)
    BY <1>5, <2>1, NewerIsLess
  <2>4. end >= counted
    <3>1. total_pages(counted) \in Nat
      BY <1>1, PagesBounded DEF TypeOK
    <3>2. page >= total_pages(counted)
      BY <1>3, <3>1
    <3> QED BY <1>3, <3>2, PagesCover
  <2> QED BY <1>3, <1>4, <1>5, <2>1, <2>2, <2>3, <2>4
<1> QED
  BY <1>8, <1>9, <1>10, <1>11, <1>13, <1>14, <1>15, <1>16 DEF IInv

\* Each step of the database is one for DatabaseStep, the others have their own.
LEMMA NextIInv == IInv /\ [Next]_vars => IInv'
<1> SUFFICES ASSUME IInv, [Next]_vars PROVE IInv'
  OBVIOUS
<1> USE FeedAssumption
<1>1. TypeOK
  BY DEF IInv
<1>2. ASSUME NEW a \in Authors, CreatePost(a)
      PROVE  IInv'
  <2>1. created' \in 0..MaxPosts /\ created' >= created /\ posts' \subseteq 1..created'
    BY <1>1, <1>2 DEF CreatePost, TypeOK
  <2>2. author' \in [Ids -> Authors] /\ following' \subseteq Authors \ {Reader}
    BY <1>1, <1>2 DEF CreatePost, TypeOK
  <2> QED BY <1>2, <2>1, <2>2, DatabaseStep DEF CreatePost
<1>3. ASSUME NEW p \in Ids, DeletePost(p)
      PROVE  IInv'
  <2>1. created' \in 0..MaxPosts /\ created' >= created /\ posts' \subseteq 1..created'
    BY <1>1, <1>3 DEF DeletePost, TypeOK
  <2>2. author' \in [Ids -> Authors] /\ following' \subseteq Authors \ {Reader}
    BY <1>1, <1>3 DEF DeletePost, TypeOK
  <2> QED BY <1>3, <2>1, <2>2, DatabaseStep DEF DeletePost
<1>4. ASSUME NEW a \in Authors, Follow(a) \/ Unfollow(a)
      PROVE  IInv'
  <2>1. /\ FeedChanges /\ UNCHANGED walk /\ UNCHANGED <<created, posts, author>>
        /\ following' \subseteq Authors \ {Reader}
    BY <1>1, <1>4 DEF Follow, Unfollow, TypeOK
  <2>2. created' \in 0..MaxPosts /\ created' >= created /\ posts' \subseteq 1..created'
    BY <1>1, <2>1 DEF TypeOK
  <2>3. author' \in [Ids -> Authors]
    BY <1>1, <2>1 DEF TypeOK
  <2> QED BY <2>1, <2>2, <2>3, DatabaseStep
<1>5. CASE UNCHANGED vars
  BY <1>5 DEF vars, IInv, TypeOK, PageRuns, ShownBefore, SteadyListed, RestAfter, CountHolds,
              NoRepeats, NothingSkipped, Listed, Feed
<1> QED
  BY <1>2, <1>3, <1>4, <1>5, OpenStep, ListStep, CountStep, FetchStep DEF Next

-----------------------------------------------------------------------------
(* The theorems. *)

\* The invariant of the proofs: which posts are before the page that is next
\* and which are not.
THEOREM Invariance == Spec => []IInv
<1>1. Init => IInv
  BY InitIInv
<1>2. IInv /\ [Next]_vars => IInv'
  BY NextIInv
<1> QED
  BY <1>1, <1>2, PTL DEF Spec

\* The posts and the walk are typed as TypeOK says.
THEOREM TypeCorrect == Spec => []TypeOK
<1>1. IInv => TypeOK
  BY DEF IInv
<1> QED
  BY <1>1, Invariance, PTL

\* FeedView cuts pages out by offset: a post is shown twice only if one came in.
THEOREM RepeatsExplained == Spec => []NoRepeats
<1>1. IInv => NoRepeats
  BY DEF IInv
<1> QED
  BY <1>1, Invariance, PTL

\* FeedView counts before it fetches, and tells from the count whether there is
\* a next page: a walk that nothing disturbed skips no post.
THEOREM WalksComplete == Spec => []NothingSkipped
<1>1. IInv => NothingSkipped
  BY DEF IInv
<1> QED
  BY <1>1, Invariance, PTL

-----------------------------------------------------------------------------
(* Throttle: what a tick leaves of a list. *)

\* A set of positions that has with a position all before it is an initial one.
LEMMA InitialSegment ==
  ASSUME NEW n \in Nat, NEW T \in SUBSET (1..n),
         \A i \in T : \A j \in 1..i : j \in T
  PROVE  Cardinality(T) \in 0..n /\ T = 1..Cardinality(T)
<1> DEFINE c == Cardinality(T)
<1>1. IsFiniteSet(1..n) /\ Cardinality(1..n) = n
  BY FS_Interval
<1>2. IsFiniteSet(T) /\ c <= n
  BY <1>1, FS_Subset
<1>3. c \in Nat
  BY <1>2, FS_CardinalityType
<1>4. ASSUME NEW i \in T
      PROVE  i \in 1..c
  <2>1. i \in Nat /\ 1 <= i
    OBVIOUS
  <2>2. Cardinality(1..i) = i
    BY <2>1, FS_Interval
  <2>3. (1..i) \in SUBSET T
    OBVIOUS
  <2>4. Cardinality(1..i) <= c
    BY <1>2, <2>3, FS_Subset
  <2> QED
    BY <2>1, <2>2, <2>4, <1>3
<1>5. IsFiniteSet(1..c) /\ Cardinality(1..c) = c
  BY <1>3, FS_Interval
<1>6. T \in SUBSET (1..c)
  BY <1>4
<1>7. T = 1..c
  BY <1>5, <1>6, FS_Subset
<1> QED
  BY <1>2, <1>3, <1>7

\* What a tick leaves of a sorted list: those who stay young, one tick older.
LEMMA OlderCut ==
  ASSUME NEW p \in Nat \ {0}, NEW s \in Seq(Nat), NewestFirst(s)
  PROVE  \E n \in 0..Len(s) :
           /\ Older(s, p) = [i \in 1..n |-> s[i] + 1]
           /\ \A i \in 1..Len(s) : s[i] + 1 < p <=> i <= n
<1> DEFINE T == {i \in 1..Len(s) : s[i] + 1 < p}
           Kept(n) == /\ \A i \in n + 1..Len(s) : s[i] + 1 >= p
                      /\ n = 0 \/ s[n] + 1 < p
           kept == CHOOSE n \in 0..Len(s) : Kept(n)
<1>1. Len(s) \in Nat /\ \A i \in 1..Len(s) : s[i] \in Nat
  BY LenProperties, ElementOfSeq
<1>2. T \in SUBSET (1..Len(s))
  OBVIOUS
<1>3. \A i \in T : \A j \in 1..i : j \in T
  BY <1>1 DEF NewestFirst
<1>4. Cardinality(T) \in 0..Len(s) /\ T = 1..Cardinality(T)
  BY <1>1, <1>2, <1>3, InitialSegment
<1>5. \E n \in 0..Len(s) : Kept(n)
  <2>1. PICK c \in 0..Len(s) : T = 1..c
    BY <1>4
  <2>2. \A i \in c + 1..Len(s) : i \in 1..Len(s) /\ i \notin T
    BY <2>1
  <2>3. c = 0 \/ c \in T
    BY <2>1
  <2>4. Kept(c)
    BY <1>1, <2>2, <2>3
  <2> QED
    BY <2>4
<1>6. kept \in 0..Len(s) /\ Kept(kept)
  BY <1>5
<1>7. Older(s, p) = [i \in 1..kept |-> s[i] + 1]
  BY DEF Older
<1> HIDE DEF kept
<1>8. ASSUME NEW i \in 1..Len(s)
      PROVE  s[i] + 1 < p <=> i <= kept
  BY <1>1, <1>6 DEF NewestFirst
<1> QED
  BY <1>6, <1>7, <1>8

\* The list stays a sorted one, of ages within the period, and gets no longer.
LEMMA OlderType ==
  ASSUME NEW p \in Nat \ {0}, NEW s \in Seq(Nat), NewestFirst(s)
  PROVE  /\ Older(s, p) \in Ages(p) /\ Older(s, p) \in Seq(Nat)
         /\ NewestFirst(Older(s, p))
         /\ Len(Older(s, p)) <= Len(s)
<1>1. Len(s) \in Nat /\ \A i \in 1..Len(s) : s[i] \in Nat
  BY LenProperties, ElementOfSeq
<1>2. PICK n \in 0..Len(s) : /\ Older(s, p) = [i \in 1..n |-> s[i] + 1]
                             /\ \A i \in 1..Len(s) : s[i] + 1 < p <=> i <= n
  BY OlderCut
<1>3. \A i \in 1..n : s[i] + 1 \in 0..p - 1 /\ s[i] + 1 \in Nat
  <2> TAKE i \in 1..n
  <2>1. i \in 1..Len(s) /\ s[i] \in Nat
    BY <1>1, <1>2
  <2> QED
    BY <1>2, <2>1
<1>4. Older(s, p) \in Seq(0..p - 1) /\ Older(s, p) \in Seq(Nat)
  BY <1>2, <1>3
<1>5. Len(Older(s, p)) = n
  BY <1>2
<1>6. NewestFirst(Older(s, p))
  <2> SUFFICES ASSUME NEW i \in 1..n, NEW j \in 1..n, i <= j
               PROVE  Older(s, p)[i] <= Older(s, p)[j]
    BY <1>5 DEF NewestFirst
  <2>1. i \in 1..Len(s) /\ j \in 1..Len(s)
    BY <1>1, <1>2
  <2>2. s[i] <= s[j] /\ s[i] \in Nat /\ s[j] \in Nat
    BY <1>1, <2>1 DEF NewestFirst
  <2>3. Older(s, p)[i] = s[i] + 1 /\ Older(s, p)[j] = s[j] + 1
    BY <1>2
  <2> QED
    BY <2>2, <2>3
<1> QED
  BY <1>1, <1>4, <1>5, <1>6 DEF Ages

\* A list with one more time in front stays, tick by tick, the other list with
\* that time in front, until both are empty.
LEMMA OlderCons ==
  ASSUME NEW p \in Nat \ {0}, NEW h \in Seq(Nat), NEW a \in Nat,
         NewestFirst(<<a>> \o h), NewestFirst(h)
  PROVE  LET s == Older(<<a>> \o h, p) IN
         IF s = <<>> THEN Older(h, p) = <<>>
         ELSE s = <<Head(s)>> \o Older(h, p)
<1> DEFINE l == <<a>> \o h
<1>1. Len(h) \in Nat /\ \A i \in 1..Len(h) : h[i] \in Nat
  BY LenProperties, ElementOfSeq
<1>2. /\ l \in Seq(Nat) /\ Len(l) = Len(h) + 1 /\ l[1] = a
      /\ \A i \in 1..Len(h) : l[i + 1] = h[i]
  BY <1>1
<1> HIDE DEF l
<1>3. PICK n \in 0..Len(l) : /\ Older(l, p) = [i \in 1..n |-> l[i] + 1]
                             /\ \A i \in 1..Len(l) : l[i] + 1 < p <=> i <= n
  BY <1>2, OlderCut DEF l
<1>4. PICK m \in 0..Len(h) : /\ Older(h, p) = [i \in 1..m |-> h[i] + 1]
                             /\ \A i \in 1..Len(h) : h[i] + 1 < p <=> i <= m
  BY OlderCut
<1>5. \A i \in 1..Len(h) : i <= m <=> i + 1 <= n
  <2> TAKE i \in 1..Len(h)
  <2>1. i + 1 \in 1..Len(l) /\ l[i + 1] = h[i]
    BY <1>1, <1>2
  <2> QED
    BY <1>3, <1>4, <2>1
<1>6. CASE n = 0
  <2>1. m = 0
    BY <1>1, <1>5, <1>6
  <2>2. Older(l, p) = <<>> /\ Older(h, p) = <<>>
    BY <1>3, <1>4, <1>6, <2>1
  <2> QED
    BY <2>2 DEF l
<1>7. CASE n > 0
  <2>1. m = n - 1
    BY <1>1, <1>2, <1>5, <1>7
  <2> DEFINE s == Older(l, p)
             t == Older(h, p)
  <2>2. s \in Seq(Nat) /\ t \in Seq(Nat)
    BY <1>2, OlderType DEF l
  <2>3. Len(s) = n /\ Len(t) = n - 1
    BY <1>3, <1>4, <1>7, <2>1
  <2>4. \A i \in 1..n : s[i] = l[i] + 1
    BY <1>3
  <2>5. \A i \in 1..n - 1 : t[i] = l[i + 1] + 1
    <3> TAKE i \in 1..n - 1
    <3>1. i \in 1..m /\ i \in 1..Len(h)
      BY <1>1, <1>2, <2>1
    <3> QED
      BY <1>2, <1>4, <3>1
  <2> HIDE DEF s, t
  <2>6. s # <<>> /\ Head(s) = s[1] /\ Head(s) \in Nat
    BY <1>7, <2>2, <2>3
  <2>7. /\ <<Head(s)>> \o t \in Seq(Nat) /\ Len(<<Head(s)>> \o t) = n
        /\ \A i \in 1..n : (<<Head(s)>> \o t)[i] = IF i = 1 THEN Head(s) ELSE t[i - 1]
    BY <1>7, <2>2, <2>3, <2>6
  <2>8. \A i \in 1..n : s[i] = (<<Head(s)>> \o t)[i]
    <3> TAKE i \in 1..n
    <3>1. CASE i = 1
      BY <2>6, <2>7, <3>1
    <3>2. CASE i # 1
      <4>1. i - 1 \in 1..n - 1 /\ (i - 1) + 1 = i
        BY <3>2
      <4> QED
        BY <2>4, <2>5, <2>7, <3>2, <4>1
    <3> QED
      BY <3>1, <3>2
  <2>9. s = <<Head(s)>> \o t
    BY <2>2, <2>3, <2>7, <2>8, SeqEqual
  <2> QED
    BY <2>6, <2>9 DEF s, t, l
<1>8. n = 0 \/ n > 0
  BY <1>1, <1>2, <1>3
<1> QED
  BY <1>6, <1>7, <1>8

-----------------------------------------------------------------------------
(* Keys and requests of Throttle. *)

\* A cache key carries its scope, and the scope has a rate and a period.
LEMMA KeyOfThrottle ==
  ASSUME NEW c \in Requests, NEW i \in 1..Len(c.throttles)
  PROVE  LET k == GetCacheKey(c.throttles[i], c) IN
         k \in Keys /\ k.scope = c.throttles[i]
<1>1. GetCacheKey(c.throttles[i], c) \in Keys
  BY DEF Keys
<1>2. GetCacheKey(c.throttles[i], c).scope = c.throttles[i]
  BY DEF GetCacheKey
<1> QED
  BY <1>1, <1>2

LEMMA KeyLimits ==
  ASSUME NEW k \in Keys
  PROVE  Rate[k.scope] \in Nat /\ Period[k.scope] \in Nat \ {0}
<1>1. PICK c \in Requests : \E i \in 1..Len(c.throttles) : k = GetCacheKey(c.throttles[i], c)
  BY DEF Keys
<1>2. PICK i \in 1..Len(c.throttles) : k = GetCacheKey(c.throttles[i], c)
  BY <1>1
<1>3. k.scope \in Scopes
  BY <1>2, KeyOfThrottle DEF Scopes
<1> QED
  BY <1>3, ThrottleAssumption

\* A request that asks a throttle, or writes for one, has a key and its limits.
LEMMA RequestKey ==
  ASSUME ThrottleTypeOK, NEW w \in Workers, AtThrottle(w) \/ request[w].state = "read"
  PROVE  /\ request[w].client \in Requests
         /\ request[w].at \in 1..Len(request[w].client.throttles)
         /\ Key(request[w]) \in Keys
         /\ Key(request[w]).scope = Scope(request[w])
         /\ Rate[Scope(request[w])] \in Nat /\ Period[Scope(request[w])] \in Nat \ {0}
<1> DEFINE r == request[w]
<1>1. r \in Request
  BY DEF ThrottleTypeOK
<1>2. r.client \in Requests /\ r.at \in Nat
  BY <1>1 DEF Request, Idle, AtThrottle
<1>3. r.client.throttles \in Seq(STRING)
  BY <1>2, ThrottleAssumption
<1>4. Len(r.client.throttles) \in Nat
  BY <1>3, LenProperties
<1>5. r.at \in 1..Len(r.client.throttles)
  BY <1>2, <1>4 DEF ThrottleTypeOK, AtThrottle
<1>6. Key(r) \in Keys /\ Key(r).scope = Scope(r)
  BY <1>2, <1>5, KeyOfThrottle DEF Key, Scope
<1> QED
  BY <1>2, <1>5, <1>6, KeyLimits

\* The three kinds of a request.
LEMMA RequestCases ==
  ASSUME ThrottleTypeOK, NEW w \in Workers
  PROVE  \/ request[w] = Idle
         \/ request[w] \in [state: {"next"}, client: Requests, at: Nat]
         \/ request[w] \in [state: {"read"}, client: Requests, at: Nat, history: Seq(Nat)]
  BY DEF ThrottleTypeOK, Request

-----------------------------------------------------------------------------
(* Every step keeps the invariant of Throttle. *)

LEMMA InitThrottleIInv == ThrottleInit => ThrottleIInv
<1> SUFFICES ASSUME ThrottleInit PROVE ThrottleIInv
  OBVIOUS
<1> USE DEF ThrottleInit
<1>1. \A w \in Workers : request[w] = Idle /\ Idle.state = "idle"
  BY DEF Idle
<1>2. ThrottleTypeOK
  BY <1>1 DEF ThrottleTypeOK, Request, Ages
<1>3. ListsNewestFirst /\ OverlapsRaced
  BY <1>1 DEF ListsNewestFirst, NewestFirst, OverlapsRaced, Held
<1>4. CacheCounts /\ ReadsCurrent
  BY <1>1, KeyLimits DEF CacheCounts, ReadsCurrent
<1> QED
  BY <1>2, <1>3, <1>4 DEF ThrottleIInv

\* Steps that touch no list, and after which the thread holds no copy.
LEMMA QuietStep ==
  ASSUME ThrottleIInv, NEW w \in Workers, NEW r \in Request, r.state # "read",
         r.state = "next" => r.at \in 1..Len(r.client.throttles) + 1,
         Step(w, r), UNCHANGED <<history, passed, raced>>
  PROVE  ThrottleIInv'
<1> USE DEF ThrottleIInv
<1>1. /\ request' \in [Workers -> Request] /\ request'[w] = r
      /\ \A v \in Workers : v # w => request'[v] = request[v]
  BY DEF ThrottleTypeOK, Step
<1>2. ThrottleTypeOK'
  BY <1>1 DEF ThrottleTypeOK
<1>3. ListsNewestFirst'
  BY <1>1 DEF ListsNewestFirst
<1>4. OverlapsRaced'
  BY <1>1 DEF OverlapsRaced, Held
<1>5. CacheCounts' /\ ReadsCurrent'
  BY <1>1 DEF CacheCounts, ReadsCurrent
<1> QED
  BY <1>2, <1>3, <1>4, <1>5

\* A thread goes on to its next throttle.
LEMMA AdvanceType ==
  ASSUME ThrottleTypeOK, NEW w \in Workers, AtThrottle(w) \/ request[w].state = "read"
  PROVE  LET n == [state |-> "next", client |-> request[w].client, at |-> request[w].at + 1] IN
         n \in Request /\ n.at \in 1..Len(n.client.throttles) + 1
<1>1. /\ request[w].client \in Requests
      /\ request[w].at \in 1..Len(request[w].client.throttles)
  BY RequestKey
<1>2. Len(request[w].client.throttles) \in Nat
  BY <1>1, LenProperties, ThrottleAssumption
<1> QED
  BY <1>1, <1>2 DEF Request

LEMMA StartIInv ==
  ASSUME ThrottleIInv, NEW w \in Workers, NEW c \in Requests, Start(w, c)
  PROVE  ThrottleIInv'
<1> DEFINE r == [state |-> "next", client |-> c, at |-> 1]
<1>1. Len(c.throttles) \in Nat
  BY LenProperties, ThrottleAssumption
<1>2. r \in Request /\ r.state # "read" /\ r.at \in 1..Len(r.client.throttles) + 1
  BY <1>1 DEF Request
<1>3. Step(w, r) /\ UNCHANGED <<history, passed, raced>>
  BY DEF Start
<1> HIDE DEF r
<1> QED
  BY <1>2, <1>3, QuietStep

LEMMA RefuseIInv ==
  ASSUME ThrottleIInv, NEW w \in Workers, Refuse(w)
  PROVE  ThrottleIInv'
<1> DEFINE r == [state |-> "next", client |-> request[w].client, at |-> request[w].at + 1]
<1>1. AtThrottle(w) /\ Step(w, r) /\ UNCHANGED <<history, passed, raced>>
  BY DEF Refuse, Advance
<1>2. r \in Request /\ r.at \in 1..Len(r.client.throttles) + 1
  BY <1>1, AdvanceType DEF ThrottleIInv
<1>3. r.state # "read"
  OBVIOUS
<1> HIDE DEF r
<1> QED
  BY <1>1, <1>2, <1>3, QuietStep

LEMMA EndIInv ==
  ASSUME ThrottleIInv, NEW w \in Workers, End(w)
  PROVE  ThrottleIInv'
<1>1. Idle \in Request /\ Idle.state = "idle"
  BY DEF Request, Idle
<1>2. Step(w, Idle) /\ UNCHANGED <<history, passed, raced>>
  BY DEF End
<1> QED
  BY <1>1, <1>2, QuietStep

\* The list with the time of now in front is sorted, and of young times.
LEMMA NowInFront ==
  ASSUME NEW p \in Nat \ {0}, NEW h \in Ages(p), h \in Seq(Nat), NewestFirst(h)
  PROVE  /\ <<0>> \o h \in Ages(p) /\ <<0>> \o h \in Seq(Nat)
         /\ NewestFirst(<<0>> \o h)
         /\ <<0>> \o h # <<>> /\ Head(<<0>> \o h) = 0
<1>1. Len(h) \in Nat /\ \A i \in 1..Len(h) : h[i] \in Nat
  BY LenProperties, ElementOfSeq
<1>2. <<0>> \in Seq(0..p - 1) /\ h \in Seq(0..p - 1)
  BY DEF Ages
<1>3. <<0>> \o h \in Seq(0..p - 1) /\ <<0>> \o h \in Seq(Nat)
  BY <1>2
<1>4. /\ Len(<<0>> \o h) = Len(h) + 1
      /\ \A i \in 1..Len(h) + 1 : (<<0>> \o h)[i] = IF i = 1 THEN 0 ELSE h[i - 1]
  BY <1>1
<1>5. NewestFirst(<<0>> \o h)
  <2> SUFFICES ASSUME NEW i \in 1..Len(h) + 1, NEW j \in 1..Len(h) + 1, i <= j
               PROVE  (<<0>> \o h)[i] <= (<<0>> \o h)[j]
    BY <1>4 DEF NewestFirst
  <2>1. CASE i = 1
    <3>1. (<<0>> \o h)[i] = 0 /\ (<<0>> \o h)[j] \in Nat
      BY <1>1, <1>4, <2>1
    <3> QED
      BY <3>1
  <2>2. CASE i # 1
    <3>1. i - 1 \in 1..Len(h) /\ j - 1 \in 1..Len(h) /\ i - 1 <= j - 1 /\ j # 1
      BY <1>1, <2>2
    <3>2. h[i - 1] <= h[j - 1]
      BY <3>1 DEF NewestFirst
    <3> QED
      BY <1>4, <2>2, <3>1, <3>2
  <2> QED
    BY <2>1, <2>2
<1>6. <<0>> \o h # <<>> /\ Head(<<0>> \o h) = 0
  BY <1>1, <1>3, <1>4
<1> QED
  BY <1>3, <1>5, <1>6 DEF Ages

LEMMA ReadIInv ==
  ASSUME ThrottleIInv, NEW w \in Workers, Read(w)
  PROVE  ThrottleIInv'
<1> USE DEF ThrottleIInv
<1> DEFINE r == request[w]
           k == Key(r)
           n == [state |-> "read", client |-> r.client, at |-> r.at, history |-> <<0>> \o history[k]]
<1>1. /\ AtThrottle(w) /\ Len(history[k]) < Rate[Scope(r)] /\ Step(w, n)
      /\ raced' = IF \E v \in Workers : k \in Held(v) THEN raced \cup {k} ELSE raced
      /\ history' = history /\ passed' = passed
  BY DEF Read
<1>2. /\ r.client \in Requests /\ r.at \in 1..Len(r.client.throttles)
      /\ k \in Keys /\ k.scope = Scope(r)
      /\ Period[Scope(r)] \in Nat \ {0}
  BY <1>1, RequestKey
<1>3. history[k] \in Ages(Period[k.scope]) /\ history[k] \in Seq(Nat) /\ NewestFirst(history[k])
  BY <1>2 DEF ThrottleTypeOK, ListsNewestFirst
<1>4. /\ n.history \in Ages(Period[Scope(r)]) /\ n.history \in Seq(Nat)
      /\ NewestFirst(n.history)
      /\ n.history # <<>> /\ n.history = <<Head(n.history)>> \o history[k]
  BY <1>2, <1>3, NowInFront
<1>5. n \in Request /\ n.state = "read"
  <2>1. r.at \in Nat
    BY <1>2, LenProperties, ThrottleAssumption
  <2> QED
    BY <1>2, <1>4, <2>1 DEF Request
<1>6. Key(n) = k /\ Scope(n) = Scope(r) /\ n.client = r.client /\ n.at = r.at
  BY DEF Key, Scope
<1> HIDE DEF n, k, r
<1>7. /\ request' \in [Workers -> Request] /\ request'[w] = n
      /\ \A v \in Workers : v # w => request'[v] = request[v]
  BY <1>1, <1>5 DEF ThrottleTypeOK, Step
<1>8. raced \subseteq raced' /\ raced' \subseteq Keys
      /\ \A v \in Workers : k \in Held(v) => k \in raced'
  BY <1>1, <1>2 DEF ThrottleTypeOK
<1>9. ThrottleTypeOK'
  BY <1>1, <1>2, <1>4, <1>5, <1>6, <1>7, <1>8 DEF ThrottleTypeOK
<1>10. ListsNewestFirst'
  BY <1>1, <1>4, <1>7 DEF ListsNewestFirst
<1>11. OverlapsRaced'
  <2>1. Held(w)' = {k}
    BY <1>5, <1>6, <1>7 DEF Held
  <2>2. \A v \in Workers : v # w => Held(v)' = Held(v)
    BY <1>7 DEF Held
  <2> QED
    BY <1>8, <2>1, <2>2 DEF OverlapsRaced
<1>12. CacheCounts'
  BY <1>1, <1>8 DEF CacheCounts
<1>13. ReadsCurrent'
  <2> SUFFICES ASSUME NEW v \in Workers, request'[v].state = "read", Key(request'[v]) \notin raced'
               PROVE  /\ Len(history[Key(request'[v])]) < Rate[Key(request'[v]).scope]
                      /\ IF request'[v].history = <<>> THEN history[Key(request'[v])] = <<>>
                         ELSE request'[v].history
                              = <<Head(request'[v].history)>> \o history[Key(request'[v])]
    BY <1>1 DEF ReadsCurrent
  <2>1. CASE v = w
    BY <1>1, <1>2, <1>4, <1>6, <1>7, <2>1
  <2>2. CASE v # w
    BY <1>7, <1>8, <2>2 DEF ReadsCurrent
  <2> QED
    BY <2>1, <2>2
<1> QED
  BY <1>9, <1>10, <1>11, <1>12, <1>13

LEMMA WriteIInv ==
  ASSUME ThrottleIInv, NEW w \in Workers, Write(w)
  PROVE  ThrottleIInv'
<1> USE DEF ThrottleIInv
<1> DEFINE r == request[w]
           k == Key(r)
           n == [state |-> "next", client |-> r.client, at |-> r.at + 1]
           put == IF k \in raced THEN <<>>
                  ELSE IF r.history = <<>> THEN passed[k]
                  ELSE <<Head(r.history)>> \o passed[k]
<1>1. /\ r.state = "read" /\ Step(w, n) /\ raced' = raced
      /\ history' = [history EXCEPT ![k] = r.history]
      /\ passed' = [passed EXCEPT ![k] = put]
  BY DEF Write, Advance
<1>2. /\ k \in Keys /\ k.scope = Scope(r)
      /\ Rate[Scope(r)] \in Nat /\ Period[Scope(r)] \in Nat \ {0}
  BY <1>1, RequestKey
<1>3. n \in Request /\ n.state # "read" /\ n.at \in 1..Len(n.client.throttles) + 1
  BY <1>1, AdvanceType
<1>4. /\ r.history \in Ages(Period[k.scope]) /\ r.history \in Seq(Nat)
      /\ NewestFirst(r.history)
  <2>1. r.history \in Ages(Period[Scope(r)])
    BY <1>1 DEF ThrottleTypeOK
  <2>2. r.history \in Seq(Nat)
    BY <1>1, RequestCases DEF Idle
  <2>3. NewestFirst(r.history)
    BY <1>1 DEF ListsNewestFirst
  <2> QED
    BY <1>2, <2>1, <2>2, <2>3
<1>5. history[k] \in Seq(Nat) /\ passed[k] \in Seq(Nat) /\ passed[k] \in Ages(Period[k.scope])
  BY <1>2 DEF ThrottleTypeOK
<1>6. put \in Ages(Period[k.scope]) /\ put \in Seq(Nat)
  <2>1. <<>> \in Ages(Period[k.scope]) /\ <<>> \in Seq(Nat)
    BY DEF Ages
  <2>2. ASSUME r.history # <<>>
        PROVE  /\ <<Head(r.history)>> \o passed[k] \in Seq(0..Period[k.scope] - 1)
               /\ <<Head(r.history)>> \o passed[k] \in Seq(Nat)
    <3>1. Head(r.history) \in 0..Period[k.scope] - 1 /\ Head(r.history) \in Nat
      BY <1>4, <2>2, HeadTailProperties DEF Ages
    <3> QED
      BY <1>5, <3>1 DEF Ages
  <2> QED
    BY <1>5, <2>1, <2>2 DEF Ages
<1>7. ASSUME k \notin raced
      PROVE  put = r.history /\ Len(r.history) <= Rate[k.scope]
  <2>1. /\ passed[k] = history[k] /\ Len(history[k]) < Rate[k.scope]
        /\ IF r.history = <<>> THEN history[k] = <<>>
           ELSE r.history = <<Head(r.history)>> \o history[k]
    BY <1>1, <1>2, <1>7 DEF CacheCounts, ReadsCurrent
  <2>2. put = r.history
    BY <1>7, <2>1
  <2>3. CASE r.history = <<>>
    <3>1. Len(r.history) = 0 /\ Rate[k.scope] \in Nat
      BY <1>2, <2>3
    <3> QED
      BY <2>2, <3>1
  <2>4. CASE r.history # <<>>
    <3>1. Head(r.history) \in Nat
      BY <1>4, <2>4, HeadTailProperties
    <3>2. Len(<<Head(r.history)>> \o history[k]) = Len(history[k]) + 1 /\ Len(history[k]) \in Nat
      BY <1>5, <3>1
    <3> QED
      BY <1>2, <2>1, <2>2, <2>4, <3>2
  <2> QED
    BY <2>2, <2>3, <2>4
<1> HIDE DEF n, k, put
<1>8. /\ request' \in [Workers -> Request] /\ request'[w] = n
      /\ \A v \in Workers : v # w => request'[v] = request[v]
  BY <1>1, <1>3 DEF ThrottleTypeOK, Step
<1>9. /\ history' \in [Keys -> Seq(Nat)] /\ passed' \in [Keys -> Seq(Nat)]
      /\ history'[k] = r.history /\ passed'[k] = put
      /\ \A l \in Keys : l # k => history'[l] = history[l] /\ passed'[l] = passed[l]
  BY <1>1, <1>2, <1>4, <1>6 DEF ThrottleTypeOK
<1>10. ThrottleTypeOK'
  BY <1>1, <1>3, <1>4, <1>6, <1>8, <1>9 DEF ThrottleTypeOK
<1>11. ListsNewestFirst'
  <2>1. \A v \in Workers : request'[v].state = "read" => NewestFirst(request'[v].history)
    BY <1>3, <1>8 DEF ListsNewestFirst
  <2>2. \A l \in Keys : NewestFirst(history'[l])
    BY <1>4, <1>9 DEF ListsNewestFirst
  <2>3. NewestFirst(put)
    <3>1. CASE k \in raced
      <4>1. put = <<>>
        BY <3>1 DEF put, k
      <4> QED
        BY <4>1 DEF NewestFirst
    <3>2. CASE k \notin raced
      BY <1>4, <1>7, <3>2
    <3> QED
      BY <3>1, <3>2
  <2>4. \A l \in Keys : NewestFirst(passed'[l])
    BY <1>9, <2>3 DEF ListsNewestFirst
  <2> QED
    BY <2>1, <2>2, <2>4 DEF ListsNewestFirst
<1>12. Held(w)' = {} /\ \A v \in Workers : v # w => Held(v)' = Held(v)
  BY <1>3, <1>8 DEF Held
<1>13. OverlapsRaced'
  BY <1>1, <1>12 DEF OverlapsRaced
<1>14. CacheCounts'
  BY <1>1, <1>7, <1>9 DEF CacheCounts
<1>15. ReadsCurrent'
  <2> SUFFICES ASSUME NEW v \in Workers, request'[v].state = "read", Key(request'[v]) \notin raced
               PROVE  /\ Len(history'[Key(request'[v])]) < Rate[Key(request'[v]).scope]
                      /\ IF request'[v].history = <<>> THEN history'[Key(request'[v])] = <<>>
                         ELSE request'[v].history
                              = <<Head(request'[v].history)>> \o history'[Key(request'[v])]
    BY <1>1 DEF ReadsCurrent
  <2>1. v # w /\ request'[v] = request[v]
    BY <1>3, <1>8
  <2>2. Key(request[v]) \in Held(v) /\ k \in Held(w) /\ Key(request[v]) \in Keys
    BY <1>1, <2>1, RequestKey DEF Held, k
  <2>3. Key(request[v]) # k
    BY <2>1, <2>2 DEF OverlapsRaced
  <2>4. history'[Key(request'[v])] = history[Key(request[v])]
    BY <1>9, <2>1, <2>2, <2>3
  <2> QED
    BY <2>1, <2>4 DEF ReadsCurrent
<1> QED
  BY <1>10, <1>11, <1>13, <1>14, <1>15

LEMMA TickIInv ==
  ASSUME ThrottleIInv, Tick
  PROVE  ThrottleIInv'
<1> USE DEF ThrottleIInv
<1> DEFINE Aged(r) == [r EXCEPT !.history = Older(@, Period[Scope(r)])]
<1>1. /\ history' = [k \in Keys |-> Older(history[k], Period[k.scope])]
      /\ passed' = [k \in Keys |-> Older(passed[k], Period[k.scope])]
      /\ request' = [w \in Workers |->
             IF request[w].state = "read" THEN Aged(request[w]) ELSE request[w]]
      /\ raced' = raced
  BY DEF Tick
<1>2. ASSUME NEW k \in Keys
      PROVE  /\ history[k] \in Seq(Nat) /\ NewestFirst(history[k])
             /\ history'[k] = Older(history[k], Period[k.scope])
             /\ history'[k] \in Ages(Period[k.scope]) /\ history'[k] \in Seq(Nat)
             /\ NewestFirst(history'[k])
             /\ Len(history'[k]) <= Len(history[k])
             /\ Len(history[k]) \in Nat /\ Len(history'[k]) \in Nat /\ Rate[k.scope] \in Nat
  <2>1. history[k] \in Seq(Nat) /\ NewestFirst(history[k])
    BY DEF ThrottleTypeOK, ListsNewestFirst
  <2>2. history'[k] = Older(history[k], Period[k.scope])
    BY <1>1
  <2>3. /\ history'[k] \in Ages(Period[k.scope]) /\ history'[k] \in Seq(Nat)
        /\ NewestFirst(history'[k])
        /\ Len(history'[k]) <= Len(history[k])
    BY <2>1, <2>2, OlderType, KeyLimits
  <2> QED
    BY <2>1, <2>2, <2>3, KeyLimits, LenProperties
<1>3. ASSUME NEW w \in Workers, request[w].state = "read"
      PROVE  LET r == request[w]
                 k == Key(r) IN
             /\ r.client \in Requests /\ r.at \in 1..Len(r.client.throttles)
             /\ k \in Keys /\ k.scope = Scope(r) /\ Period[k.scope] \in Nat \ {0}
             /\ r.history \in Seq(Nat) /\ NewestFirst(r.history)
             /\ r \in [state: {"read"}, client: Requests, at: Nat, history: Seq(Nat)]
  BY <1>3, RequestKey, RequestCases DEF ListsNewestFirst, Idle
<1>4. ASSUME NEW w \in Workers, request[w].state = "read"
      PROVE  LET r == request[w]
                 n == request'[w] IN
             /\ n \in Request /\ n.state = "read" /\ n.client = r.client /\ n.at = r.at
             /\ n.history = Older(r.history, Period[Scope(r)])
             /\ n.history \in Ages(Period[Scope(r)]) /\ NewestFirst(n.history)
             /\ Key(n) = Key(r) /\ Scope(n) = Scope(r)
  <2> DEFINE r == request[w]
             n == request'[w]
  <2>1. n = Aged(r)
    BY <1>1, <1>4
  <2>2. /\ Older(r.history, Period[Scope(r)]) \in Seq(Nat)
        /\ Older(r.history, Period[Scope(r)]) \in Ages(Period[Scope(r)])
        /\ NewestFirst(Older(r.history, Period[Scope(r)]))
    BY <1>3, <1>4, OlderType
  <2>3. r \in [state: {"read"}, client: Requests, at: Nat, history: Seq(Nat)]
    BY <1>3, <1>4
  <2>4. /\ n \in [state: {"read"}, client: Requests, at: Nat, history: Seq(Nat)]
        /\ n.state = "read" /\ n.client = r.client /\ n.at = r.at
        /\ n.history = Older(r.history, Period[Scope(r)])
    BY <2>1, <2>2, <2>3
  <2> HIDE DEF r, n
  <2>5. Key(n) = Key(r) /\ Scope(n) = Scope(r) /\ n \in Request
    BY <2>4 DEF Key, Scope, Request
  <2> QED
    BY <2>2, <2>4, <2>5 DEF r, n
<1>5. \A w \in Workers : request[w].state # "read" => request'[w] = request[w]
  BY <1>1
<1>6. \A w \in Workers : request'[w].state = "read" <=> request[w].state = "read"
  BY <1>4, <1>5
<1>7. ASSUME NEW k \in Keys, k \notin raced
      PROVE  passed'[k] = history'[k] /\ Len(history'[k]) <= Rate[k.scope]
  <2>1. passed[k] = history[k] /\ Len(history[k]) <= Rate[k.scope]
    BY <1>7 DEF CacheCounts
  <2>2. passed'[k] = history'[k]
    BY <1>1, <2>1
  <2> QED
    BY <1>2, <2>1, <2>2
<1>8. ASSUME NEW k \in Keys
      PROVE  /\ passed'[k] \in Ages(Period[k.scope]) /\ passed'[k] \in Seq(Nat)
             /\ NewestFirst(passed'[k])
  <2>1. passed[k] \in Seq(Nat) /\ NewestFirst(passed[k])
    BY DEF ThrottleTypeOK, ListsNewestFirst
  <2>2. passed'[k] = Older(passed[k], Period[k.scope])
    BY <1>1
  <2> QED
    BY <2>1, <2>2, OlderType, KeyLimits
<1>9. ThrottleTypeOK'
  <2>1. history' \in [Keys -> Seq(Nat)] /\ passed' \in [Keys -> Seq(Nat)]
    BY <1>1, <1>2, <1>8
  <2>2. \A k \in Keys : history'[k] \in Ages(Period[k.scope]) /\ passed'[k] \in Ages(Period[k.scope])
    BY <1>2, <1>8
  <2>3. request' \in [Workers -> Request]
    BY <1>1, <1>4, <1>5 DEF ThrottleTypeOK
  <2>4. \A w \in Workers :
            request'[w].state = "next" => request'[w].at \in 1..Len(request'[w].client.throttles) + 1
    BY <1>4, <1>5 DEF ThrottleTypeOK
  <2>5. \A w \in Workers : request'[w].state = "read" =>
            /\ request'[w].at \in 1..Len(request'[w].client.throttles)
            /\ request'[w].history \in Ages(Period[Scope(request'[w])])
    BY <1>3, <1>4, <1>6
  <2>6. raced' \subseteq Keys
    BY <1>1 DEF ThrottleTypeOK
  <2> QED
    BY <2>1, <2>2, <2>3, <2>4, <2>5, <2>6 DEF ThrottleTypeOK
<1>10. ListsNewestFirst'
  BY <1>2, <1>4, <1>6, <1>8 DEF ListsNewestFirst
<1>11. \A w \in Workers : Held(w)' = Held(w)
  BY <1>4, <1>6 DEF Held
<1>12. OverlapsRaced' /\ CacheCounts'
  BY <1>1, <1>7, <1>11 DEF OverlapsRaced, CacheCounts
<1>13. ReadsCurrent'
  <2> SUFFICES ASSUME NEW w \in Workers, request'[w].state = "read", Key(request'[w]) \notin raced
               PROVE  /\ Len(history'[Key(request'[w])]) < Rate[Key(request'[w]).scope]
                      /\ IF request'[w].history = <<>> THEN history'[Key(request'[w])] = <<>>
                         ELSE request'[w].history
                              = <<Head(request'[w].history)>> \o history'[Key(request'[w])]
    BY <1>1 DEF ReadsCurrent
  <2> DEFINE r == request[w]
             k == Key(r)
             p == Period[k.scope]
  <2>1. r.state = "read"
    BY <1>6
  <2>2. /\ k \in Keys /\ k.scope = Scope(r) /\ p \in Nat \ {0}
        /\ r.history \in Seq(Nat) /\ NewestFirst(r.history)
    BY <1>3, <2>1
  <2>3. Key(request'[w]) = k /\ request'[w].history = Older(r.history, p)
    BY <1>4, <2>1, <2>2
  <2>4. /\ Len(history[k]) < Rate[k.scope]
        /\ IF r.history = <<>> THEN history[k] = <<>>
           ELSE r.history = <<Head(r.history)>> \o history[k]
    BY <2>1, <2>3 DEF ReadsCurrent
  <2>5. /\ history[k] \in Seq(Nat) /\ NewestFirst(history[k])
        /\ history'[k] = Older(history[k], p)
        /\ Len(history'[k]) <= Len(history[k])
        /\ Len(history[k]) \in Nat /\ Len(history'[k]) \in Nat /\ Rate[k.scope] \in Nat
    BY <1>2, <2>2
  <2> HIDE DEF r, k, p
  <2>6. Len(history'[k]) < Rate[k.scope]
    BY <2>4, <2>5
  <2>7. CASE r.history = <<>>
    <3>1. Older(r.history, p) = history'[k]
      BY <2>4, <2>5, <2>7
    <3>2. Len(history[k]) = 0
      BY <2>4, <2>7
    <3>3. history'[k] = <<>>
      BY <2>2, <2>5, <3>2, OlderType, EmptySeq
    <3> QED
      BY <2>3, <2>6, <3>1, <3>3
  <2>8. CASE r.history # <<>>
    <3>1. Head(r.history) \in Nat
      BY <2>2, <2>8, HeadTailProperties
    <3>2. r.history = <<Head(r.history)>> \o history[k]
      BY <2>4, <2>8
    <3>3. IF Older(r.history, p) = <<>> THEN Older(history[k], p) = <<>>
          ELSE Older(r.history, p) = <<Head(Older(r.history, p))>> \o Older(history[k], p)
      <4> DEFINE a == Head(r.history)
                 h == history[k]
      <4>1. a \in Nat /\ h \in Seq(Nat) /\ r.history = <<a>> \o h
            /\ NewestFirst(<<a>> \o h) /\ NewestFirst(h)
        BY <2>2, <2>5, <3>1, <3>2
      <4> HIDE DEF a, h
      <4>2. IF Older(<<a>> \o h, p) = <<>> THEN Older(h, p) = <<>>
            ELSE Older(<<a>> \o h, p) = <<Head(Older(<<a>> \o h, p))>> \o Older(h, p)
        BY <2>2, <4>1, OlderCons
      <4> QED
        BY <4>1, <4>2 DEF h
    <3> QED
      BY <2>3, <2>5, <2>6, <3>3
  <2> QED
    BY <2>7, <2>8
<1> QED
  BY <1>9, <1>10, <1>12, <1>13

LEMMA NextThrottleIInv == ThrottleIInv /\ [ThrottleNext]_throttleVars => ThrottleIInv'
<1> SUFFICES ASSUME ThrottleIInv, [ThrottleNext]_throttleVars
             PROVE  ThrottleIInv'
  OBVIOUS
<1>1. CASE UNCHANGED throttleVars
  BY <1>1 DEF throttleVars, ThrottleIInv, ThrottleTypeOK, ListsNewestFirst, OverlapsRaced, Held,
              CacheCounts, ReadsCurrent
<1>2. CASE ThrottleNext
  BY <1>2, StartIInv, RefuseIInv, ReadIInv, WriteIInv, EndIInv, TickIInv DEF ThrottleNext
<1> QED
  BY <1>1, <1>2

\* The inductive invariant holds in every reachable state.
THEOREM ThrottleInvariance == ThrottleSpec => []ThrottleIInv
  BY InitThrottleIInv, NextThrottleIInv, PTL DEF ThrottleSpec

\* The lists in the cache and in the threads are of ages within the period of
\* their key, and every thread is at one of its request's throttles.
THEOREM ThrottleTypeCorrect == ThrottleSpec => []ThrottleTypeOK
<1>1. ThrottleIInv => ThrottleTypeOK
  BY DEF ThrottleIInv
<1> QED
  BY <1>1, ThrottleInvariance, PTL

\* However requests interleave and time passes, a key of which no two checks
\* overlapped lets no more requests through in a period than its rate.
THEOREM RatesHold == ThrottleSpec => []LimitKept
<1>1. ThrottleIInv => LimitKept
  BY DEF ThrottleIInv, CacheCounts, LimitKept
<1> QED
  BY <1>1, ThrottleInvariance, PTL
=============================================================================
