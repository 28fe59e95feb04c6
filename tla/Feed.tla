-------------------------------- MODULE Feed --------------------------------
(***************************************************************************)
(* A user reads through his feed, page by page: FeedView of posts/views.py *)
(* and PostSelector.get_user_feed of posts/selectors.py.                   *)
(*                                                                         *)
(* A page is cut out by offset from the posts of the moment, newest first. *)
(* It takes three queries: the first lists the authors, the second counts  *)
(* their posts, from which the view tells whether there is a next page,    *)
(* and the third fetches the posts of this page.  Posts and follows appear *)
(* and vanish between any two queries.                                     *)
(***************************************************************************)
EXTENDS Naturals, FiniteSets

CONSTANTS
    Authors,    \* users whose posts may be in the feed
    Reader,     \* the user who reads
    PageSize,   \* page_size of the requests
    MaxPosts    \* bound: posts created in one behaviour

ASSUME FeedAssumption ==
    /\ Reader \in Authors
    /\ PageSize \in Nat \ {0} /\ MaxPosts \in Nat \ {0}

VARIABLES
    created,    \* posts are numbered by created_at
    posts,      \* those that have a row
    author,     \* author[p]
    following,  \* authors whom the reader follows
    page,       \* page the reader asks for, 0 before and after a walk
    following_list, \* the authors that this page's first query listed
    counted,    \* the count of its second query
    state,      \* "idle", or the query that is next: "list", "count" or "fetch"
    shown,      \* history: posts shown so far in this walk
    steady,     \* history: posts in the feed ever since the walk began
    repeated,   \* history: a post was shown twice in this walk
    grown,      \* history: a post came into the feed during this walk
    shrunk,     \* history: a post left the feed during this walk
    torn        \* history: a post came in between count and fetch of a page

database == <<created, posts, author, following>>
walk == <<page, following_list, counted, state, shown, repeated>>
changes == <<steady, grown, shrunk, torn>>
vars == <<created, posts, author, following, page, following_list, counted, state, shown,
          steady, repeated, grown, shrunk, torn>>

Ids == 1..MaxPosts

\* The posts of the reader and of those he follows, and the ones the page in
\* the making is cut from: author_id__in = following_list.
Feed == {p \in posts : author[p] \in following \cup {Reader}}
Listed == {p \in posts : author[p] \in following_list}

\* Where a post is in order_by("-created_at"): how many are before it.
Newer(feed, p) == Cardinality({q \in feed : q > p})

\* Mutant: start is one too small.
SliceOverlaps(feed, start, end) ==
    {p \in feed : start <= Newer(feed, p) + 1 /\ Newer(feed, p) < end}

\* posts[start:end]
Slice(feed, start, end) == {p \in feed : start <= Newer(feed, p) /\ Newer(feed, p) < end}

\* Mutant: division without rounding up.
FullPages(total) == total \div PageSize

total_pages(total) == (total + PageSize - 1) \div PageSize

Init ==
    /\ created = 0 /\ posts = {}
    /\ author = [p \in Ids |-> Reader]
    /\ following = {}
    /\ page = 0 /\ counted = 0 /\ state = "idle" /\ following_list = {}
    /\ shown = {} /\ steady = {}
    /\ repeated = FALSE /\ grown = FALSE /\ shrunk = FALSE /\ torn = FALSE

\* What a step does to the feed that is being read, and to what is listed of it.
FeedChanges ==
    /\ steady' = steady \cap Feed'
    /\ grown' = (grown \/ (Feed' \ Feed) \cup (Listed' \ Listed) # {})
    /\ shrunk' = (shrunk \/ (Feed \ Feed') \cup (Listed \ Listed') # {})
    /\ torn' = (torn \/ (state = "fetch" /\ Listed' \ Listed # {}))

\* A post of a followed user or of someone else; also one that a PUT in flight
\* inserts again, as that sets created_at anew.
CreatePost(a) ==
    /\ created < MaxPosts
    /\ created' = created + 1
    /\ posts' = posts \cup {created'}
    /\ author' = [author EXCEPT ![created'] = a]
    /\ UNCHANGED following /\ UNCHANGED walk
    /\ FeedChanges

DeletePost(p) ==
    /\ p \in posts
    /\ posts' = posts \ {p}
    /\ UNCHANGED <<created, author, following>> /\ UNCHANGED walk
    /\ FeedChanges

\* FollowUserView and UnfollowUserView.
Follow(a) ==
    /\ a \notin following \cup {Reader}
    /\ following' = following \cup {a}
    /\ UNCHANGED <<created, posts, author>> /\ UNCHANGED walk
    /\ FeedChanges

Unfollow(a) ==
    /\ a \in following
    /\ following' = following \ {a}
    /\ UNCHANGED <<created, posts, author>> /\ UNCHANGED walk
    /\ FeedChanges

\* list(following_ids), with the reader appended: for the first page, ...
Open ==
    /\ state = "idle"
    /\ page' = 1 /\ state' = "count"
    /\ following_list' = following \cup {Reader}
    /\ shown' = {} /\ repeated' = FALSE
    /\ steady' = Feed
    /\ grown' = FALSE /\ shrunk' = FALSE /\ torn' = FALSE
    /\ UNCHANGED counted /\ UNCHANGED database

\* ... and for each page after it.
List ==
    /\ state = "list"
    /\ following_list' = following \cup {Reader}
    /\ state' = "count"
    /\ UNCHANGED <<page, counted, shown, repeated>> /\ UNCHANGED database
    /\ FeedChanges

\* posts.count()
Count ==
    /\ state = "count"
    /\ counted' = Cardinality(Listed)
    /\ state' = "fetch"
    /\ UNCHANGED <<page, following_list, shown, repeated>>
    /\ UNCHANGED database /\ UNCHANGED changes

\* Mutant: page <= total_pages.
FetchOneMore ==
    LET found == Slice(Listed, (page - 1) * PageSize, page * PageSize)
        more == page <= total_pages(counted) IN
    /\ state = "fetch"
    /\ shown' = shown \cup found
    /\ repeated' = (repeated \/ found \cap shown # {})
    /\ state' = IF more THEN "list" ELSE "idle"
    /\ page' = IF more THEN page + 1 ELSE 0
    /\ following_list' = IF more THEN following_list ELSE {}
    /\ counted' = 0
    /\ UNCHANGED database /\ UNCHANGED changes

\* The slice is a lazy queryset: it is fetched by the serializer.  The reader
\* follows "next", which is there if page < total_pages.
Fetch ==
    LET found == Slice(Listed, (page - 1) * PageSize, page * PageSize)
        more == page < total_pages(counted) IN
    /\ state = "fetch"
    /\ shown' = shown \cup found
    /\ repeated' = (repeated \/ found \cap shown # {})
    /\ state' = IF more THEN "list" ELSE "idle"
    /\ page' = IF more THEN page + 1 ELSE 0
    /\ following_list' = IF more THEN following_list ELSE {}
    /\ counted' = 0
    /\ UNCHANGED database /\ UNCHANGED changes

Next ==
    \/ \E a \in Authors : CreatePost(a) \/ Follow(a) \/ Unfollow(a)
    \/ \E p \in Ids : DeletePost(p)
    \/ Open \/ List \/ Count \/ Fetch

Spec == Init /\ [][Next]_vars

-----------------------------------------------------------------------------
(* Properties. *)

TypeOK ==
    /\ created \in 0..MaxPosts /\ posts \subseteq 1..created
    /\ author \in [Ids -> Authors] /\ following \subseteq Authors \ {Reader}
    /\ following_list \subseteq Authors
    /\ page \in 0..total_pages(MaxPosts) /\ counted \in 0..MaxPosts
    /\ state \in {"idle", "list", "count", "fetch"}
    /\ shown \subseteq 1..created /\ steady \subseteq Feed
    /\ repeated \in BOOLEAN /\ grown \in BOOLEAN /\ shrunk \in BOOLEAN /\ torn \in BOOLEAN

\* A walk shows a post twice only if a post came into the feed meanwhile, or
\* into the posts of an author who was listed for a page.
NoRepeats == repeated => grown

\* A walk to the last page shows every post that was in the feed all along,
\* unless a post left the feed (or what was listed of it) meanwhile, or one
\* came in between the count and the fetch of a page.
NothingSkipped == state = "idle" /\ ~shrunk /\ ~torn => steady \subseteq shown
-----------------------------------------------------------------------------
(* The inductive invariant behind the safety properties. *)

\* A page is asked for exactly during a walk.
PageRuns == page # 0 <=> state # "idle"

\* What was shown and is still listed is on the pages before this one, unless
\* something came in.
ShownBefore ==
    page # 0 /\ ~grown =>
        \A p \in shown \cap Listed : Newer(Listed, p) < (page - 1) * PageSize

\* What was in the feed all along is listed, unless something went.
SteadyListed == page # 0 /\ ~shrunk => steady \subseteq Listed

\* What was in the feed all along and was not shown is on this page or on a
\* later one, unless something went.
RestAfter ==
    page # 0 /\ ~shrunk =>
        \A p \in steady \ shown : Newer(Listed, p) >= (page - 1) * PageSize

\* There are no more posts than were counted, unless one came in since.
CountHolds == state = "fetch" /\ ~torn => Cardinality(Listed) <= counted

IInv ==
    /\ TypeOK /\ PageRuns /\ ShownBefore /\ SteadyListed /\ RestAfter /\ CountHolds
    /\ NoRepeats /\ NothingSkipped
=============================================================================
