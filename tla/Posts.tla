-------------------------------- MODULE Posts --------------------------------
(***************************************************************************)
(* Posts, their likes and their comments: posts/views.py,                  *)
(* posts/services.py and comments/views.py.                                *)
(*                                                                         *)
(* Only create_post is one transaction; every other handler is a sequence  *)
(* of queries of its own, and other requests run between them.  A request  *)
(* in flight is a record whose op says which query comes next.  The        *)
(* database checks foreign keys and uniqueness, and deletes the likes and  *)
(* comments of a post with it (CASCADE), so a query can fail because of    *)
(* what another request did since the last one.                            *)
(***************************************************************************)
EXTENDS Naturals, FiniteSets

CONSTANTS
    Users,
    Posts,      \* post ids
    Contents,   \* texts of 1 to 280 characters
    Workers,    \* server threads, each with at most one request in flight
    MaxId       \* bound: likes and comments inserted in one behaviour

ASSUME PostsAssumption == MaxId \in Nat /\ Users # {} /\ Contents # {}

VARIABLES
    born,       \* posts created so far
    rows,       \* posts with a row
    row,        \* row[p]: author, content and whether it has an image
    likes,      \* Like rows
    comments,   \* Comment rows
    lastId,     \* the last id given to a like or comment
    request,    \* request[w]: the handler thread w is in the middle of
    cutoff,     \* history: cutoff[p]: lastId when p was deleted last
    confirmed,  \* history: confirmed[p]: content and image as last asked for and answered
    clobbered,  \* history: posts some save of which undid a newer save
    toggled,    \* history: pairs with an odd number of answered toggles
    tangled,    \* history: pairs whose toggles overlapped something
    failed      \* history: toggles that ended in an unhandled exception

tables == <<born, rows, row, likes, comments, lastId>>
answers == <<cutoff, confirmed, clobbered>>
toggles == <<toggled, tangled, failed>>
vars == <<born, rows, row, likes, comments, lastId, request, cutoff, confirmed, clobbered,
           toggled, tangled, failed>>

Ids == 1..MaxId
Row == [author: Users, content: Contents, image: BOOLEAN]
Like == [id: Ids, user: Users, post: Posts]
Comment == [id: Ids, author: Users, post: Posts]

\* The fields of CreatePostSerializer.
Fields == {"content", "image"}

Idle == [op |-> "idle"]
\* The queries of toggle_like and of LikeToggleView, by the one that is next.
ToggleOps == {"find", "insert", "regain", "reraise", "answer"}
Request ==
    [op: {"upload", "delete", "comment"}, user: Users, post: Posts]
        \cup [op: {"update"}, post: Posts, object: Row, edits: SUBSET Fields, stale: BOOLEAN]
        \cup [op: {"uncomment"}, comment: Ids]
        \cup [op: ToggleOps, user: Users, post: Posts]
        \cup [op: {"drop"}, user: Users, post: Posts, like: Ids]

Blank == [author |-> CHOOSE u \in Users : TRUE, content |-> CHOOSE c \in Contents : TRUE,
          image |-> FALSE]

Start(w, r) == request[w] = Idle /\ request' = [request EXCEPT ![w] = r]
Step(w, r) == request' = [request EXCEPT ![w] = r]
Stop(w) == Step(w, Idle)

\* After a write of post p the copies that other requests hold are old.
Overtaken(p, w) ==
    [v \in Workers |-> IF v = w THEN Idle
                       ELSE IF request[v].op = "update" /\ request[v].post = p
                            THEN [request[v] EXCEPT !.stale = TRUE]
                            ELSE request[v]]

Init ==
    /\ born = {} /\ rows = {}
    /\ row = [p \in Posts |-> Blank]
    /\ likes = {} /\ comments = {}
    /\ lastId = 0
    /\ request = [w \in Workers |-> Idle]
    /\ clobbered = {}
    /\ cutoff = [p \in Posts |-> 0]
    /\ confirmed = [p \in Posts |-> Blank]
    /\ toggled = {} /\ tangled = {} /\ failed = {}

-----------------------------------------------------------------------------
(* Posts. *)

\* PostListCreateView.post: create_post commits, then an image is stored by a
\* second save; the answer confirms what is there.
Create(w, u, p, c, image) ==
    /\ p \notin born
    /\ born' = born \cup {p}
    /\ rows' = rows \cup {p}
    /\ row' = [row EXCEPT ![p] = [author |-> u, content |-> c, image |-> FALSE]]
    /\ confirmed' = [confirmed EXCEPT ![p] = row'[p]]
    /\ IF image THEN Start(w, [op |-> "upload", user |-> u, post |-> p])
                ELSE request[w] = Idle /\ UNCHANGED request
    /\ UNCHANGED <<likes, comments, lastId, cutoff, clobbered>> /\ UNCHANGED toggles

\* save(update_fields=["image"]) writes that column only.
Upload(w) ==
    LET p == request[w].post IN
    /\ request[w].op = "upload"
    /\ p \in rows
    /\ row' = [row EXCEPT ![p].image = TRUE]
    /\ confirmed' = [confirmed EXCEPT ![p].image = TRUE]
    /\ request' = Overtaken(p, w)
    /\ UNCHANGED <<born, rows, likes, comments, lastId, cutoff, clobbered>>
    /\ UNCHANGED toggles

\* The post with some fields replaced.
Edit(post, edits, c, image) ==
    [post EXCEPT !.content = IF "content" \in edits THEN c ELSE @,
                 !.image = IF "image" \in edits THEN image ELSE @]

\* Mutant: without partial=True, what the request leaves out is overwritten.
BeginUpdateWhole(w, u, p, c, image, edits) ==
    /\ p \in rows
    /\ row[p].author = u
    /\ Start(w, [op |-> "update", post |-> p, edits |-> edits, stale |-> FALSE,
                 object |-> Edit(row[p], Fields, c, image)])
    /\ UNCHANGED tables /\ UNCHANGED answers /\ UNCHANGED toggles

\* put of PostDetailView and PostUpdateView: the author's post is loaded and
\* edited (partial=True: what the request leaves out stays as it is), ...
BeginUpdate(w, u, p, c, image, edits) ==
    /\ p \in rows
    /\ row[p].author = u
    /\ Start(w, [op |-> "update", post |-> p, edits |-> edits, stale |-> FALSE,
                 object |-> Edit(row[p], edits, c, image)])
    /\ UNCHANGED tables /\ UNCHANGED answers /\ UNCHANGED toggles

\* ... and serializer.save() writes all columns; where UPDATE meets no row,
\* Model.save() does an INSERT.
FinishUpdate(w) ==
    LET r == request[w] IN
    /\ r.op = "update"
    /\ rows' = rows \cup {r.post}
    /\ row' = [row EXCEPT ![r.post] = r.object]
    /\ confirmed' = [confirmed EXCEPT
                        ![r.post] = Edit(@, r.edits, r.object.content, r.object.image)]
    /\ clobbered' = IF r.stale THEN clobbered \cup {r.post} ELSE clobbered
    /\ request' = Overtaken(r.post, w)
    /\ UNCHANGED <<born, likes, comments, lastId, cutoff>> /\ UNCHANGED toggles

\* PostService.delete_post: the author's post is found ...
BeginDelete(w, u, p) ==
    /\ p \in rows
    /\ row[p].author = u
    /\ Start(w, [op |-> "delete", user |-> u, post |-> p])
    /\ UNCHANGED tables /\ UNCHANGED answers /\ UNCHANGED toggles

\* Mutant: comments stay (DO_NOTHING for CASCADE).
DeleteLeavesComments(w) ==
    LET p == request[w].post IN
    /\ request[w].op = "delete"
    /\ rows' = rows \ {p}
    /\ likes' = {l \in likes : l.post # p}
    /\ cutoff' = [cutoff EXCEPT ![p] = lastId]
    /\ request' = Overtaken(p, w)
    /\ UNCHANGED <<born, row, comments, lastId, confirmed, clobbered>> /\ UNCHANGED toggles

\* ... and deleted with its likes and comments in one transaction.
FinishDelete(w) ==
    LET p == request[w].post IN
    /\ request[w].op = "delete"
    /\ rows' = rows \ {p}
    /\ likes' = {l \in likes : l.post # p}
    /\ comments' = {c \in comments : c.post # p}
    /\ cutoff' = [cutoff EXCEPT ![p] = lastId]
    /\ toggled' = {t \in toggled : t[2] # p}
    /\ tangled' = tangled \cup {<<request[v].user, p>> : v \in
                      {v \in Workers : /\ request[v].op \in ToggleOps \cup {"drop"}
                                       /\ request[v].post = p}}
    /\ request' = Overtaken(p, w)
    /\ UNCHANGED <<born, row, lastId, confirmed, clobbered, failed>>

-----------------------------------------------------------------------------
(* Likes: PostService.toggle_like and LikeToggleView.                        *)

\* Mutant: the like of whoever liked the post first.
HeldByAnyone(u, p) == {l \in likes : l.post = p}

Held(u, p) == {l \in likes : l.user = u /\ l.post = p}
Toggling(w, u, p) ==
    request[w].op \in ToggleOps \cup {"drop"} /\ request[w].user = u /\ request[w].post = p

\* Mutant: a unique_together without the user.
InsertableOnce(u, p) == p \in rows /\ {l \in likes : l.post = p} = {}

\* Model.unique_together and the foreign key of Like.
Insertable(u, p) == p \in rows /\ Held(u, p) = {}

\* The post exists.
BeginToggle(w, u, p) ==
    /\ p \in rows
    /\ Start(w, [op |-> "find", user |-> u, post |-> p])
    /\ tangled' = IF \E v \in Workers : Toggling(v, u, p) THEN tangled \cup {<<u, p>>}
                                                         ELSE tangled
    /\ UNCHANGED <<toggled, failed>> /\ UNCHANGED tables /\ UNCHANGED answers

\* A get of the like: when it is found, it is the one to delete.
Get(w, op, found, notFound) ==
    LET r == request[w]
        held == Held(r.user, r.post) IN
    /\ r.op = op
    /\ \/ \E l \in held :
              Step(w, [op |-> found, user |-> r.user, post |-> r.post, like |-> l.id])
       \/ held = {} /\ Step(w, [r EXCEPT !.op = notFound])
    /\ UNCHANGED tables /\ UNCHANGED answers /\ UNCHANGED toggles

\* get_or_create: get, ...
FindLike(w) == Get(w, "find", "drop", "insert")

\* ... create, ...
InsertLike(w) ==
    LET r == request[w] IN
    /\ r.op = "insert"
    /\ Insertable(r.user, r.post)
    /\ lastId < MaxId
    /\ lastId' = lastId + 1
    /\ likes' = likes \cup {[id |-> lastId', user |-> r.user, post |-> r.post]}
    /\ Step(w, [r EXCEPT !.op = "answer"])
    /\ UNCHANGED <<born, rows, row, comments>> /\ UNCHANGED answers /\ UNCHANGED toggles

\* ... and, after an IntegrityError, get again.
RefuseLike(w) ==
    LET r == request[w] IN
    /\ r.op = "insert"
    /\ ~Insertable(r.user, r.post)
    /\ Step(w, [r EXCEPT !.op = "regain"])
    /\ UNCHANGED tables /\ UNCHANGED answers /\ UNCHANGED toggles

RegainLike(w) == Get(w, "regain", "drop", "reraise")

\* get_or_create raised: toggle_like catches IntegrityError and does the get
\* again; a like that is not there raises DoesNotExist.
CatchIntegrityError(w) ==
    /\ request[w].op = "reraise"
    /\ Held(request[w].user, request[w].post) # {}
    /\ Get(w, "reraise", "drop", "idle")

\* An exception that no handler expects: the answer is a 500.
Fail(w, gone) ==
    /\ failed' = failed \cup {[user |-> request[w].user, post |-> request[w].post,
                               gone |-> gone]}
    /\ Stop(w)
    /\ UNCHANGED <<toggled, tangled>> /\ UNCHANGED tables /\ UNCHANGED answers

FailToggle(w) ==
    /\ request[w].op = "reraise"
    /\ Held(request[w].user, request[w].post) = {}
    /\ Fail(w, request[w].post \notin rows)

\* An answer: whether u likes p has changed.
Answer(u, p) ==
    toggled' = (toggled \ {<<u, p>>}) \cup ({<<u, p>>} \ toggled)

\* like.delete() deletes by primary key, and may find nothing to delete.
DropLike(w) ==
    LET r == request[w] IN
    /\ r.op = "drop"
    /\ likes' = {l \in likes : l.id # r.like}
    /\ Answer(r.user, r.post)
    /\ Stop(w)
    /\ UNCHANGED <<born, rows, row, comments, lastId, tangled, failed>> /\ UNCHANGED answers

\* LikeToggleView loads the post again to find whom to notify.
AnswerLiked(w) ==
    LET r == request[w] IN
    /\ r.op = "answer"
    /\ \/ /\ r.post \in rows
          /\ Answer(r.user, r.post)
          /\ Stop(w)
          /\ UNCHANGED <<tangled, failed>> /\ UNCHANGED tables /\ UNCHANGED answers
       \/ r.post \notin rows /\ Fail(w, TRUE)

-----------------------------------------------------------------------------
(* Comments. *)

BeginComment(w, u, p) ==
    /\ p \in rows
    /\ Start(w, [op |-> "comment", user |-> u, post |-> p])
    /\ UNCHANGED tables /\ UNCHANGED answers /\ UNCHANGED toggles

\* Mutant: author and post the other way round.
CommentSwapped(w) ==
    LET r == request[w] IN
    /\ r.op = "comment" /\ r.post \in rows
    /\ lastId < MaxId
    /\ lastId' = lastId + 1
    /\ comments' = comments \cup {[id |-> lastId', author |-> r.post, post |-> r.user]}
    /\ Stop(w)
    /\ UNCHANGED <<born, rows, row, likes>> /\ UNCHANGED answers /\ UNCHANGED toggles

FinishComment(w) ==
    LET r == request[w] IN
    /\ r.op = "comment"
    /\ r.post \in rows
    /\ lastId < MaxId
    /\ lastId' = lastId + 1
    /\ comments' = comments \cup {[id |-> lastId', author |-> r.user, post |-> r.post]}
    /\ Stop(w)
    /\ UNCHANGED <<born, rows, row, likes>> /\ UNCHANGED answers /\ UNCHANGED toggles

\* CommentDeleteView: IsCommentOwner is asked, then the row goes.
BeginUncomment(w, u, c) ==
    /\ c \in comments
    /\ c.author = u
    /\ Start(w, [op |-> "uncomment", comment |-> c.id])
    /\ UNCHANGED tables /\ UNCHANGED answers /\ UNCHANGED toggles

FinishUncomment(w) ==
    /\ request[w].op = "uncomment"
    /\ comments' = {c \in comments : c.id # request[w].comment}
    /\ Stop(w)
    /\ UNCHANGED <<born, rows, row, likes, lastId>> /\ UNCHANGED answers /\ UNCHANGED toggles

\* A request that dies between two queries, or whose query the database
\* refuses (no post to store an image in or to hang a comment on).
Abort(w) ==
    /\ request[w] # Idle
    /\ tangled' = IF request[w].op \in ToggleOps \cup {"drop"}
                  THEN tangled \cup {<<request[w].user, request[w].post>>} ELSE tangled
    /\ Stop(w)
    /\ UNCHANGED <<toggled, failed>> /\ UNCHANGED tables /\ UNCHANGED answers

-----------------------------------------------------------------------------
Begin(w) ==
    \E u \in Users :
        \/ \E p \in Posts :
               \/ \E c \in Contents, image \in BOOLEAN :
                      \/ Create(w, u, p, c, image)
                      \/ \E edits \in SUBSET Fields : BeginUpdate(w, u, p, c, image, edits)
               \/ BeginDelete(w, u, p)
               \/ BeginToggle(w, u, p)
               \/ BeginComment(w, u, p)
        \/ \E c \in comments : BeginUncomment(w, u, c)

Continue(w) ==
    \/ Upload(w) \/ FinishUpdate(w) \/ FinishDelete(w)
    \/ FindLike(w) \/ InsertLike(w) \/ RefuseLike(w) \/ RegainLike(w)
    \/ CatchIntegrityError(w) \/ FailToggle(w) \/ DropLike(w) \/ AnswerLiked(w)
    \/ FinishComment(w) \/ FinishUncomment(w)

Next == \E w \in Workers : Begin(w) \/ Continue(w) \/ Abort(w)

Spec == Init /\ [][Next]_vars

-----------------------------------------------------------------------------
(* Properties. *)

TypeOK ==
    /\ born \subseteq Posts /\ rows \subseteq born
    /\ row \in [Posts -> Row] /\ confirmed \in [Posts -> Row]
    /\ likes \subseteq Like /\ comments \subseteq Comment
    /\ lastId \in 0..MaxId /\ cutoff \in [Posts -> 0..MaxId]
    /\ request \in [Workers -> Request \cup {Idle}]
    /\ clobbered \subseteq born
    /\ toggled \subseteq Users \X Posts /\ tangled \subseteq Users \X Posts
    /\ failed \subseteq [user: Users, post: Posts, gone: BOOLEAN]

\* A like or comment has a post, and none outlives the deletion of its post,
\* not even where a PUT in flight inserts the post again.
NothingOutlivesItsPost ==
    \A x \in likes \cup comments : x.post \in rows /\ x.id > cutoff[x.post]

\* Toggles that overlap nothing alternate: u likes p exactly if the number of
\* answers to his toggles, since the post was last deleted, is odd.
TogglesAlternate ==
    \A u \in Users, p \in Posts :
        <<u, p>> \notin tangled /\ (\A w \in Workers : ~Toggling(w, u, p))
            => (Held(u, p) # {} <=> <<u, p>> \in toggled)

\* A toggle fails only where it overlapped another of its user, or the
\* deletion of the post.
FailuresHaveReason == \A f \in failed : <<f.user, f.post>> \in tangled

\* Each field of a post is as the author last asked for it and was answered,
\* also where the requests that named the one and the other field overlap,
\* unless a PUT saved a copy older than another PUT, upload or deletion.
PostAsConfirmed ==
    \A p \in rows \ clobbered :
        row[p].content = confirmed[p].content /\ row[p].image = confirmed[p].image

(* A statement of a test that the code does not keep. *)

\* tests/unit/test_post_services.py: a toggle survives a race with others.
TogglesSurviveRaces == \A f \in failed : f.gone

-----------------------------------------------------------------------------
(* The inductive invariant behind the properties. *)

\* Only posts that were created are updated, and ids are given out in order.
RequestsSound == \A w \in Workers : request[w].op = "update" => request[w].post \in born
CutoffsPast == \A p \in Posts : cutoff[p] <= lastId
LikesNumbered == \A l \in likes : l.id <= lastId /\ \A m \in likes : l.id = m.id => l = m

\* A copy that no write overtook is the row as it is, but for the fields that
\* the request names.
FreshIsEdit ==
    \A w \in Workers :
        LET r == request[w] IN
        r.op = "update" /\ ~r.stale =>
            /\ r.post \in rows
            /\ "content" \in r.edits \/ r.object.content = row[r.post].content
            /\ "image" \in r.edits \/ r.object.image = row[r.post].image

\* unique_together of Like.
OneLikeEach == \A l, m \in likes : l.user = m.user /\ l.post = m.post => l = m

\* The like that a toggle is about to delete, if it is still there, is its own.
DropsOwnLike ==
    \A w \in Workers :
        LET r == request[w] IN
        r.op = "drop" => /\ r.like <= lastId
                         /\ \A l \in likes : l.id = r.like => l.user = r.user /\ l.post = r.post

\* Two toggles of one pair on their way are recorded as overlapping.
OverlapsTangled ==
    \A v, w \in Workers : \A u \in Users, p \in Posts :
        v # w /\ Toggling(v, u, p) /\ Toggling(w, u, p) => <<u, p>> \in tangled

\* Where a toggle that overlaps nothing stands: what it has found is so.
ToggleInStep ==
    \A w \in Workers :
        LET r == request[w]
            pair == <<r.user, r.post>>
            held == Held(r.user, r.post) IN
        r.op \in ToggleOps \cup {"drop"} /\ pair \notin tangled =>
            /\ r.post \in rows
            /\ \/ r.op = "find" /\ (held # {} <=> pair \in toggled)
               \/ r.op = "insert" /\ held = {} /\ pair \notin toggled
               \/ r.op = "answer" /\ held # {} /\ pair \notin toggled
               \/ r.op = "drop" /\ (\E l \in held : l.id = r.like) /\ pair \in toggled

RowsInv == TypeOK /\ RequestsSound /\ CutoffsPast /\ NothingOutlivesItsPost
ConfirmedInv == FreshIsEdit /\ PostAsConfirmed
LikesInv == LikesNumbered /\ OneLikeEach /\ DropsOwnLike
TogglesInv == OverlapsTangled /\ ToggleInStep /\ TogglesAlternate /\ FailuresHaveReason
\* Layer by layer: each is kept by the steps where those before it hold.
IInv == RowsInv /\ ConfirmedInv /\ LikesInv /\ TogglesInv
=============================================================================
