----------------------------- MODULE PostsProofs -----------------------------
(* Theorems about module Posts, for any users, posts, texts, threads and     *)
(* numbers of likes and comments.                                            *)
EXTENDS Posts, TLAPS

-----------------------------------------------------------------------------
(* Requests in flight. *)

\* What a request in flight holds, by the query that is next.
LEMMA RequestType ==
  ASSUME TypeOK, NEW w \in Workers, NEW r, r = request[w]
  PROVE  /\ r \in Request \cup {Idle}
         /\ r.op \in {"upload", "delete", "comment", "drop"} \cup ToggleOps
                => r.user \in Users /\ r.post \in Posts
         /\ r.op = "update" => /\ r.post \in Posts /\ r.object \in Row
                               /\ r.edits \in SUBSET Fields /\ r.stale \in BOOLEAN
         /\ r.op = "uncomment" => r.comment \in Ids
         /\ r.op = "drop" => r.like \in Ids
         /\ r.op = "idle" => r = Idle
BY DEF TypeOK, Request, Idle, ToggleOps

\* A write that overtakes others ends its own request and changes of the
\* others the mark of stale copies only.
LEMMA OvertakenType ==
  ASSUME TypeOK, NEW w \in Workers, NEW p \in Posts, request' = Overtaken(p, w)
  PROVE  /\ request' \in [Workers -> Request \cup {Idle}]
         /\ request'[w] = Idle
         /\ \A v \in Workers \ {w} : request[v].op # "update" => request'[v] = request[v]
         /\ \A v \in Workers \ {w} : request[v].op = "update" =>
                /\ request'[v] \in Request /\ request'[v].op = "update"
                /\ request'[v].post = request[v].post
                /\ request'[v].object = request[v].object
                /\ request'[v].edits = request[v].edits
                /\ ~request'[v].stale => ~request[v].stale /\ request[v].post # p
<1>1. /\ request' = [v \in Workers |->
             IF v = w THEN Idle
             ELSE IF request[v].op = "update" /\ request[v].post = p
                  THEN [request[v] EXCEPT !.stale = TRUE]
                  ELSE request[v]]
      /\ request \in [Workers -> Request \cup {Idle}]
  BY DEF Overtaken, TypeOK
<1>2. ASSUME NEW v \in Workers \ {w}, request[v].op = "update"
      PROVE  request[v] \in [op: {"update"}, post: Posts, object: Row, edits: SUBSET Fields,
                             stale: BOOLEAN]
  BY <1>1, <1>2 DEF Request, Idle, ToggleOps
<1>3. ASSUME NEW v \in Workers \ {w}, request[v].op = "update"
      PROVE  /\ request'[v] \in Request /\ request'[v].op = "update"
             /\ request'[v].post = request[v].post
             /\ request'[v].object = request[v].object
             /\ request'[v].edits = request[v].edits
             /\ ~request'[v].stale => ~request[v].stale /\ request[v].post # p
  <2> DEFINE Updates == [op: {"update"}, post: Posts, object: Row, edits: SUBSET Fields,
                         stale: BOOLEAN]
  <2>1. request[v] \in Updates
    BY <1>2, <1>3
  <2>2. request'[v] = IF request[v].post = p THEN [request[v] EXCEPT !.stale = TRUE]
                                             ELSE request[v]
    BY <1>1, <1>3
  <2>3. request'[v] \in Updates
    BY <2>1, <2>2
  <2>4. Updates \subseteq Request
    BY DEF Request
  <2> QED
    BY <2>1, <2>2, <2>3, <2>4
<1>4. ASSUME NEW v \in Workers \ {w}, request[v].op # "update"
      PROVE  request'[v] = request[v]
  BY <1>1, <1>4
<1>5. request'[w] = Idle
  BY <1>1
<1>6. request' \in [Workers -> Request \cup {Idle}]
  <2>1. ASSUME NEW v \in Workers PROVE request'[v] \in Request \cup {Idle}
    BY <1>1, <1>3, <1>4, <1>5
  <2>2. request' = [v \in Workers |-> request'[v]]
    BY <1>1
  <2> HIDE DEF Overtaken
  <2> QED
    BY <2>1, <2>2, Zenon
<1> QED
  BY <1>3, <1>4, <1>5, <1>6

\* A row with some fields replaced is a row.
LEMMA EditType ==
  ASSUME NEW x \in Row, NEW edits, NEW c \in Contents, NEW image \in BOOLEAN
  PROVE  Edit(x, edits, c, image) \in Row
BY DEF Edit, Row

\* A query that is followed by another one, or ends its request.
LEMMA StepType ==
  ASSUME TypeOK, NEW w \in Workers, NEW r \in Request \cup {Idle}, Step(w, r)
  PROVE  /\ request' \in [Workers -> Request \cup {Idle}]
         /\ request'[w] = r
         /\ \A v \in Workers \ {w} : request'[v] = request[v]
BY DEF TypeOK, Step

-----------------------------------------------------------------------------
(* The rows: type correctness, and NothingOutlivesItsPost.                   *)

\* There are no rows at first.
LEMMA InitRows == Init => RowsInv
<1> SUFFICES ASSUME Init PROVE RowsInv
  OBVIOUS
<1>1. Blank \in Row
  BY PostsAssumption DEF Blank, Row
<1> QED
  BY <1>1, PostsAssumption
  DEF Init, RowsInv, TypeOK, RequestsSound, CutoffsPast, NothingOutlivesItsPost, Idle

\* A step that adds or removes no like, comment, deletion or id, and no post.
LEMMA RowsKept ==
  ASSUME RowsInv, rows \subseteq rows', likes' = likes, comments' = comments,
         lastId' = lastId, cutoff' = cutoff
  PROVE  CutoffsPast' /\ NothingOutlivesItsPost'
BY DEF RowsInv, CutoffsPast, NothingOutlivesItsPost

\* The first queries of a request keep the rows.
LEMMA BeginRows ==
  ASSUME RowsInv, NEW w \in Workers, Begin(w)
  PROVE  RowsInv'
<1> USE DEF RowsInv
<1>1. ASSUME NEW u \in Users, NEW p \in Posts, NEW c \in Contents, NEW image \in BOOLEAN,
             Create(w, u, p, c, image)
      PROVE  RowsInv'
  <2> DEFINE new == [author |-> u, content |-> c, image |-> FALSE]
             upload == [op |-> "upload", user |-> u, post |-> p]
  <2>1. new \in Row
    BY DEF Row
  <2>2. /\ born' = born \cup {p} /\ rows' = rows \cup {p}
        /\ row' \in [Posts -> Row] /\ confirmed' \in [Posts -> Row]
    BY <1>1, <2>1 DEF Create, TypeOK
  <2>3. upload \in Request
    BY DEF Request
  <2>4. CASE image
    <3>1. Step(w, upload)
      BY <1>1, <2>4 DEF Create, Start, Step
    <3>2. /\ request' \in [Workers -> Request \cup {Idle}]
          /\ request'[w] = upload
          /\ \A v \in Workers \ {w} : request'[v] = request[v]
      BY <2>3, <3>1, StepType
    <3>3. RequestsSound'
      BY <2>2, <3>2 DEF RequestsSound
    <3>4. TypeOK'
      BY <1>1, <2>2, <3>2 DEF Create, TypeOK, toggles
    <3> QED
      BY <1>1, <2>2, <3>3, <3>4, RowsKept DEF Create
  <2>5. CASE ~image
    <3>1. request' = request
      BY <1>1, <2>5 DEF Create
    <3>2. RequestsSound'
      BY <2>2, <3>1 DEF RequestsSound
    <3>3. TypeOK'
      BY <1>1, <2>2, <3>1 DEF Create, TypeOK, toggles
    <3> QED
      BY <1>1, <2>2, <3>2, <3>3, RowsKept DEF Create
  <2> QED
    BY <2>4, <2>5
<1>2. ASSUME NEW r \in Request, r.op = "update" => r.post \in born, Start(w, r),
             UNCHANGED tables, UNCHANGED answers, UNCHANGED <<toggled, failed>>,
             tangled' \subseteq Users \X Posts
      PROVE  RowsInv'
  <2>1. /\ request' \in [Workers -> Request \cup {Idle}]
        /\ request'[w] = r
        /\ \A v \in Workers \ {w} : request'[v] = request[v]
    BY <1>2, StepType DEF Start, Step
  <2>2. RequestsSound'
    BY <1>2, <2>1 DEF RequestsSound, tables
  <2>3. TypeOK'
    BY <1>2, <2>1 DEF TypeOK, tables, answers
  <2> QED
    BY <1>2, <2>2, <2>3, RowsKept DEF tables, answers
<1>3. ASSUME NEW u \in Users, NEW p \in Posts, NEW c \in Contents, NEW image \in BOOLEAN,
             NEW edits \in SUBSET Fields, BeginUpdate(w, u, p, c, image, edits)
      PROVE  RowsInv'
  <2> DEFINE r == [op |-> "update", post |-> p, edits |-> edits, stale |-> FALSE,
                   object |-> Edit(row[p], edits, c, image)]
  <2>1. Edit(row[p], edits, c, image) \in Row /\ p \in born
    BY <1>3, EditType DEF BeginUpdate, TypeOK
  <2>2. r \in Request /\ (r.op = "update" => r.post \in born)
    BY <2>1 DEF Request
  <2>3. Start(w, r) /\ UNCHANGED tables /\ UNCHANGED answers /\ UNCHANGED <<toggled, failed>>
        /\ tangled' \subseteq Users \X Posts
    BY <1>3 DEF BeginUpdate, toggles, TypeOK
  <2> QED
    BY <1>2, <2>2, <2>3
<1>4. ASSUME NEW u \in Users, NEW p \in Posts,
             BeginDelete(w, u, p) \/ BeginToggle(w, u, p) \/ BeginComment(w, u, p)
      PROVE  RowsInv'
  <2>1. PICK op \in {"delete", "find", "comment"} :
            /\ Start(w, [op |-> op, user |-> u, post |-> p])
            /\ UNCHANGED tables /\ UNCHANGED answers /\ UNCHANGED <<toggled, failed>>
    BY <1>4 DEF BeginDelete, BeginToggle, BeginComment, toggles
  <2>2. tangled' \subseteq Users \X Posts
    BY <1>4 DEF BeginDelete, BeginToggle, BeginComment, toggles, TypeOK
  <2> DEFINE r == [op |-> op, user |-> u, post |-> p]
  <2>3. r \in Request /\ r.op # "update"
    BY DEF Request, ToggleOps
  <2> QED
    BY <1>2, <2>1, <2>2, <2>3
<1>5. ASSUME NEW u \in Users, NEW c \in comments, BeginUncomment(w, u, c)
      PROVE  RowsInv'
  <2> DEFINE r == [op |-> "uncomment", comment |-> c.id]
  <2>1. c.id \in Ids
    BY DEF TypeOK, Comment
  <2>2. r \in Request /\ r.op # "update"
    BY <2>1 DEF Request
  <2>3. Start(w, r) /\ UNCHANGED tables /\ UNCHANGED answers /\ UNCHANGED <<toggled, failed>>
        /\ tangled' \subseteq Users \X Posts
    BY <1>5 DEF BeginUncomment, toggles, TypeOK
  <2> QED
    BY <1>2, <2>2, <2>3
<1> QED
  BY <1>1, <1>3, <1>4, <1>5 DEF Begin

\* The queries that write posts keep the rows: an id given out later is
\* greater than any cutoff, and CASCADE leaves nothing of a deleted post.
LEMMA WriteRows ==
  ASSUME RowsInv, NEW w \in Workers, Upload(w) \/ FinishUpdate(w) \/ FinishDelete(w)
  PROVE  RowsInv'
<1> DEFINE p == request[w].post
<1> USE DEF RowsInv
<1>1. request[w].op \in {"upload", "update", "delete"} /\ request' = Overtaken(p, w)
  BY DEF Upload, FinishUpdate, FinishDelete
<1>2. p \in Posts
  BY <1>1, RequestType
<1>3. /\ request' \in [Workers -> Request \cup {Idle}]
      /\ request'[w] = Idle
      /\ \A v \in Workers \ {w} : request[v].op # "update" => request'[v] = request[v]
      /\ \A v \in Workers \ {w} :
             request[v].op = "update" => request'[v].post = request[v].post
  BY <1>1, <1>2, OvertakenType
<1>4. RequestsSound'
  <2>1. born' = born
    BY DEF Upload, FinishUpdate, FinishDelete
  <2> QED
    BY <1>3, <2>1 DEF RequestsSound, Idle
<1>5. CASE Upload(w)
  <2>1. row' \in [Posts -> Row] /\ confirmed' \in [Posts -> Row]
    BY <1>2, <1>5 DEF Upload, TypeOK, Row
  <2>2. TypeOK'
    BY <1>3, <1>5, <2>1 DEF Upload, TypeOK, toggles
  <2> QED
    BY <1>4, <1>5, <2>2, RowsKept DEF Upload
<1>6. CASE FinishUpdate(w)
  <2> DEFINE r == request[w]
  <2>1. r.object \in Row /\ r.edits \in SUBSET Fields /\ p \in born
    BY <1>6, RequestType DEF FinishUpdate, RequestsSound
  <2>2. Edit(confirmed[p], r.edits, r.object.content, r.object.image) \in Row
    <3>1. confirmed[p] \in Row
      BY <1>2 DEF TypeOK
    <3>2. r.object.content \in Contents /\ r.object.image \in BOOLEAN
      BY <2>1 DEF Row
    <3> QED
      BY <3>1, <3>2, EditType
  <2>3. row' \in [Posts -> Row]
    BY <1>6, <2>1 DEF FinishUpdate, TypeOK
  <2>4. confirmed' \in [Posts -> Row]
    BY <1>6, <2>2 DEF FinishUpdate, TypeOK
  <2>5. rows' \subseteq born /\ clobbered' \subseteq born
    BY <1>6, <2>1 DEF FinishUpdate, TypeOK
  <2>6. TypeOK'
    BY <1>3, <1>6, <2>3, <2>4, <2>5 DEF FinishUpdate, TypeOK, toggles
  <2> QED
    BY <1>4, <1>6, <2>6, RowsKept DEF FinishUpdate
<1>7. CASE FinishDelete(w)
  <2>1. request[w].user \in Users
    BY <1>7, RequestType DEF FinishDelete
  <2>2. tangled' \subseteq Users \X Posts
    <3>1. ASSUME NEW v \in Workers, request[v].op \in ToggleOps \cup {"drop"}
          PROVE  request[v].user \in Users
      BY <3>1, RequestType
    <3> QED
      BY <1>2, <1>7, <3>1 DEF FinishDelete, TypeOK
  <2>3. /\ cutoff' = [cutoff EXCEPT ![p] = lastId] /\ lastId' = lastId
        /\ cutoff \in [Posts -> 0..MaxId] /\ lastId \in 0..MaxId
    BY <1>7 DEF FinishDelete, TypeOK
  <2>4. cutoff' \in [Posts -> 0..MaxId] /\ CutoffsPast'
    BY <1>2, <2>3, PostsAssumption DEF CutoffsPast
  <2>5. TypeOK'
    BY <1>3, <1>7, <2>2, <2>4 DEF FinishDelete, TypeOK
  <2>6. NothingOutlivesItsPost'
    BY <1>2, <1>7 DEF FinishDelete, NothingOutlivesItsPost, TypeOK, Like, Comment
  <2> QED
    BY <1>4, <2>4, <2>5, <2>6
<1> QED
  BY <1>5, <1>6, <1>7

\* A like or a comment that is written has an id later than all cutoffs.
LEMMA InsertRows ==
  ASSUME RowsInv, NEW w \in Workers, InsertLike(w) \/ FinishComment(w)
  PROVE  RowsInv'
<1> DEFINE r == request[w]
<1> USE DEF RowsInv
<1>1. r.op \in {"insert", "comment"} /\ r.post \in rows /\ lastId < MaxId /\ lastId' = lastId + 1
  BY DEF InsertLike, FinishComment, Insertable
<1>2. r.user \in Users /\ r.post \in Posts
  BY <1>1, RequestType DEF ToggleOps
<1>3. /\ lastId' \in Ids /\ lastId' \in 0..MaxId /\ lastId' > lastId
      /\ \A p \in Posts : cutoff[p] \in Nat /\ lastId' > cutoff[p]
  BY <1>1, PostsAssumption DEF TypeOK, CutoffsPast, Ids
<1>4. /\ born' = born /\ rows' = rows /\ row' = row
      /\ cutoff' = cutoff /\ confirmed' = confirmed /\ clobbered' = clobbered
      /\ toggled' = toggled /\ tangled' = tangled /\ failed' = failed
  BY DEF InsertLike, FinishComment, answers, toggles
<1>5. CutoffsPast'
  BY <1>3, <1>4 DEF CutoffsPast, TypeOK
<1>6. CASE InsertLike(w)
  <2> DEFINE new == [id |-> lastId', user |-> r.user, post |-> r.post]
             next == [r EXCEPT !.op = "answer"]
  <2>1. new \in Like /\ likes' = likes \cup {new} /\ comments' = comments
    BY <1>2, <1>3, <1>6 DEF InsertLike, Like
  <2>2. next \in Request /\ next.op = "answer"
    <3>1. r \in [op: ToggleOps, user: Users, post: Posts]
      BY <1>6, RequestType DEF InsertLike, Request, Idle
    <3> QED
      BY <3>1 DEF Request, ToggleOps
  <2>3. /\ request' \in [Workers -> Request \cup {Idle}] /\ request'[w] = next
        /\ \A v \in Workers \ {w} : request'[v] = request[v]
    BY <1>6, <2>2, StepType DEF InsertLike
  <2>4. RequestsSound'
    BY <1>4, <2>2, <2>3 DEF RequestsSound
  <2>5. NothingOutlivesItsPost'
    BY <1>1, <1>2, <1>3, <1>4, <2>1 DEF NothingOutlivesItsPost
  <2>6. TypeOK'
    BY <1>3, <1>4, <2>1, <2>3 DEF TypeOK
  <2> QED
    BY <1>5, <2>4, <2>5, <2>6
<1>7. CASE FinishComment(w)
  <2> DEFINE new == [id |-> lastId', author |-> r.user, post |-> r.post]
  <2>1. new \in Comment /\ comments' = comments \cup {new} /\ likes' = likes
    BY <1>2, <1>3, <1>7 DEF FinishComment, Comment
  <2>2. /\ request' \in [Workers -> Request \cup {Idle}] /\ request'[w] = Idle
        /\ \A v \in Workers \ {w} : request'[v] = request[v]
    BY <1>7, StepType DEF FinishComment, Stop
  <2>3. RequestsSound'
    BY <1>4, <2>2 DEF RequestsSound, Idle
  <2>4. NothingOutlivesItsPost'
    BY <1>1, <1>2, <1>3, <1>4, <2>1 DEF NothingOutlivesItsPost
  <2>5. TypeOK'
    BY <1>3, <1>4, <2>1, <2>2 DEF TypeOK
  <2> QED
    BY <1>5, <2>3, <2>4, <2>5
<1> QED
  BY <1>6, <1>7

\* The other queries of a toggle and of the removal of a comment, and requests
\* that end before their time.
LEMMA OtherRows ==
  ASSUME RowsInv, NEW w \in Workers,
         \/ FindLike(w) \/ RefuseLike(w) \/ RegainLike(w) \/ CatchIntegrityError(w)
         \/ FailToggle(w) \/ DropLike(w) \/ AnswerLiked(w) \/ FinishUncomment(w) \/ Abort(w)
  PROVE  RowsInv'
<1> DEFINE r == request[w]
<1> USE DEF RowsInv
<1>1. /\ born' = born /\ rows' = rows /\ row' = row /\ lastId' = lastId
      /\ cutoff' = cutoff /\ confirmed' = confirmed /\ clobbered' = clobbered
      /\ likes' \subseteq likes /\ comments' \subseteq comments
  BY DEF FindLike, RegainLike, CatchIntegrityError, Get, RefuseLike, FailToggle, Fail, DropLike,
         AnswerLiked, FinishUncomment, Abort, tables, answers
<1>2. CutoffsPast' /\ NothingOutlivesItsPost'
  BY <1>1 DEF CutoffsPast, NothingOutlivesItsPost
<1>3. \E next \in Request \cup {Idle} : next.op # "update" /\ Step(w, next)
  <2>1. CASE FailToggle(w) \/ DropLike(w) \/ AnswerLiked(w) \/ FinishUncomment(w) \/ Abort(w)
    <3>1. Step(w, Idle)
      BY <2>1 DEF FailToggle, Fail, DropLike, AnswerLiked, FinishUncomment, Abort, Stop
    <3> QED
      BY <3>1 DEF Idle
  <2>2. ASSUME r.op \in ToggleOps, NEW op \in ToggleOps, Step(w, [r EXCEPT !.op = op])
        PROVE  \E next \in Request \cup {Idle} : next.op # "update" /\ Step(w, next)
    <3>1. r \in [op: ToggleOps, user: Users, post: Posts]
      BY <2>2, RequestType DEF Request, Idle, ToggleOps
    <3>2. [r EXCEPT !.op = op] \in Request /\ [r EXCEPT !.op = op].op # "update"
      BY <3>1 DEF Request, ToggleOps
    <3> QED
      BY <2>2, <3>2
  <2>3. CASE RefuseLike(w)
    BY <2>2, <2>3 DEF RefuseLike, ToggleOps
  <2>4. ASSUME r.op \in ToggleOps, NEW l \in Held(r.user, r.post),
               Step(w, [op |-> "drop", user |-> r.user, post |-> r.post, like |-> l.id])
        PROVE  \E next \in Request \cup {Idle} : next.op # "update" /\ Step(w, next)
    <3>1. r.user \in Users /\ r.post \in Posts /\ l.id \in Ids
      BY <2>4, RequestType DEF Held, TypeOK, Like
    <3> DEFINE next == [op |-> "drop", user |-> r.user, post |-> r.post, like |-> l.id]
    <3>2. next \in Request /\ next.op # "update"
      BY <3>1 DEF Request
    <3> QED
      BY <2>4, <3>2
  <2>5. CASE FindLike(w)
    BY <2>2, <2>4, <2>5 DEF FindLike, Get, ToggleOps
  <2>6. CASE RegainLike(w)
    BY <2>2, <2>4, <2>6 DEF RegainLike, Get, ToggleOps
  <2>7. CASE CatchIntegrityError(w)
    BY <2>4, <2>7 DEF CatchIntegrityError, Get, ToggleOps
  <2> QED
    BY <2>1, <2>3, <2>5, <2>6, <2>7
<1>4. PICK next \in Request \cup {Idle} : next.op # "update" /\ Step(w, next)
  BY <1>3
<1>5. /\ request' \in [Workers -> Request \cup {Idle}] /\ request'[w] = next
      /\ \A v \in Workers \ {w} : request'[v] = request[v]
  BY <1>4, StepType
<1>6. RequestsSound'
  BY <1>1, <1>4, <1>5 DEF RequestsSound
<1>7. /\ toggled' \subseteq Users \X Posts /\ tangled' \subseteq Users \X Posts
      /\ failed' \subseteq [user: Users, post: Posts, gone: BOOLEAN]
  <2>1. r.op \in ToggleOps \cup {"drop"} => r.user \in Users /\ r.post \in Posts
    BY RequestType
  <2>2. CASE FindLike(w) \/ RefuseLike(w) \/ RegainLike(w) \/ CatchIntegrityError(w)
             \/ FinishUncomment(w)
    BY <2>2 DEF FindLike, RegainLike, CatchIntegrityError, Get, RefuseLike, FinishUncomment,
                toggles, TypeOK
  <2>3. CASE Abort(w)
    BY <2>1, <2>3 DEF Abort, TypeOK
  <2>4. CASE DropLike(w)
    BY <2>1, <2>4 DEF DropLike, Answer, TypeOK, ToggleOps
  <2>5. ASSUME r.op \in ToggleOps, NEW gone \in BOOLEAN, Fail(w, gone)
        PROVE  /\ toggled' \subseteq Users \X Posts /\ tangled' \subseteq Users \X Posts
               /\ failed' \subseteq [user: Users, post: Posts, gone: BOOLEAN]
    <3>1. [user |-> r.user, post |-> r.post, gone |-> gone]
              \in [user: Users, post: Posts, gone: BOOLEAN]
      BY <2>1, <2>5
    <3>2. /\ failed' = failed \cup {[user |-> r.user, post |-> r.post, gone |-> gone]}
          /\ toggled' = toggled /\ tangled' = tangled
      BY <2>5 DEF Fail
    <3> QED
      BY <3>1, <3>2 DEF TypeOK
  <2>6. CASE FailToggle(w)
    <3>1. r.op \in ToggleOps /\ Fail(w, r.post \notin rows) /\ (r.post \notin rows) \in BOOLEAN
      BY <2>6, Zenon DEF FailToggle, ToggleOps
    <3> QED
      BY <2>5, <3>1, Zenon
  <2>7. CASE AnswerLiked(w)
    <3>1. r.op \in ToggleOps /\ TRUE \in BOOLEAN
      BY <2>7 DEF AnswerLiked, ToggleOps
    <3>2. CASE Fail(w, TRUE)
      BY <2>5, <3>1, <3>2, Zenon
    <3>3. CASE Answer(r.user, r.post) /\ UNCHANGED <<tangled, failed>>
      BY <2>1, <3>1, <3>3 DEF Answer, TypeOK
    <3> QED
      BY <2>7, <3>2, <3>3 DEF AnswerLiked
  <2> QED
    BY <2>2, <2>3, <2>4, <2>6, <2>7
<1>8. TypeOK'
  BY <1>1, <1>5, <1>7 DEF TypeOK
<1> QED
  BY <1>2, <1>6, <1>8

\* Every query keeps the rows sound.
LEMMA NextRows == RowsInv /\ [Next]_vars => RowsInv'
<1> SUFFICES ASSUME RowsInv, [Next]_vars PROVE RowsInv'
  OBVIOUS
<1>1. CASE Next
  BY <1>1, BeginRows, WriteRows, InsertRows, OtherRows DEF Next, Continue
<1>2. CASE UNCHANGED vars
  BY <1>2 DEF vars, RowsInv, TypeOK, RequestsSound, CutoffsPast, NothingOutlivesItsPost
<1> QED
  BY <1>1, <1>2

-----------------------------------------------------------------------------
(* What was confirmed: FreshIsEdit and PostAsConfirmed.                      *)

\* Nothing was confirmed at first.
LEMMA InitConfirmed == Init => ConfirmedInv
BY DEF Init, ConfirmedInv, FreshIsEdit, PostAsConfirmed, Idle

\* The steps that write no post.
LEMMA ConfirmedKept ==
  ASSUME RowsInv, ConfirmedInv, NEW w \in Workers,
         UNCHANGED <<rows, row, confirmed, clobbered>>,
         \A v \in Workers \ {w} : request'[v] = request[v],
         request'[w] = request[w] \/ request'[w].op # "update"
  PROVE  ConfirmedInv'
BY DEF ConfirmedInv, FreshIsEdit, PostAsConfirmed

\* A post that is created is as it was asked for; no copy of it exists.
LEMMA CreateConfirmed ==
  ASSUME RowsInv, ConfirmedInv, NEW w \in Workers, NEW u \in Users, NEW p \in Posts,
         NEW c \in Contents, NEW image \in BOOLEAN, Create(w, u, p, c, image)
  PROVE  ConfirmedInv'
<1>1. /\ rows' = rows \cup {p} /\ clobbered' = clobbered
      /\ row'[p] = confirmed'[p]
      /\ \A q \in Posts \ {p} : row'[q] = row[q] /\ confirmed'[q] = confirmed[q]
      /\ p \notin rows /\ rows \subseteq Posts
  BY DEF Create, RowsInv, TypeOK
<1>2. /\ \A v \in Workers \ {w} : request'[v] = request[v]
      /\ request'[w].op # "update"
  BY DEF Create, Start, RowsInv, TypeOK, Idle
<1>3. FreshIsEdit'
  BY <1>1, <1>2 DEF ConfirmedInv, FreshIsEdit
<1>4. PostAsConfirmed'
  BY <1>1 DEF ConfirmedInv, PostAsConfirmed
<1> QED
  BY <1>3, <1>4 DEF ConfirmedInv

\* A load takes the row as it is and replaces the fields it names.
LEMMA BeginUpdateConfirmed ==
  ASSUME RowsInv, ConfirmedInv, NEW w \in Workers, NEW u \in Users, NEW p \in Posts,
         NEW c \in Contents, NEW image \in BOOLEAN, NEW edits \in SUBSET Fields,
         BeginUpdate(w, u, p, c, image, edits)
  PROVE  ConfirmedInv'
<1> DEFINE object == Edit(row[p], edits, c, image)
<1>1. /\ "content" \in edits \/ object.content = row[p].content
      /\ "image" \in edits \/ object.image = row[p].image
  <2>1. row[p] \in Row
    BY DEF RowsInv, TypeOK
  <2> QED
    BY <2>1 DEF Edit, Row
<1>2. /\ \A v \in Workers \ {w} : request'[v] = request[v]
      /\ request'[w] = [op |-> "update", post |-> p, edits |-> edits, stale |-> FALSE,
                        object |-> object]
  BY DEF BeginUpdate, Start, RowsInv, TypeOK
<1>3. UNCHANGED <<rows, row, confirmed, clobbered>> /\ p \in rows
  BY DEF BeginUpdate, tables, answers
<1> HIDE DEF object
<1>4. FreshIsEdit'
  BY <1>1, <1>2, <1>3 DEF ConfirmedInv, FreshIsEdit
<1>5. PostAsConfirmed'
  BY <1>3 DEF ConfirmedInv, PostAsConfirmed
<1> QED
  BY <1>4, <1>5 DEF ConfirmedInv

\* A write makes the copies of its post old, and is confirmed in what it names.
LEMMA WriteConfirmed ==
  ASSUME RowsInv, ConfirmedInv, NEW w \in Workers,
         Upload(w) \/ FinishUpdate(w) \/ FinishDelete(w)
  PROVE  ConfirmedInv'
<1> DEFINE p == request[w].post
<1>0. TypeOK
  BY DEF RowsInv
<1>1. request[w].op \in {"upload", "update", "delete"} /\ request' = Overtaken(p, w)
  BY DEF Upload, FinishUpdate, FinishDelete
<1>2. p \in Posts
  BY <1>0, <1>1, RequestType
<1>3. /\ request'[w].op # "update"
      /\ \A v \in Workers \ {w} : request[v].op # "update" => request'[v] = request[v]
      /\ \A v \in Workers \ {w} : request[v].op = "update" =>
             /\ request'[v].post = request[v].post
             /\ request'[v].object = request[v].object
             /\ request'[v].edits = request[v].edits
             /\ ~request'[v].stale => ~request[v].stale /\ request[v].post # p
  BY <1>0, <1>1, <1>2, OvertakenType DEF Idle
<1>4. /\ \A q \in Posts \ {p} : /\ row'[q] = row[q] /\ confirmed'[q] = confirmed[q]
                                /\ q \in rows' <=> q \in rows
      /\ clobbered \subseteq clobbered' /\ rows \subseteq Posts /\ rows' \subseteq Posts
  BY <1>0, <1>2 DEF Upload, FinishUpdate, FinishDelete, TypeOK
<1>5. FreshIsEdit'
  <2>1. ASSUME NEW v \in Workers, request'[v].op = "update", ~request'[v].stale
        PROVE  /\ v # w /\ request[v].op = "update" /\ ~request[v].stale
               /\ request[v].post \in Posts \ {p}
               /\ request'[v].post = request[v].post
               /\ request'[v].object = request[v].object
               /\ request'[v].edits = request[v].edits
    BY <1>0, <1>3, <2>1, RequestType
  <2> QED
    BY <1>4, <2>1 DEF ConfirmedInv, FreshIsEdit
<1>6. CASE Upload(w)
  <2>1. /\ row' = [row EXCEPT ![p].image = TRUE] /\ row \in [Posts -> Row]
        /\ confirmed' = [confirmed EXCEPT ![p].image = TRUE] /\ confirmed \in [Posts -> Row]
        /\ rows' = rows /\ clobbered' = clobbered
    BY <1>0, <1>6 DEF Upload, TypeOK
  <2>2. /\ row'[p].content = row[p].content /\ row'[p].image = TRUE
        /\ confirmed'[p].content = confirmed[p].content /\ confirmed'[p].image = TRUE
    <3>1. /\ row'[p] = [row[p] EXCEPT !.image = TRUE] /\ row[p] \in Row
          /\ confirmed'[p] = [confirmed[p] EXCEPT !.image = TRUE] /\ confirmed[p] \in Row
      BY <1>2, <2>1
    <3> QED
      BY <3>1 DEF Row
  <2>3. ASSUME NEW q \in rows \ clobbered
        PROVE  row'[q].content = confirmed'[q].content /\ row'[q].image = confirmed'[q].image
    <3>1. row[q].content = confirmed[q].content /\ row[q].image = confirmed[q].image
      BY DEF ConfirmedInv, PostAsConfirmed
    <3>2. CASE q = p
      <4>1. row'[q].content = confirmed'[q].content
        BY <2>2, <3>1, <3>2
      <4>2. row'[q].image = confirmed'[q].image
        BY <2>2, <3>2
      <4> QED
        BY <4>1, <4>2
    <3>3. CASE q # p
      BY <1>4, <3>1, <3>3
    <3> QED
      BY <3>2, <3>3
  <2>4. PostAsConfirmed'
    BY <2>1, <2>3 DEF PostAsConfirmed
  <2> QED
    BY <1>5, <2>4 DEF ConfirmedInv
<1>7. CASE FinishUpdate(w)
  <2> DEFINE r == request[w]
  <2>1. /\ r.object \in Row /\ r.object.content \in Contents /\ r.object.image \in BOOLEAN
        /\ confirmed[p] \in Row
    <3>1. r.object \in Row
      BY <1>0, <1>7, RequestType DEF FinishUpdate
    <3>2. confirmed[p] \in Row
      BY <1>0, <1>2 DEF TypeOK
    <3> QED
      BY <3>1, <3>2 DEF Row
  <2>2. row'[p] = r.object
        /\ confirmed'[p] = Edit(confirmed[p], r.edits, r.object.content, r.object.image)
    BY <1>0, <1>2, <1>7 DEF FinishUpdate, TypeOK
  <2>3. /\ "content" \in r.edits => confirmed'[p].content = r.object.content
        /\ "content" \notin r.edits => confirmed'[p].content = confirmed[p].content
        /\ "image" \in r.edits => confirmed'[p].image = r.object.image
        /\ "image" \notin r.edits => confirmed'[p].image = confirmed[p].image
    BY <2>1, <2>2 DEF Edit, Row
  <2>4. ASSUME p \notin clobbered'
        PROVE  row'[p].content = confirmed'[p].content /\ row'[p].image = confirmed'[p].image
    <3>1. ~r.stale /\ p \notin clobbered /\ r.op = "update"
      BY <1>7, <2>4 DEF FinishUpdate
    <3>2. /\ p \in rows
          /\ "content" \in r.edits \/ r.object.content = row[p].content
          /\ "image" \in r.edits \/ r.object.image = row[p].image
      BY <3>1 DEF ConfirmedInv, FreshIsEdit
    <3>3. row[p].content = confirmed[p].content /\ row[p].image = confirmed[p].image
      BY <3>1, <3>2 DEF ConfirmedInv, PostAsConfirmed
    <3> QED
      BY <2>2, <2>3, <3>2, <3>3
  <2>5. PostAsConfirmed'
    BY <1>4, <2>4 DEF ConfirmedInv, PostAsConfirmed
  <2> QED
    BY <1>5, <2>5 DEF ConfirmedInv
<1>8. CASE FinishDelete(w)
  <2>1. p \notin rows'
    BY <1>8 DEF FinishDelete
  <2>2. PostAsConfirmed'
    BY <1>4, <2>1 DEF ConfirmedInv, PostAsConfirmed
  <2> QED
    BY <1>5, <2>2 DEF ConfirmedInv
<1> QED
  BY <1>6, <1>7, <1>8

\* The queries about likes and comments, and a request that ends early, write
\* no post and hold no copy of one.
LEMMA OthersConfirmed ==
  ASSUME RowsInv, ConfirmedInv, NEW w \in Workers,
         \/ \E u \in Users, p \in Posts :
                BeginDelete(w, u, p) \/ BeginToggle(w, u, p) \/ BeginComment(w, u, p)
         \/ \E u \in Users, c \in comments : BeginUncomment(w, u, c)
         \/ FindLike(w) \/ InsertLike(w) \/ RefuseLike(w) \/ RegainLike(w)
         \/ CatchIntegrityError(w) \/ FailToggle(w) \/ DropLike(w) \/ AnswerLiked(w)
         \/ FinishComment(w) \/ FinishUncomment(w) \/ Abort(w)
  PROVE  ConfirmedInv'
<1>1. UNCHANGED <<rows, row, confirmed, clobbered>>
  BY DEF BeginDelete, BeginToggle, BeginComment, BeginUncomment, FindLike, RegainLike,
         CatchIntegrityError, Get, InsertLike, RefuseLike, FailToggle, Fail, DropLike,
         AnswerLiked, FinishComment, FinishUncomment, Abort, tables, answers
<1>2. \A v \in Workers \ {w} : request'[v] = request[v]
  BY DEF BeginDelete, BeginToggle, BeginComment, BeginUncomment, FindLike, RegainLike,
         CatchIntegrityError, Get, InsertLike, RefuseLike, FailToggle, Fail, DropLike,
         AnswerLiked, FinishComment, FinishUncomment, Abort, Start, Step, Stop, RowsInv, TypeOK
<1>3. request'[w].op # "update"
  <2>1. request \in [Workers -> Request \cup {Idle}]
    BY DEF RowsInv, TypeOK
  <2>2. ASSUME request[w].op \in ToggleOps, NEW op \in ToggleOps,
               request' = [request EXCEPT ![w] = [request[w] EXCEPT !.op = op]]
        PROVE  request'[w].op # "update"
    <3>1. request[w] \in [op: ToggleOps, user: Users, post: Posts]
      BY <2>1, <2>2 DEF Request, Idle, ToggleOps
    <3> QED
      BY <2>1, <2>2, <3>1 DEF ToggleOps
  <2>3. CASE InsertLike(w) \/ RefuseLike(w)
    BY <2>2, <2>3 DEF InsertLike, RefuseLike, Step, ToggleOps
  <2>4. CASE FindLike(w) \/ RegainLike(w)
    BY <2>1, <2>2, <2>4 DEF FindLike, RegainLike, Get, Step, ToggleOps
  <2>5. CASE CatchIntegrityError(w)
    BY <2>1, <2>5 DEF CatchIntegrityError, Get, Step
  <2>6. CASE \/ FailToggle(w) \/ DropLike(w) \/ AnswerLiked(w) \/ FinishComment(w)
             \/ FinishUncomment(w) \/ Abort(w)
    BY <2>1, <2>6 DEF FailToggle, Fail, DropLike, AnswerLiked, FinishComment, FinishUncomment,
                      Abort, Step, Stop, Idle
  <2>7. CASE \/ \E u \in Users, p \in Posts :
                    BeginDelete(w, u, p) \/ BeginToggle(w, u, p) \/ BeginComment(w, u, p)
             \/ \E u \in Users, c \in comments : BeginUncomment(w, u, c)
    BY <2>1, <2>7 DEF BeginDelete, BeginToggle, BeginComment, BeginUncomment, Start
  <2> QED
    BY <2>3, <2>4, <2>5, <2>6, <2>7
<1> QED
  BY <1>1, <1>2, <1>3, ConfirmedKept

\* Every query keeps copies and confirmed fields in step.
LEMMA NextConfirmed == RowsInv /\ ConfirmedInv /\ [Next]_vars => ConfirmedInv'
<1> SUFFICES ASSUME RowsInv, ConfirmedInv, [Next]_vars PROVE ConfirmedInv'
  OBVIOUS
<1>1. ASSUME NEW w \in Workers, Begin(w) PROVE ConfirmedInv'
  BY <1>1, CreateConfirmed, BeginUpdateConfirmed, OthersConfirmed DEF Begin
<1>2. ASSUME NEW w \in Workers, Continue(w) \/ Abort(w) PROVE ConfirmedInv'
  BY <1>2, WriteConfirmed, OthersConfirmed DEF Continue
<1>3. CASE UNCHANGED vars
  BY <1>3 DEF vars, ConfirmedInv, FreshIsEdit, PostAsConfirmed
<1> QED
  BY <1>1, <1>2, <1>3 DEF Next

-----------------------------------------------------------------------------
(* The likes: their ids, their uniqueness and the toggles that hold one.     *)

IsToggle(r) == r.op \in ToggleOps \cup {"drop"}

\* A step of one request leaves the toggles of the others where they are.
LEMMA OtherToggles ==
  ASSUME TypeOK, NEW w \in Workers, Begin(w) \/ Continue(w) \/ Abort(w)
  PROVE  \A v \in Workers \ {w} :
             IsToggle(request[v]) \/ IsToggle(request'[v]) => request'[v] = request[v]
<1> DEFINE p == request[w].post
<1>1. CASE Upload(w) \/ FinishUpdate(w) \/ FinishDelete(w)
  <2>1. request[w].op \in {"upload", "update", "delete"} /\ request' = Overtaken(p, w)
    BY <1>1 DEF Upload, FinishUpdate, FinishDelete
  <2>2. p \in Posts
    BY <2>1, RequestType
  <2>3. /\ \A v \in Workers \ {w} : request[v].op # "update" => request'[v] = request[v]
        /\ \A v \in Workers \ {w} : request[v].op = "update" => request'[v].op = "update"
    BY <2>1, <2>2, OvertakenType
  <2> QED
    BY <2>3 DEF IsToggle, ToggleOps
<1>2. CASE Begin(w)
  <2>1. \A v \in Workers \ {w} : request'[v] = request[v]
    BY <1>2 DEF Begin, Create, BeginUpdate, BeginDelete, BeginToggle, BeginComment,
                BeginUncomment, Start, TypeOK
  <2> QED
    BY <2>1
<1>3. CASE \/ FindLike(w) \/ InsertLike(w) \/ RefuseLike(w) \/ RegainLike(w)
           \/ CatchIntegrityError(w) \/ FailToggle(w) \/ DropLike(w) \/ AnswerLiked(w)
           \/ FinishComment(w) \/ FinishUncomment(w) \/ Abort(w)
  <2>1. \A v \in Workers \ {w} : request'[v] = request[v]
    BY <1>3 DEF FindLike, RegainLike, CatchIntegrityError, Get, InsertLike, RefuseLike,
                FailToggle, Fail, DropLike, AnswerLiked, FinishComment, FinishUncomment, Abort,
                Step, Stop, TypeOK
  <2> QED
    BY <2>1
<1> QED
  BY <1>1, <1>2, <1>3 DEF Continue

\* The first query of a request reads, except that Create adds a post.
LEMMA BeginKeeps ==
  ASSUME NEW w \in Workers, Begin(w)
  PROVE  /\ likes' = likes /\ lastId' = lastId /\ toggled' = toggled /\ failed' = failed
         /\ rows \subseteq rows' /\ tangled \subseteq tangled'
<1>1. ASSUME NEW u \in Users, NEW p \in Posts, NEW c \in Contents, NEW image \in BOOLEAN,
             Create(w, u, p, c, image)
      PROVE  /\ likes' = likes /\ lastId' = lastId /\ UNCHANGED toggles
             /\ rows \subseteq rows'
  BY <1>1 DEF Create
<1>2. ASSUME NEW u \in Users, NEW p \in Posts, NEW c \in Contents, NEW image \in BOOLEAN,
             NEW edits \in SUBSET Fields, BeginUpdate(w, u, p, c, image, edits)
      PROVE  UNCHANGED tables /\ UNCHANGED toggles
  BY <1>2 DEF BeginUpdate
<1>3. ASSUME NEW u \in Users, NEW p \in Posts, BeginDelete(w, u, p) \/ BeginComment(w, u, p)
      PROVE  UNCHANGED tables /\ UNCHANGED toggles
  BY <1>3 DEF BeginDelete, BeginComment
<1>4. ASSUME NEW u \in Users, NEW p \in Posts, BeginToggle(w, u, p)
      PROVE  UNCHANGED tables /\ UNCHANGED <<toggled, failed>> /\ tangled \subseteq tangled'
  BY <1>4 DEF BeginToggle
<1>5. ASSUME NEW u \in Users, NEW c \in comments, BeginUncomment(w, u, c)
      PROVE  UNCHANGED tables /\ UNCHANGED toggles
  BY <1>5 DEF BeginUncomment
<1> QED
  BY <1>1, <1>2, <1>3, <1>4, <1>5 DEF Begin, tables, toggles

\* The actions that are not queries of a toggle end or begin no toggle, except
\* that Abort may end one.
LEMMA NotToggle ==
  ASSUME TypeOK, NEW w \in Workers,
         \/ \E u \in Users, p \in Posts, c \in Contents, image \in BOOLEAN :
                \/ Create(w, u, p, c, image)
                \/ \E edits \in SUBSET Fields : BeginUpdate(w, u, p, c, image, edits)
         \/ \E u \in Users, p \in Posts : BeginDelete(w, u, p) \/ BeginComment(w, u, p)
         \/ \E u \in Users, c \in comments : BeginUncomment(w, u, c)
         \/ Upload(w) \/ FinishUpdate(w) \/ FinishDelete(w)
         \/ FinishComment(w) \/ FinishUncomment(w) \/ Abort(w)
  PROVE  ~IsToggle(request'[w]) /\ (~IsToggle(request[w]) \/ Abort(w))
<1> USE DEF IsToggle, ToggleOps
<1>0. request \in [Workers -> Request \cup {Idle}]
  BY DEF TypeOK
<1>1. ASSUME NEW u \in Users, NEW p \in Posts, NEW c \in Contents, NEW image \in BOOLEAN,
             \/ Create(w, u, p, c, image)
             \/ \E edits \in SUBSET Fields : BeginUpdate(w, u, p, c, image, edits)
      PROVE  ~IsToggle(request'[w]) /\ ~IsToggle(request[w])
  BY <1>0, <1>1 DEF Create, BeginUpdate, Start, Idle
<1>2. ASSUME NEW u \in Users, NEW p \in Posts, BeginDelete(w, u, p) \/ BeginComment(w, u, p)
      PROVE  ~IsToggle(request'[w]) /\ ~IsToggle(request[w])
  BY <1>0, <1>2 DEF BeginDelete, BeginComment, Start, Idle
<1>3. ASSUME NEW u \in Users, NEW c \in comments, BeginUncomment(w, u, c)
      PROVE  ~IsToggle(request'[w]) /\ ~IsToggle(request[w])
  BY <1>0, <1>3 DEF BeginUncomment, Start, Idle
<1>4. CASE Upload(w) \/ FinishUpdate(w) \/ FinishDelete(w)
  BY <1>0, <1>4 DEF Upload, FinishUpdate, FinishDelete, Overtaken, Idle
<1>5. CASE FinishComment(w) \/ FinishUncomment(w) \/ Abort(w)
  BY <1>0, <1>5 DEF FinishComment, FinishUncomment, Abort, Stop, Step, Idle
<1> QED
  BY <1>1, <1>2, <1>3, <1>4, <1>5

\* Where likes are only removed, the ones that are left stay apart, and a
\* toggle that just read its like holds that one.
LEMMA LikesKept ==
  ASSUME RowsInv, LikesInv, NEW w \in Workers, likes' \subseteq likes,
         lastId' \in Nat, lastId' >= lastId,
         \A v \in Workers \ {w} : IsToggle(request'[v]) => request'[v] = request[v],
         \/ request'[w].op # "drop"
         \/ \E l \in likes : /\ request'[w].like = l.id
                             /\ request'[w].user = l.user /\ request'[w].post = l.post
  PROVE  LikesInv'
<1>1. /\ lastId \in Nat /\ \A l \in likes : l.id \in Nat
      /\ \A v \in Workers : request[v].op = "drop" => request[v].like \in Nat
  BY RequestType, PostsAssumption DEF RowsInv, TypeOK, Like, Ids
<1>2. LikesNumbered'
  BY <1>1 DEF LikesInv, LikesNumbered
<1>3. OneLikeEach'
  BY DEF LikesInv, OneLikeEach
<1>4. DropsOwnLike'
  BY <1>1 DEF LikesInv, DropsOwnLike, LikesNumbered, IsToggle
<1> QED
  BY <1>2, <1>3, <1>4 DEF LikesInv

\* unique_together and the next id keep a new like apart from the others.
LEMMA InsertLikes ==
  ASSUME RowsInv, LikesInv, NEW w \in Workers, InsertLike(w)
  PROVE  LikesInv'
<1> DEFINE r == request[w]
           new == [id |-> lastId + 1, user |-> r.user, post |-> r.post]
<1>1. /\ lastId \in Nat /\ \A l \in likes : l.id \in Nat
      /\ \A v \in Workers : request[v].op = "drop" => request[v].like \in Nat
  BY RequestType, PostsAssumption DEF RowsInv, TypeOK, Like, Ids
<1>2. lastId' = lastId + 1 /\ likes' = likes \cup {new}
  BY DEF InsertLike
<1>3. \A l \in likes : ~(l.user = r.user /\ l.post = r.post)
  BY DEF InsertLike, Insertable, Held
<1>4. LikesNumbered'
  BY <1>1, <1>2 DEF LikesInv, LikesNumbered
<1>5. OneLikeEach'
  BY <1>2, <1>3 DEF LikesInv, OneLikeEach
<1>6. /\ request'[w].op # "drop"
      /\ \A v \in Workers \ {w} : request'[v] = request[v]
  <2>1. r \in [op: ToggleOps, user: Users, post: Posts]
    BY DEF RowsInv, TypeOK, InsertLike, Request, Idle
  <2> QED
    BY <2>1 DEF RowsInv, TypeOK, InsertLike, Step
<1>7. DropsOwnLike'
  BY <1>1, <1>2, <1>6 DEF LikesInv, DropsOwnLike
<1> QED
  BY <1>4, <1>5, <1>7 DEF LikesInv

\* There are no likes at first.
LEMMA InitLikes == Init => LikesInv
BY DEF Init, LikesInv, LikesNumbered, OneLikeEach, DropsOwnLike, Idle

\* Every query keeps the likes apart.
LEMMA NextLikes == RowsInv /\ LikesInv /\ [Next]_vars => LikesInv'
<1> SUFFICES ASSUME RowsInv, LikesInv, [Next]_vars PROVE LikesInv'
  OBVIOUS
<1>0. TypeOK /\ lastId \in Nat
  BY PostsAssumption DEF RowsInv, TypeOK
<1>1. ASSUME NEW w \in Workers, Begin(w) \/ Continue(w) \/ Abort(w), ~InsertLike(w)
      PROVE  LikesInv'
  <2>1. \A v \in Workers \ {w} : IsToggle(request'[v]) => request'[v] = request[v]
    BY <1>0, <1>1, OtherToggles
  <2>2. \/ Begin(w) \/ FindLike(w) \/ RegainLike(w) \/ CatchIntegrityError(w) \/ RefuseLike(w)
        \/ FailToggle(w) \/ AnswerLiked(w) \/ Abort(w) \/ Upload(w) \/ FinishUpdate(w)
        \/ FinishDelete(w) \/ DropLike(w) \/ FinishComment(w) \/ FinishUncomment(w)
    BY <1>1 DEF Continue
  <2>3. likes' \subseteq likes /\ (lastId' = lastId \/ lastId' = lastId + 1)
    <3>1. CASE Begin(w)
      BY <3>1, BeginKeeps
    <3>2. CASE \/ FindLike(w) \/ RegainLike(w) \/ CatchIntegrityError(w) \/ RefuseLike(w)
               \/ FailToggle(w) \/ AnswerLiked(w) \/ Abort(w)
      BY <3>2 DEF FindLike, RegainLike, CatchIntegrityError, Get, RefuseLike, FailToggle, Fail,
                  AnswerLiked, Abort, tables
    <3>3. CASE \/ Upload(w) \/ FinishUpdate(w) \/ FinishDelete(w) \/ DropLike(w)
               \/ FinishComment(w) \/ FinishUncomment(w)
      BY <3>3 DEF Upload, FinishUpdate, FinishDelete, DropLike, FinishComment, FinishUncomment
    <3> QED
      BY <2>2, <3>1, <3>2, <3>3
  <2>4. lastId' \in Nat /\ lastId' >= lastId
    BY <1>0, <2>3
  <2>5. \/ request'[w].op # "drop"
        \/ \E l \in likes : /\ request'[w].like = l.id
                            /\ request'[w].user = l.user /\ request'[w].post = l.post
    <3> DEFINE r == request[w]
    <3>1. request \in [Workers -> Request \cup {Idle}]
      BY <1>0 DEF TypeOK
    <3>2. CASE FindLike(w) \/ RegainLike(w) \/ CatchIntegrityError(w)
      <4>1. r \in [op: ToggleOps, user: Users, post: Posts]
        BY <3>1, <3>2 DEF FindLike, RegainLike, CatchIntegrityError, Get, Request, Idle, ToggleOps
      <4>2. \/ \E l \in Held(r.user, r.post) :
                   request'[w] = [op |-> "drop", user |-> r.user, post |-> r.post, like |-> l.id]
            \/ \E op \in {"insert", "reraise", "idle"} : request'[w] = [r EXCEPT !.op = op]
        BY <3>1, <3>2 DEF FindLike, RegainLike, CatchIntegrityError, Get, Step
      <4>3. CASE \E op \in {"insert", "reraise", "idle"} : request'[w] = [r EXCEPT !.op = op]
        BY <4>1, <4>3
      <4>4. CASE \E l \in Held(r.user, r.post) :
                   request'[w] = [op |-> "drop", user |-> r.user, post |-> r.post, like |-> l.id]
        BY <4>4 DEF Held
      <4> QED
        BY <4>2, <4>3, <4>4
    <3>3. CASE RefuseLike(w)
      <4>1. r \in [op: ToggleOps, user: Users, post: Posts]
        BY <3>1, <3>3 DEF RefuseLike, Request, Idle
      <4> QED
        BY <3>1, <3>3, <4>1 DEF RefuseLike, Step
    <3>4. CASE FailToggle(w) \/ DropLike(w) \/ AnswerLiked(w)
      BY <3>1, <3>4 DEF FailToggle, Fail, DropLike, AnswerLiked, Stop, Step, Idle
    <3>5. CASE \E u \in Users, p \in Posts : BeginToggle(w, u, p)
      BY <3>1, <3>5 DEF BeginToggle, Start
    <3>6. CASE ~IsToggle(request'[w])
      BY <3>6 DEF IsToggle
    <3> QED
      BY <1>0, <2>2, <3>2, <3>3, <3>4, <3>5, <3>6, NotToggle DEF Begin
  <2> QED
    BY <2>1, <2>3, <2>4, <2>5, LikesKept
<1>2. CASE UNCHANGED vars
  BY <1>2 DEF vars, LikesInv, LikesNumbered, OneLikeEach, DropsOwnLike
<1> QED
  BY <1>1, <1>2, InsertLikes DEF Next

-----------------------------------------------------------------------------
(* The toggles: TogglesAlternate and FailuresHaveReason.                     *)

\* Nothing was toggled at first.
LEMMA InitToggles == Init => TogglesInv
BY DEF Init, TogglesInv, OverlapsTangled, ToggleInStep, TogglesAlternate, FailuresHaveReason,
       Toggling, ToggleOps, Held, Idle

\* The steps beside the toggles: none begins, and one that ends is tangled.
LEMMA TogglesKept ==
  ASSUME RowsInv, TogglesInv, UNCHANGED <<likes, toggled, failed>>,
         rows \subseteq rows', tangled \subseteq tangled',
         \A v \in Workers : IsToggle(request'[v]) => request'[v] = request[v],
         \A v \in Workers : IsToggle(request[v]) /\ request'[v] # request[v]
                                => <<request[v].user, request[v].post>> \in tangled'
  PROVE  TogglesInv'
<1>1. ASSUME NEW v \in Workers, NEW u \in Users, NEW p \in Posts, Toggling(v, u, p)'
      PROVE  Toggling(v, u, p)
  BY <1>1 DEF Toggling, IsToggle
<1>2. ASSUME NEW v \in Workers, NEW u \in Users, NEW p \in Posts, Toggling(v, u, p)
      PROVE  Toggling(v, u, p)' \/ <<u, p>> \in tangled'
  BY <1>2 DEF Toggling, IsToggle
<1>3. OverlapsTangled'
  BY <1>1 DEF TogglesInv, OverlapsTangled
<1>4. \A u, p : Held(u, p)' = Held(u, p)
  BY DEF Held
<1>5. ToggleInStep'
  BY <1>4 DEF TogglesInv, ToggleInStep, IsToggle, Held
<1>6. TogglesAlternate'
  BY <1>2, <1>4 DEF TogglesInv, TogglesAlternate
<1>7. FailuresHaveReason'
  BY DEF TogglesInv, FailuresHaveReason
<1> QED
  BY <1>3, <1>5, <1>6, <1>7 DEF TogglesInv

\* A query of a toggle changes nothing for other pairs of a user and a post;
\* where nothing overlapped it, it leaves its own pair in step.
LEMMA TogglesStep ==
  ASSUME RowsInv, TogglesInv, NEW w \in Workers, NEW u0 \in Users, NEW p0 \in Posts,
         NEW next \in Request \cup {Idle},
         Toggling(w, u0, p0), Step(w, next), rows' = rows, tangled' = tangled,
         next = Idle \/ (IsToggle(next) /\ next.user = u0 /\ next.post = p0),
         \A f \in failed' : f \in failed \/ <<f.user, f.post>> \in tangled,
         \A u \in Users, p \in Posts : ~(u = u0 /\ p = p0) =>
             Held(u, p)' = Held(u, p) /\ (<<u, p>> \in toggled' <=> <<u, p>> \in toggled),
         <<u0, p0>> \notin tangled =>
             \/ next = Idle /\ (Held(u0, p0)' # {} <=> <<u0, p0>> \in toggled')
             \/ next.op = "insert" /\ Held(u0, p0)' = {} /\ <<u0, p0>> \notin toggled'
             \/ next.op = "answer" /\ Held(u0, p0)' # {} /\ <<u0, p0>> \notin toggled'
             \/ /\ next.op = "drop" /\ \E l \in Held(u0, p0)' : l.id = next.like
                /\ <<u0, p0>> \in toggled'
  PROVE  TogglesInv'
<1>0. TypeOK
  BY DEF RowsInv
<1>1. /\ request'[w] = next /\ \A v \in Workers \ {w} : request'[v] = request[v]
  BY <1>0, StepType
<1>2. ~IsToggle(Idle)
  BY DEF IsToggle, Idle, ToggleOps
<1>3. \A v \in Workers \ {w}, u \in Users, p \in Posts :
          /\ Toggling(v, u, p)' <=> Toggling(v, u, p)
          /\ Toggling(v, u, p) /\ u = u0 /\ p = p0 => <<u, p>> \in tangled
  BY <1>1 DEF Toggling, TogglesInv, OverlapsTangled
<1>4. \A u \in Users, p \in Posts : Toggling(w, u, p)' => u = u0 /\ p = p0 /\ next # Idle
  BY <1>1, <1>2 DEF Toggling, IsToggle
<1>5. OverlapsTangled'
  BY <1>3, <1>4 DEF TogglesInv, OverlapsTangled
<1>6. ToggleInStep'
  <2> SUFFICES ASSUME NEW v \in Workers, NEW r, r = request'[v], IsToggle(r),
                      <<r.user, r.post>> \notin tangled
               PROVE  /\ r.post \in rows
                      /\ \/ r.op = "find" /\ (Held(r.user, r.post)' # {}
                                                  <=> <<r.user, r.post>> \in toggled')
                         \/ /\ r.op = "insert" /\ Held(r.user, r.post)' = {}
                            /\ <<r.user, r.post>> \notin toggled'
                         \/ /\ r.op = "answer" /\ Held(r.user, r.post)' # {}
                            /\ <<r.user, r.post>> \notin toggled'
                         \/ /\ r.op = "drop" /\ \E l \in Held(r.user, r.post)' : l.id = r.like
                            /\ <<r.user, r.post>> \in toggled'
    BY DEF ToggleInStep, IsToggle
  <2>1. CASE v = w
    <3>1. r = next /\ next # Idle /\ r.user = u0 /\ r.post = p0
      BY <1>1, <1>2, <2>1
    <3>2. p0 \in rows
      BY <3>1 DEF TogglesInv, ToggleInStep, Toggling
    <3> QED
      BY <1>2, <3>1, <3>2
  <2>2. CASE v # w
    <3>1. r = request[v] /\ r.user \in Users /\ r.post \in Posts
      BY <1>0, <1>1, <2>2, RequestType DEF IsToggle
    <3>2. Toggling(v, r.user, r.post)
      BY <3>1 DEF Toggling, IsToggle
    <3>3. ~(r.user = u0 /\ r.post = p0)
      BY <1>3, <2>2, <3>1, <3>2
    <3>4. /\ Held(r.user, r.post)' = Held(r.user, r.post)
          /\ <<r.user, r.post>> \in toggled' <=> <<r.user, r.post>> \in toggled
      BY <3>1, <3>3
    <3>5. /\ r.post \in rows
          /\ \/ r.op = "find" /\ (Held(r.user, r.post) # {}
                                      <=> <<r.user, r.post>> \in toggled)
             \/ /\ r.op = "insert" /\ Held(r.user, r.post) = {}
                /\ <<r.user, r.post>> \notin toggled
             \/ /\ r.op = "answer" /\ Held(r.user, r.post) # {}
                /\ <<r.user, r.post>> \notin toggled
             \/ /\ r.op = "drop" /\ \E l \in Held(r.user, r.post) : l.id = r.like
                /\ <<r.user, r.post>> \in toggled
      BY <3>1 DEF TogglesInv, ToggleInStep, IsToggle
    <3> QED
      BY <3>4, <3>5
  <2> QED
    BY <2>1, <2>2
<1>7. TogglesAlternate'
  <2> SUFFICES ASSUME NEW u \in Users, NEW p \in Posts, <<u, p>> \notin tangled,
                      \A v \in Workers : ~Toggling(v, u, p)'
               PROVE  Held(u, p)' # {} <=> <<u, p>> \in toggled'
    BY DEF TogglesAlternate
  <2>1. CASE u = u0 /\ p = p0
    <3>1. next = Idle
      BY <1>1, <2>1 DEF Toggling, IsToggle
    <3> QED
      BY <2>1, <3>1 DEF Idle
  <2>2. CASE ~(u = u0 /\ p = p0)
    <3>1. \A v \in Workers : ~Toggling(v, u, p)
      BY <1>3, <2>2 DEF Toggling
    <3>2. Held(u, p) # {} <=> <<u, p>> \in toggled
      BY <3>1 DEF TogglesInv, TogglesAlternate
    <3> QED
      BY <2>2, <3>2
  <2> QED
    BY <2>1, <2>2
<1>8. FailuresHaveReason'
  BY DEF TogglesInv, FailuresHaveReason
<1> QED
  BY <1>5, <1>6, <1>7, <1>8 DEF TogglesInv

\* A toggle begins: where another of the pair is on its way, they are tangled;
\* else likes and answers agree, as they did before.
LEMMA BeginToggles ==
  ASSUME RowsInv, TogglesInv, NEW w \in Workers, NEW u \in Users, NEW p \in Posts,
         BeginToggle(w, u, p)
  PROVE  TogglesInv'
<1> DEFINE next == [op |-> "find", user |-> u, post |-> p]
<1>1. /\ request'[w] = next /\ ~IsToggle(request[w])
      /\ \A v \in Workers \ {w} : request'[v] = request[v]
  BY DEF BeginToggle, Start, RowsInv, TypeOK, IsToggle, ToggleOps, Idle
<1>2. /\ likes' = likes /\ rows' = rows /\ toggled' = toggled /\ failed' = failed
      /\ p \in rows /\ tangled \subseteq tangled'
      /\ (\E v \in Workers : Toggling(v, u, p)) => <<u, p>> \in tangled'
  BY DEF BeginToggle, tables
<1>3. /\ \A v \in Workers \ {w}, a \in Users, q \in Posts : Toggling(v, a, q)' <=> Toggling(v, a, q)
      /\ \A a \in Users, q \in Posts : Toggling(w, a, q)' => a = u /\ q = p
      /\ \A a \in Users, q \in Posts : ~Toggling(w, a, q)
      /\ Toggling(w, u, p)'
  BY <1>1 DEF Toggling, IsToggle, ToggleOps
<1>4. OverlapsTangled'
  BY <1>2, <1>3 DEF TogglesInv, OverlapsTangled
<1>5. \A a, q : Held(a, q)' = Held(a, q)
  BY <1>2 DEF Held
<1>6. ToggleInStep'
  <2>1. ASSUME <<u, p>> \notin tangled'
        PROVE  Held(u, p) # {} <=> <<u, p>> \in toggled
    <3>1. <<u, p>> \notin tangled /\ \A v \in Workers : ~Toggling(v, u, p)
      BY <1>2, <2>1
    <3> QED
      BY <3>1 DEF TogglesInv, TogglesAlternate
  <2>2. ASSUME NEW v \in Workers \ {w}, IsToggle(request[v]),
               <<request[v].user, request[v].post>> \notin tangled'
        PROVE  <<request[v].user, request[v].post>> \notin tangled
    BY <1>2, <2>2
  <2> QED
    BY <1>1, <1>2, <1>5, <2>1, <2>2 DEF TogglesInv, ToggleInStep, IsToggle, ToggleOps, Held
<1>7. TogglesAlternate'
  BY <1>2, <1>3, <1>5 DEF TogglesInv, TogglesAlternate
<1>8. FailuresHaveReason'
  BY <1>2 DEF TogglesInv, FailuresHaveReason
<1> QED
  BY <1>4, <1>6, <1>7, <1>8 DEF TogglesInv

\* The deletion of a post takes its likes, starts the count of its toggles
\* anew, and tangles those that are on their way.
LEMMA DeleteToggles ==
  ASSUME RowsInv, TogglesInv, NEW w \in Workers, NEW p, p = request[w].post, FinishDelete(w)
  PROVE  TogglesInv'
<1>0. TypeOK
  BY DEF RowsInv
<1>1. p \in Posts
  BY <1>0, RequestType DEF FinishDelete
<1>2. \A v \in Workers : IsToggle(request[v]) \/ IsToggle(request'[v]) => request'[v] = request[v]
  <2>1. \A v \in Workers \ {w} :
            IsToggle(request[v]) \/ IsToggle(request'[v]) => request'[v] = request[v]
    BY <1>0, OtherToggles DEF Continue
  <2>2. ~IsToggle(request'[w]) /\ ~IsToggle(request[w])
    <3>1. ~IsToggle(request'[w])
      BY <1>0, NotToggle
    <3>2. ~IsToggle(request[w])
      BY DEF FinishDelete, IsToggle, ToggleOps
    <3> QED
      BY <3>1, <3>2
  <2> QED
    BY <2>1, <2>2
<1>3. /\ rows' = rows \ {p} /\ likes' = {l \in likes : l.post # p}
      /\ toggled' = {t \in toggled : t[2] # p} /\ failed' = failed
      /\ tangled \subseteq tangled'
      /\ \A v \in Workers : IsToggle(request[v]) /\ request[v].post = p
                                => <<request[v].user, p>> \in tangled'
  BY DEF FinishDelete, IsToggle
<1>4. /\ \A u \in Users, q \in Posts \ {p} :
             Held(u, q)' = Held(u, q) /\ (<<u, q>> \in toggled' <=> <<u, q>> \in toggled)
      /\ \A u \in Users : Held(u, p)' = {} /\ <<u, p>> \notin toggled'
  BY <1>3 DEF Held
<1>5. \A v \in Workers, u \in Users, q \in Posts : Toggling(v, u, q)' <=> Toggling(v, u, q)
  BY <1>2 DEF Toggling, IsToggle
<1>6. OverlapsTangled'
  BY <1>3, <1>5 DEF TogglesInv, OverlapsTangled
<1>7. ToggleInStep'
  <2> SUFFICES ASSUME NEW v \in Workers, NEW r, r = request'[v], IsToggle(r),
                      <<r.user, r.post>> \notin tangled'
               PROVE  /\ r.post \in rows'
                      /\ \/ r.op = "find" /\ (Held(r.user, r.post)' # {}
                                                  <=> <<r.user, r.post>> \in toggled')
                         \/ /\ r.op = "insert" /\ Held(r.user, r.post)' = {}
                            /\ <<r.user, r.post>> \notin toggled'
                         \/ /\ r.op = "answer" /\ Held(r.user, r.post)' # {}
                            /\ <<r.user, r.post>> \notin toggled'
                         \/ /\ r.op = "drop" /\ \E l \in Held(r.user, r.post)' : l.id = r.like
                            /\ <<r.user, r.post>> \in toggled'
    BY DEF ToggleInStep, IsToggle
  <2>1. r = request[v]
    BY <1>2
  <2>2. r.user \in Users /\ r.post \in Posts
    BY <1>0, <2>1, RequestType DEF IsToggle
  <2>3. r.post # p
    BY <1>3, <2>1
  <2>4. <<r.user, r.post>> \notin tangled
    BY <1>3
  <2>5. /\ r.post \in rows
        /\ \/ r.op = "find" /\ (Held(r.user, r.post) # {}
                                    <=> <<r.user, r.post>> \in toggled)
           \/ /\ r.op = "insert" /\ Held(r.user, r.post) = {}
              /\ <<r.user, r.post>> \notin toggled
           \/ /\ r.op = "answer" /\ Held(r.user, r.post) # {}
              /\ <<r.user, r.post>> \notin toggled
           \/ /\ r.op = "drop" /\ \E l \in Held(r.user, r.post) : l.id = r.like
              /\ <<r.user, r.post>> \in toggled
    BY <2>1, <2>4 DEF TogglesInv, ToggleInStep, IsToggle
  <2>6. /\ Held(r.user, r.post)' = Held(r.user, r.post)
        /\ <<r.user, r.post>> \in toggled' <=> <<r.user, r.post>> \in toggled
    BY <1>4, <2>2, <2>3
  <2> QED
    BY <1>3, <2>3, <2>5, <2>6
<1>8. TogglesAlternate'
  <2> SUFFICES ASSUME NEW u \in Users, NEW q \in Posts, <<u, q>> \notin tangled',
                      \A v \in Workers : ~Toggling(v, u, q)'
               PROVE  Held(u, q)' # {} <=> <<u, q>> \in toggled'
    BY DEF TogglesAlternate
  <2>1. CASE q = p
    BY <1>4, <2>1
  <2>2. CASE q # p
    <3>1. Held(u, q) # {} <=> <<u, q>> \in toggled
      BY <1>3, <1>5 DEF TogglesInv, TogglesAlternate
    <3> QED
      BY <1>4, <2>2, <3>1
  <2> QED
    BY <2>1, <2>2
<1>9. FailuresHaveReason'
  BY <1>3 DEF TogglesInv, FailuresHaveReason
<1> QED
  BY <1>6, <1>7, <1>8, <1>9 DEF TogglesInv

\* Where a toggle stands that nothing overlapped.
LEMMA InStep ==
  ASSUME RowsInv, TogglesInv, NEW w \in Workers, NEW r, r = request[w], IsToggle(r)
  PROVE  /\ r.user \in Users /\ r.post \in Posts /\ Toggling(w, r.user, r.post)
         /\ <<r.user, r.post>> \notin tangled =>
                /\ r.post \in rows
                /\ r.op = "find" => (Held(r.user, r.post) # {} <=> <<r.user, r.post>> \in toggled)
                /\ r.op = "insert" => Held(r.user, r.post) = {} /\ <<r.user, r.post>> \notin toggled
                /\ r.op = "answer" => Held(r.user, r.post) # {} /\ <<r.user, r.post>> \notin toggled
                /\ r.op = "drop" => /\ \E l \in Held(r.user, r.post) : l.id = r.like
                                    /\ <<r.user, r.post>> \in toggled
                /\ r.op \notin {"regain", "reraise"}
<1>1. r.user \in Users /\ r.post \in Posts
  BY RequestType DEF RowsInv, IsToggle
<1> QED
  BY <1>1 DEF TogglesInv, ToggleInStep, Toggling, IsToggle

\* The queries that only read.
LEMMA ReadToggles ==
  ASSUME RowsInv, TogglesInv, NEW w \in Workers, NEW r, r = request[w],
         FindLike(w) \/ RegainLike(w) \/ CatchIntegrityError(w) \/ RefuseLike(w)
  PROVE  TogglesInv'
<1> DEFINE u == r.user
           p == r.post
<1>1. r.op \in {"find", "insert", "regain", "reraise"} /\ IsToggle(r)
  BY DEF FindLike, RegainLike, CatchIntegrityError, Get, RefuseLike, IsToggle, ToggleOps
<1>2. /\ u \in Users /\ p \in Posts /\ Toggling(w, u, p)
      /\ <<u, p>> \notin tangled =>
             /\ p \in rows
             /\ r.op = "find" => (Held(u, p) # {} <=> <<u, p>> \in toggled)
             /\ r.op = "insert" => Held(u, p) = {}
             /\ r.op \notin {"regain", "reraise"}
  BY <1>1, InStep
<1>3. r \in [op: ToggleOps, user: Users, post: Posts]
  BY <1>1 DEF RowsInv, TypeOK, Request, Idle, ToggleOps
<1>4. /\ likes' = likes /\ rows' = rows /\ toggled' = toggled /\ tangled' = tangled
      /\ failed' = failed
  BY DEF FindLike, RegainLike, CatchIntegrityError, Get, RefuseLike, tables, toggles
<1>5. \A a, q : Held(a, q)' = Held(a, q)
  BY <1>4 DEF Held
<1>6. ASSUME NEW next \in Request, IsToggle(next), next.user = u, next.post = p, Step(w, next),
             <<u, p>> \notin tangled =>
                 \/ next.op = "insert" /\ Held(u, p) = {} /\ <<u, p>> \notin toggled
                 \/ /\ next.op = "drop" /\ \E l \in Held(u, p) : l.id = next.like
                    /\ <<u, p>> \in toggled
      PROVE  TogglesInv'
  BY <1>2, <1>4, <1>5, <1>6, TogglesStep
<1>7. CASE RefuseLike(w)
  <2> DEFINE next == [r EXCEPT !.op = "regain"]
  <2>1. next \in Request /\ IsToggle(next) /\ next.user = u /\ next.post = p
    BY <1>3 DEF Request, IsToggle, ToggleOps
  <2>2. Step(w, next)
    BY <1>7 DEF RefuseLike
  <2>3. <<u, p>> \in tangled
    BY <1>2, <1>7 DEF RefuseLike, Insertable
  <2> HIDE DEF next
  <2> QED
    BY <1>6, <2>1, <2>2, <2>3
<1>8. ASSUME NEW l \in Held(u, p), r.op \in {"find", "regain", "reraise"},
             Step(w, [op |-> "drop", user |-> u, post |-> p, like |-> l.id])
      PROVE  TogglesInv'
  <2> DEFINE next == [op |-> "drop", user |-> u, post |-> p, like |-> l.id]
  <2>1. next \in Request /\ IsToggle(next)
    BY <1>2 DEF Request, IsToggle, Held, RowsInv, TypeOK, Like
  <2>2. next.op = "drop" /\ next.user = u /\ next.post = p /\ next.like = l.id
    OBVIOUS
  <2>3. <<u, p>> \notin tangled => <<u, p>> \in toggled
    BY <1>2, <1>8
  <2>4. Step(w, next)
    BY <1>8
  <2> HIDE DEF next
  <2> QED
    BY <1>6, <2>1, <2>2, <2>3, <2>4
<1>9. ASSUME Held(u, p) = {}, r.op \in {"find", "regain"},
             NEW op \in {"insert", "reraise"}, Step(w, [r EXCEPT !.op = op]),
             r.op = "find" => op = "insert"
      PROVE  TogglesInv'
  <2> DEFINE next == [r EXCEPT !.op = op]
  <2>1. next \in Request /\ IsToggle(next) /\ next.user = u /\ next.post = p /\ next.op = op
    BY <1>3 DEF Request, IsToggle, ToggleOps
  <2>2. <<u, p>> \notin tangled => op = "insert" /\ <<u, p>> \notin toggled
    BY <1>2, <1>9
  <2>3. Step(w, next)
    BY <1>9
  <2> HIDE DEF next
  <2> QED
    BY <1>6, <1>9, <2>1, <2>2, <2>3
<1>10. CASE FindLike(w) \/ RegainLike(w) \/ CatchIntegrityError(w)
  <2>1. CASE FindLike(w)
    BY <1>8, <1>9, <2>1 DEF FindLike, Get
  <2>2. CASE RegainLike(w)
    BY <1>8, <1>9, <2>2 DEF RegainLike, Get
  <2>3. CASE CatchIntegrityError(w)
    BY <1>8, <2>3 DEF CatchIntegrityError, Get
  <2> QED
    BY <1>10, <2>1, <2>2, <2>3
<1> QED
  BY <1>7, <1>10

\* The like that a toggle writes is the first of its pair.
LEMMA InsertToggles ==
  ASSUME RowsInv, TogglesInv, NEW w \in Workers, NEW r, r = request[w], InsertLike(w)
  PROVE  TogglesInv'
<1> DEFINE u == r.user
           p == r.post
           next == [r EXCEPT !.op = "answer"]
<1>1. r.op = "insert" /\ IsToggle(r)
  BY DEF InsertLike, IsToggle, ToggleOps
<1>2. /\ u \in Users /\ p \in Posts /\ Toggling(w, u, p)
      /\ <<u, p>> \notin tangled => <<u, p>> \notin toggled
  BY <1>1, InStep
<1>3. r \in [op: ToggleOps, user: Users, post: Posts]
  BY <1>1 DEF RowsInv, TypeOK, Request, Idle
<1>4. next \in Request /\ IsToggle(next) /\ next.user = u /\ next.post = p /\ next.op = "answer"
  BY <1>3 DEF Request, IsToggle, ToggleOps
<1>5. /\ likes' = likes \cup {[id |-> lastId', user |-> u, post |-> p]} /\ rows' = rows
      /\ toggled' = toggled /\ tangled' = tangled /\ failed' = failed /\ Step(w, next)
  BY DEF InsertLike, toggles
<1>6. \A a \in Users, q \in Posts : ~(a = u /\ q = p) => Held(a, q)' = Held(a, q)
  BY <1>5 DEF Held
<1>7. Held(u, p)' # {}
  <2> DEFINE new == [id |-> lastId', user |-> u, post |-> p]
  <2>1. new \in likes' /\ new.user = u /\ new.post = p
    BY <1>5
  <2> HIDE DEF new
  <2>2. new \in {l \in likes' : l.user = u /\ l.post = p}
    BY <2>1
  <2> QED
    BY <2>2 DEF Held
<1> HIDE DEF next
<1> QED
  BY <1>2, <1>4, <1>5, <1>6, <1>7, TogglesStep

\* The like that a toggle deletes is its own, and the only one of its pair.
LEMMA DropToggles ==
  ASSUME RowsInv, LikesInv, TogglesInv, NEW w \in Workers, NEW r, r = request[w], DropLike(w)
  PROVE  TogglesInv'
<1> DEFINE u == r.user
           p == r.post
<1>1. r.op = "drop" /\ IsToggle(r)
  BY DEF DropLike, IsToggle
<1>2. /\ u \in Users /\ p \in Posts /\ Toggling(w, u, p)
      /\ <<u, p>> \notin tangled =>
             (\E l \in Held(u, p) : l.id = r.like) /\ <<u, p>> \in toggled
  BY <1>1, InStep
<1>3. /\ likes' = {l \in likes : l.id # r.like} /\ rows' = rows
      /\ toggled' = (toggled \ {<<u, p>>}) \cup ({<<u, p>>} \ toggled)
      /\ tangled' = tangled /\ failed' = failed /\ Step(w, Idle)
  BY DEF DropLike, Answer, Stop
<1>4. \A l \in likes : l.id = r.like => l.user = u /\ l.post = p
  BY <1>1 DEF LikesInv, DropsOwnLike
<1>5. \A a \in Users, q \in Posts : ~(a = u /\ q = p) =>
          Held(a, q)' = Held(a, q) /\ (<<a, q>> \in toggled' <=> <<a, q>> \in toggled)
  <2>1. ASSUME NEW a \in Users, NEW q \in Posts, ~(a = u /\ q = p)
        PROVE  Held(a, q)' = Held(a, q)
    BY <1>3, <1>4, <2>1 DEF Held
  <2> QED
    BY <1>3, <2>1
<1>6. <<u, p>> \notin tangled => (Held(u, p)' # {} <=> <<u, p>> \in toggled')
  <2> SUFFICES ASSUME <<u, p>> \notin tangled
               PROVE  Held(u, p)' = {} /\ <<u, p>> \notin toggled'
    OBVIOUS
  <2>1. PICK l \in Held(u, p) : l.id = r.like
    BY <1>2
  <2>2. \A m \in Held(u, p) : m = l
    BY <2>1 DEF LikesInv, OneLikeEach, Held
  <2>3. Held(u, p)' = {}
    BY <1>3, <2>1, <2>2 DEF Held
  <2> QED
    BY <1>2, <1>3, <2>3
<1> QED
  BY <1>2, <1>3, <1>5, <1>6, TogglesStep DEF TogglesInv

\* The answer that a like was made, and the exceptions.
LEMMA AnswerToggles ==
  ASSUME RowsInv, TogglesInv, NEW w \in Workers, NEW r, r = request[w],
         AnswerLiked(w) \/ FailToggle(w)
  PROVE  TogglesInv'
<1> DEFINE u == r.user
           p == r.post
<1>1. r.op \in {"answer", "reraise"} /\ IsToggle(r)
  BY DEF AnswerLiked, FailToggle, IsToggle, ToggleOps
<1>2. /\ u \in Users /\ p \in Posts /\ Toggling(w, u, p)
      /\ <<u, p>> \notin tangled =>
             /\ p \in rows /\ r.op # "reraise"
             /\ r.op = "answer" => Held(u, p) # {} /\ <<u, p>> \notin toggled
  BY <1>1, InStep
<1>3. /\ likes' = likes /\ rows' = rows /\ tangled' = tangled /\ Step(w, Idle)
  BY DEF AnswerLiked, FailToggle, Fail, Stop, tables
<1>4. \A a, q : Held(a, q)' = Held(a, q)
  BY <1>3 DEF Held
<1>5. ASSUME <<u, p>> \in tangled, NEW gone, toggled' = toggled,
             failed' = failed \cup {[user |-> u, post |-> p, gone |-> gone]}
      PROVE  TogglesInv'
  <2>1. \A f \in failed' : f \in failed \/ <<f.user, f.post>> \in tangled
    BY <1>5
  <2> QED
    BY <1>2, <1>3, <1>4, <1>5, <2>1, TogglesStep
<1>6. CASE FailToggle(w)
  <2>1. <<u, p>> \in tangled
    BY <1>2, <1>6 DEF FailToggle
  <2>2. /\ toggled' = toggled
        /\ failed' = failed \cup {[user |-> u, post |-> p, gone |-> p \notin rows]}
    BY <1>6 DEF FailToggle, Fail
  <2> QED
    BY <1>5, <2>1, <2>2
<1>7. CASE AnswerLiked(w) /\ p \notin rows
  <2>1. <<u, p>> \in tangled
    BY <1>2, <1>7
  <2>2. toggled' = toggled /\ failed' = failed \cup {[user |-> u, post |-> p, gone |-> TRUE]}
    BY <1>7 DEF AnswerLiked, Fail
  <2> QED
    BY <1>5, <2>1, <2>2
<1>8. CASE AnswerLiked(w) /\ p \in rows
  <2>1. /\ toggled' = (toggled \ {<<u, p>>}) \cup ({<<u, p>>} \ toggled) /\ failed' = failed
    BY <1>8 DEF AnswerLiked, Answer
  <2>2. <<u, p>> \notin tangled => Held(u, p) # {} /\ <<u, p>> \notin toggled
    BY <1>2, <1>8 DEF AnswerLiked
  <2>3. <<u, p>> \notin tangled => (Held(u, p)' # {} <=> <<u, p>> \in toggled')
    BY <1>4, <2>1, <2>2
  <2> QED
    BY <1>2, <1>3, <1>4, <2>1, <2>3, TogglesStep
<1> QED
  BY <1>6, <1>7, <1>8

\* Everything else passes the toggles by.
LEMMA OtherRequests ==
  ASSUME RowsInv, TogglesInv, NEW w \in Workers,
         \/ \E u \in Users, p \in Posts, c \in Contents, image \in BOOLEAN :
                \/ Create(w, u, p, c, image)
                \/ \E edits \in SUBSET Fields : BeginUpdate(w, u, p, c, image, edits)
         \/ \E u \in Users, p \in Posts : BeginDelete(w, u, p) \/ BeginComment(w, u, p)
         \/ \E u \in Users, c \in comments : BeginUncomment(w, u, c)
         \/ Upload(w) \/ FinishUpdate(w)
         \/ FinishComment(w) \/ FinishUncomment(w) \/ Abort(w)
  PROVE  TogglesInv'
<1>1. TypeOK
  BY DEF RowsInv
<1>2. Begin(w) \/ Continue(w) \/ Abort(w)
  BY DEF Begin, Continue
<1>3. \A v \in Workers \ {w} :
          IsToggle(request[v]) \/ IsToggle(request'[v]) => request'[v] = request[v]
  BY <1>1, <1>2, OtherToggles
<1>4. ~IsToggle(request'[w]) /\ (~IsToggle(request[w]) \/ Abort(w))
  BY <1>1, NotToggle
<1>5. Abort(w) /\ IsToggle(request[w]) => <<request[w].user, request[w].post>> \in tangled'
  BY DEF Abort, IsToggle
<1>6. /\ UNCHANGED <<likes, toggled, failed>>
      /\ rows \subseteq rows' /\ tangled \subseteq tangled'
  <2>1. CASE Begin(w)
    BY <2>1, BeginKeeps
  <2>2. CASE \/ Upload(w) \/ FinishUpdate(w) \/ FinishComment(w) \/ FinishUncomment(w)
    BY <2>2 DEF Upload, FinishUpdate, FinishComment, FinishUncomment, toggles
  <2>3. CASE Abort(w)
    BY <2>3 DEF Abort, tables
  <2> QED
    BY <2>1, <2>2, <2>3 DEF Begin
<1> QED
  BY <1>3, <1>4, <1>5, <1>6, TogglesKept

\* Every query keeps the toggles in step with the likes.
LEMMA NextToggles == RowsInv /\ LikesInv /\ TogglesInv /\ [Next]_vars => TogglesInv'
<1> SUFFICES ASSUME RowsInv, LikesInv, TogglesInv, [Next]_vars PROVE TogglesInv'
  OBVIOUS
<1>1. ASSUME NEW w \in Workers, Begin(w) PROVE TogglesInv'
  BY <1>1, BeginToggles, OtherRequests DEF Begin
<1>2. ASSUME NEW w \in Workers, Continue(w) \/ Abort(w) PROVE TogglesInv'
  BY <1>2, DeleteToggles, ReadToggles, InsertToggles, DropToggles, AnswerToggles, OtherRequests
  DEF Continue
<1>3. CASE UNCHANGED vars
  BY <1>3 DEF vars, TogglesInv, OverlapsTangled, ToggleInStep, TogglesAlternate,
              FailuresHaveReason, Toggling, Held
<1> QED
  BY <1>1, <1>2, <1>3 DEF Next

-----------------------------------------------------------------------------
(* Theorems.                                                                 *)

\* The invariant of rows, copies, likes and toggles is inductive.
THEOREM Invariance == Spec => []IInv
<1>1. Init => IInv
  BY InitRows, InitConfirmed, InitLikes, InitToggles DEF IInv
<1>2. IInv /\ [Next]_vars => IInv'
  BY NextRows, NextConfirmed, NextLikes, NextToggles DEF IInv
<1> QED
  BY <1>1, <1>2, PTL DEF Spec

\* Posts are typed as TypeOK says.
THEOREM TypeCorrect == Spec => []TypeOK
<1>1. IInv => TypeOK
  BY DEF IInv, RowsInv
<1> QED
  BY <1>1, Invariance, PTL

\* delete_post with its CASCADE against the handlers of likes, comments and
\* edits in flight: no like or comment is older than its post's last deletion.
THEOREM NothingOutlives == Spec => []NothingOutlivesItsPost
<1>1. IInv => NothingOutlivesItsPost
  BY DEF IInv, RowsInv
<1> QED
  BY <1>1, Invariance, PTL

\* PostDetailView.put and the upload: each field is as last asked for, unless a
\* stale copy was saved.
THEOREM Confirmed == Spec => []PostAsConfirmed
<1>1. IInv => PostAsConfirmed
  BY DEF IInv, ConfirmedInv
<1> QED
  BY <1>1, Invariance, PTL

\* toggle_like: toggles that overlap nothing alternate.
THEOREM Alternation == Spec => []TogglesAlternate
<1>1. IInv => TogglesAlternate
  BY DEF IInv, TogglesInv
<1> QED
  BY <1>1, Invariance, PTL

\* toggle_like and LikeToggleView: a toggle fails only where it overlapped.
THEOREM FailuresExplained == Spec => []FailuresHaveReason
<1>1. IInv => FailuresHaveReason
  BY DEF IInv, TogglesInv
<1> QED
  BY <1>1, Invariance, PTL
=============================================================================
