------------------------- MODULE NotificationsProofs -------------------------
(* Theorems about module Notifications, for any users, follows of the past,  *)
(* numbers of events and numbers of retries.                                 *)
EXTENDS Notifications, FiniteSetTheorems, SequenceTheorems, TLAPS

-----------------------------------------------------------------------------
(* Events and tasks. *)

\* A new follow, post or like comes after the others and leaves them alone.
LEMMA RecordAppends ==
  ASSUME TypeOK, NEW kind \in {"follow", "post", "like"}, NEW actor \in Users,
         NEW target \in Users, Record(kind, actor, target)
  PROVE  /\ events' \in Seq(Event) /\ Len(events) \in Nat
         /\ Len(events') = Len(events) + 1 /\ Len(events') <= MaxEvents
         /\ NextId = Len(events) + 1 /\ NextId \in Ids
         /\ \A e \in 1..Len(events) : events'[e] = events[e]
         /\ events'[NextId] = [kind |-> kind, actor |-> actor, target |-> target]
<1> DEFINE event == [kind |-> kind, actor |-> actor, target |-> target]
<1>1. event \in Event /\ events \in Seq(Event) /\ Len(events) < MaxEvents
      /\ events' = Append(events, event)
  BY DEF TypeOK, Record, Event
<1>2. /\ events' \in Seq(Event) /\ Len(events') = Len(events) + 1
      /\ \A e \in 1..Len(events) : events'[e] = events[e]
      /\ events'[Len(events) + 1] = event
  BY <1>1, AppendProperties
<1>3. Len(events) \in Nat /\ MaxEvents \in Nat
  BY <1>1, LenProperties, NotificationsAssumption
<1> QED
  BY <1>1, <1>2, <1>3 DEF NextId, Ids

\* What events hold.
LEMMA EventType ==
  ASSUME TypeOK, NEW e \in 1..Len(events)
  PROVE  events[e].actor \in Users /\ events[e].target \in Users /\ e \in Ids
<1>1. events[e] \in Event /\ Len(events) \in Nat
  BY ElementOfSeq, LenProperties DEF TypeOK
<1> QED
  BY <1>1, NotificationsAssumption DEF Event, Ids, TypeOK

\* delay() queues the task or loses it.
LEMMA DelayType ==
  ASSUME TypeOK, NEW task \in Task, Delay(task)
  PROVE  tasks' \subseteq Task /\ lost' \subseteq Ids
BY DEF TypeOK, Delay, Task

\* The rows a task writes are of its event.
LEMMA RowType ==
  ASSUME NEW task \in Task, IsFiniteSet(rows)
  PROVE  RowOf(task) \in Notification
<1>1. Cardinality(Told(task.recipient, task.event)) \in Nat
  BY FS_Subset, FS_CardinalityType DEF Told
<1> QED
  BY <1>1 DEF RowOf, Task, Notification

-----------------------------------------------------------------------------
(* Type correctness. *)

LEMMA InitTypeOK == Init => TypeOK
<1> SUFFICES ASSUME Init PROVE TypeOK
  OBVIOUS
<1>1. events \in Seq(Event) /\ Len(events) = 0
  BY EmptySeq DEF Init
<1> QED
  BY <1>1, NotificationsAssumption DEF Init, TypeOK

\* Following and unfollowing keep the type.
LEMMA FollowTypeOK ==
  ASSUME TypeOK, NEW a \in Users, NEW b \in Users, Follow(a, b) \/ Unfollow(a, b)
  PROVE  TypeOK'
<1>0. 0 \in 0..MaxRetries
  BY NotificationsAssumption
<1>1. CASE Follow(a, b)
  <2>1. events' \in Seq(Event) /\ Len(events') <= MaxEvents /\ NextId \in Ids
    BY <1>1, RecordAppends DEF Follow
  <2>2. create_follow_notification(a, b, NextId) \in Task
    BY <1>0, <2>1 DEF create_follow_notification, OneTask, Task
  <2>3. tasks' \subseteq Task /\ lost' \subseteq Ids
    BY <1>1, <2>2, DelayType DEF Follow
  <2> QED
    BY <1>1, <2>1, <2>3 DEF Follow, TypeOK
<1>2. CASE Unfollow(a, b)
  BY <1>2 DEF Unfollow, TypeOK
<1> QED
  BY <1>1, <1>2

\* A transaction of create_post is of a user, and counts users.
LEMMA DraftType ==
  ASSUME TypeOK, NEW d \in drafts
  PROVE  d.author \in Users /\ d.counted \subseteq Users
BY DEF TypeOK

\* Beginning a transaction and rolling it back keep the type.
LEMMA DraftTypeOK ==
  ASSUME TypeOK, (\E a \in Users : CountFollowers(a)) \/ (\E d \in drafts : Rollback(d))
  PROVE  TypeOK'
<1>1. ASSUME NEW a \in Users, CountFollowers(a)
      PROVE  TypeOK'
  <2>1. [author |-> a, counted |-> Followers(a)] \in [author: Users, counted: SUBSET Users]
    BY DEF Followers
  <2> QED
    BY <1>1, <2>1 DEF CountFollowers, TypeOK
<1>2. ASSUME NEW d \in drafts, Rollback(d)
      PROVE  TypeOK'
  BY <1>2 DEF Rollback, TypeOK
<1> QED
  BY <1>1, <1>2

\* Posting and liking keep the type.
LEMMA PostTypeOK ==
  ASSUME TypeOK,
         \/ \E d \in drafts : CreatePost(d)
         \/ \E a \in Users : \E e \in Ids : LikePost(a, e)
  PROVE  TypeOK'
<1>0. 0 \in 0..MaxRetries
  BY NotificationsAssumption
<1>1. ASSUME NEW d \in drafts, CreatePost(d)
      PROVE  TypeOK'
  <2>1. events' \in Seq(Event) /\ Len(events') <= MaxEvents /\ NextId \in Ids
    BY <1>1, RecordAppends, DraftType DEF CreatePost
  <2>2. Followers(d.author) \subseteq Users /\ d.counted \cap Followers(d.author) \subseteq Users
    BY DEF Followers
  <2> QED
    BY <1>1, <2>1, <2>2 DEF CreatePost, TypeOK
<1>2. ASSUME NEW a \in Users, NEW e \in Ids, LikePost(a, e)
      PROVE  TypeOK'
  <2> DEFINE author == events[e].actor
  <2>1. author \in Users
    BY <1>2, EventType DEF LikePost
  <2>2. events' \in Seq(Event) /\ Len(events') <= MaxEvents /\ NextId \in Ids
    BY <1>2, <2>1, RecordAppends DEF LikePost
  <2>3. create_like_notification(author, a, NextId) \in Task
    BY <1>0, <2>1, <2>2 DEF create_like_notification, OneTask, Task
  <2>4. tasks' \subseteq Task /\ lost' \subseteq Ids
    BY <1>2, <2>3, DelayType DEF LikePost, TypeOK
  <2> QED
    BY <1>2, <2>2, <2>4 DEF LikePost, TypeOK
<1> QED
  BY <1>1, <1>2

\* Readers and workers keep the type: what a fan-out is about is a post, whose
\* author is a user.
LEMMA WorkTypeOK ==
  ASSUME TypeOK, FanOutsSound, IsFiniteSet(rows),
         (\E a \in Users : MarkAllRead(a)) \/ (\E n \in rows : MarkRead(n)) \/ RunFanOut \/ RunTask
  PROVE  TypeOK'
<1>1. ASSUME NEW a \in Users, MarkAllRead(a)
      PROVE  TypeOK'
  <2>1. rows' \subseteq Notification
    BY <1>1 DEF MarkAllRead, TypeOK, Notification
  <2> QED
    BY <1>1, <2>1 DEF MarkAllRead, graph, TypeOK
<1>2. ASSUME NEW n \in rows, MarkRead(n)
      PROVE  TypeOK'
  <2>1. rows' \subseteq Notification
    BY <1>2 DEF MarkRead, TypeOK, Notification
  <2> QED
    BY <1>2, <2>1 DEF MarkRead, graph, TypeOK
<1>3. ASSUME NEW e \in fanouts, StartFanOut(e) \/ LoseFanOut(e)
      PROVE  TypeOK'
  <2>1. Followers(events[e].actor) \subseteq Users
    BY DEF Followers
  <2> QED
    BY <1>3, <2>1 DEF StartFanOut, LoseFanOut, graph, TypeOK
<1>4. ASSUME NEW f \in fanning, EndFanOut(f)
      PROVE  TypeOK'
  BY <1>4 DEF EndFanOut, graph, TypeOK
<1>5. ASSUME NEW f \in fanning, NEW r \in f.todo, FanOutOne(f, r)
      PROVE  TypeOK'
  <2>1. f \in [event: Ids, todo: SUBSET Users]
    BY DEF TypeOK
  <2>2. r \in Users /\ f.event \in Ids
    BY <2>1
  <2>3. OneTask("new_post", f.event, r, events[f.event].actor) \in Task
    <3>1. events[f.event].actor \in Users
      BY EventType DEF FanOutsSound, IsPost
    <3> QED
      BY <2>2, <3>1, NotificationsAssumption DEF OneTask, Task
  <2>4. [f EXCEPT !.todo = @ \ {r}] \in [event: Ids, todo: SUBSET Users]
    BY <2>1
  <2> QED
    BY <1>5, <2>3, <2>4 DEF FanOutOne, graph, TypeOK
<1>6. ASSUME NEW task \in tasks, Write(task) \/ Retry(task) \/ LoseTask(task)
      PROVE  TypeOK'
  <2>1. task \in Task /\ RowOf(task) \in Notification
    BY RowType DEF TypeOK
  <2>2. task.event \in Ids
    BY <2>1 DEF Task
  <2>3. task.retries < MaxRetries => [task EXCEPT !.retries = @ + 1] \in Task
    BY <2>1, NotificationsAssumption DEF Task
  <2> QED
    BY <1>6, <2>1, <2>2, <2>3 DEF Write, Retry, LoseTask, graph, TypeOK
<1> QED
  BY <1>1, <1>2, <1>3, <1>4, <1>5, <1>6 DEF RunFanOut, RunTask

\* Every step keeps the type.
LEMMA NextTypeOK ==
  ASSUME TypeOK, FanOutsSound, IsFiniteSet(rows), [Next]_vars
  PROVE  TypeOK'
<1>1. CASE UNCHANGED vars
  BY <1>1 DEF vars, graph, TypeOK
<1>2. CASE Next
  <2>1. ASSUME NEW a \in Users, NEW b \in Users, Follow(a, b) \/ Unfollow(a, b)
        PROVE  TypeOK'
    BY <2>1, FollowTypeOK
  <2>2. CASE \/ \E d \in drafts : CreatePost(d)
             \/ \E u \in Users : \E e \in Ids : LikePost(u, e)
    BY <2>2, PostTypeOK
  <2>3. ((\E a \in Users : MarkAllRead(a)) \/ (\E n \in rows : MarkRead(n)) \/ RunFanOut \/ RunTask)
          => TypeOK'
    BY WorkTypeOK
  <2>4. CASE (\E a \in Users : CountFollowers(a)) \/ (\E d \in drafts : Rollback(d))
    BY <2>4, DraftTypeOK
  <2> QED
    BY <1>2, <2>1, <2>2, <2>3, <2>4 DEF Next
<1> QED
  BY <1>1, <1>2

-----------------------------------------------------------------------------
(* The inductive invariant. *)

\* What the invariant says of single tasks, rows and fan-outs.
Sound ==
  /\ TypeOK
  /\ \A x \in tasks \cup rows : FromEvent(x)
  /\ FanOutsSound
  /\ FollowersCounted

\* Initially nothing has been announced.
LEMMA InitIInv == Init => IInv
<1> SUFFICES ASSUME Init PROVE IInv
  OBVIOUS
<1>1. TypeOK
  BY InitTypeOK
<1>2. 1..Len(events) = {}
  BY EmptySeq DEF Init
<1>3. \A e \in Ids, u \in Users : Cardinality(Told(u, e)) = 0
  BY FS_EmptySet DEF Init, Told
<1>4. QueuedOnce /\ RowPerAttempt
  BY <1>3, FS_EmptySet, NotificationsAssumption DEF Init, QueuedOnce, RowPerAttempt, DuplicatesBounded
<1> QED
  BY <1>1, <1>2, <1>4 DEF Init, IInv, FanOutsSound, FollowersCounted

\* Events stay what they are and since only grows: what a task or a row says of
\* its event stays true.
LEMMA FromEventStays ==
  ASSUME Len(events) \in Nat, Len(events') \in Nat, Len(events) <= Len(events'),
         \A e \in 1..Len(events) : events'[e] = events[e],
         \A e \in 1..Len(events) : since[e] \subseteq since'[e]
  PROVE  /\ \A x : FromEvent(x) => FromEvent(x)'
         /\ \A e : IsPost(e) => IsPost(e)'
BY DEF FromEvent, IsPost

\* It is enough to look at what a step adds.
LEMMA AdditionsMatter ==
  ASSUME Sound, TypeOK', Len(events) <= Len(events'),
         \A e \in 1..Len(events) : events'[e] = events[e],
         \A e \in 1..Len(events) : since[e] \subseteq since'[e],
         \A x \in tasks' \cup rows' : x \in tasks \cup rows \/ FromEvent(x)',
         \A e \in fanouts' : e \in fanouts \/ IsPost(e)',
         \A f \in fanning' : f \in fanning \/ (IsPost(f.event)' /\ f.todo \subseteq since'[f.event]),
         FollowersCounted'
  PROVE  Sound'
<1>1. Len(events) \in Nat /\ Len(events') \in Nat
  BY LenProperties DEF Sound, TypeOK
<1>2. (\A x : FromEvent(x) => FromEvent(x)') /\ (\A e : IsPost(e) => IsPost(e)')
  BY <1>1, FromEventStays
<1>3. \A x \in tasks' \cup rows' : FromEvent(x)'
  BY <1>2 DEF Sound
<1>4. FanOutsSound'
  <2>1. \A f \in fanning : f.todo \subseteq since'[f.event]
    BY DEF Sound, FanOutsSound, IsPost
  <2> QED
    BY <1>2, <2>1 DEF Sound, FanOutsSound
<1> QED
  BY <1>3, <1>4 DEF Sound

\* A new follower counts for all posts of the one he follows; the task is of
\* the follow.
LEMMA FollowSound ==
  ASSUME Sound, NEW a \in Users, NEW b \in Users, Follow(a, b)
  PROVE  Sound'
<1>1. TypeOK'
  BY FollowTypeOK DEF Sound
<1>2. /\ Len(events) \in Nat /\ Len(events') = Len(events) + 1 /\ NextId = Len(events) + 1
      /\ \A e \in 1..Len(events) : events'[e] = events[e] /\ e \in Ids
      /\ events'[NextId] = [kind |-> "follow", actor |-> a, target |-> b]
  BY RecordAppends, EventType DEF Follow, Sound
<1>3. /\ rows' = rows /\ fanouts' = fanouts /\ fanning' = fanning
      /\ follows' = follows \cup {<<a, b>>}
      /\ \A e \in 1..Len(events) : since'[e] = IF e \in Posts(b) THEN since[e] \cup {a} ELSE since[e]
  BY <1>2 DEF Follow
<1>4. \A x \in tasks' \cup rows' : x \in tasks \cup rows \/ FromEvent(x)'
  <2> SUFFICES ASSUME NEW x, x = create_follow_notification(a, b, Len(events) + 1)
               PROVE  FromEvent(x)'
    BY <1>2, <1>3 DEF Follow, Delay
  <2>1. x.event = Len(events) + 1 /\ x.kind = "follow" /\ x.recipient = a /\ x.sender = b
    BY DEF create_follow_notification, OneTask
  <2> QED
    BY <1>2, <2>1 DEF FromEvent
<1>5. FollowersCounted'
  <2> SUFFICES ASSUME NEW e \in 1..Len(events'), NEW f \in Users, IsPost(e)',
                      <<f, events'[e].actor>> \in follows'
               PROVE  f \in since'[e]
    BY DEF FollowersCounted
  <2>1. e \in 1..Len(events) /\ events'[e] = events[e] /\ IsPost(e)
    BY <1>2 DEF IsPost
  <2>2. CASE f = a /\ events[e].actor = b
    BY <1>3, <2>1, <2>2 DEF IsPost, Posts
  <2>3. CASE ~(f = a /\ events[e].actor = b)
    <3>1. <<f, events[e].actor>> \in follows
      BY <1>3, <2>1, <2>3
    <3> QED
      BY <1>3, <2>1, <3>1 DEF Sound, FollowersCounted
  <2> QED
    BY <2>2, <2>3
<1>6. \A e \in 1..Len(events) : since[e] \subseteq since'[e]
  BY <1>3
<1> QED
  BY <1>1, <1>2, <1>3, <1>4, <1>5, <1>6, AdditionsMatter

\* Whoever unfollows no longer has to be counted.
LEMMA UnfollowSound ==
  ASSUME Sound, NEW a \in Users, NEW b \in Users, Unfollow(a, b)
  PROVE  Sound'
<1>1. TypeOK'
  BY FollowTypeOK DEF Sound
<1>2. /\ rows' = rows /\ fanouts' = fanouts /\ fanning' = fanning /\ tasks' = tasks
      /\ since' = since /\ events' = events /\ follows' \subseteq follows
  BY DEF Unfollow
<1>3. FollowersCounted'
  BY <1>2 DEF Sound, FollowersCounted, IsPost
<1>4. Len(events) \in Nat
  BY LenProperties DEF Sound, TypeOK
<1> QED
  BY <1>1, <1>2, <1>3, <1>4, AdditionsMatter

\* A new post counts the followers of the moment; its fan-out is of it.
LEMMA CreatePostSound ==
  ASSUME Sound, NEW d \in drafts, CreatePost(d)
  PROVE  Sound'
<1> DEFINE a == d.author
<1>1. TypeOK'
  BY PostTypeOK DEF Sound
<1>2. /\ Len(events) \in Nat /\ Len(events') = Len(events) + 1 /\ NextId = Len(events) + 1
      /\ NextId \in Ids
      /\ \A e \in 1..Len(events) : events'[e] = events[e] /\ e \in Ids
      /\ events'[NextId] = [kind |-> "post", actor |-> a, target |-> a]
  BY RecordAppends, EventType, DraftType DEF CreatePost, Sound
<1>3. /\ rows' = rows /\ tasks' = tasks /\ fanning' = fanning /\ follows' = follows
      /\ \A e \in Ids : since'[e] = IF e = NextId THEN Followers(a) ELSE since[e]
      /\ fanouts' \subseteq fanouts \cup {NextId}
  BY <1>2 DEF CreatePost, Sound, TypeOK
<1>4. \A e \in fanouts' : e \in fanouts \/ IsPost(e)'
  BY <1>2, <1>3 DEF IsPost
<1>5. FollowersCounted'
  <2> SUFFICES ASSUME NEW e \in 1..Len(events'), NEW f \in Users, IsPost(e)',
                      <<f, events'[e].actor>> \in follows'
               PROVE  f \in since'[e]
    BY DEF FollowersCounted
  <2>1. CASE e = NextId
    <3>1. events'[e].actor = a /\ since'[e] = Followers(a)
      BY <1>2, <1>3, <2>1
    <3>2. <<f, a>> \in follows
      BY <1>3, <3>1
    <3> QED
      BY <3>1, <3>2 DEF Followers
  <2>2. CASE e # NextId
    <3>1. e \in 1..Len(events) /\ events'[e] = events[e] /\ IsPost(e) /\ since'[e] = since[e]
      BY <1>2, <1>3, <2>2 DEF IsPost
    <3> QED
      BY <1>3, <3>1 DEF Sound, FollowersCounted
  <2> QED
    BY <2>1, <2>2
<1>6. \A e \in 1..Len(events) : since[e] \subseteq since'[e]
  BY <1>2, <1>3
<1> QED
  BY <1>1, <1>2, <1>3, <1>4, <1>5, <1>6, AdditionsMatter

\* A like's task is of the like, and there is none if the author likes his own.
LEMMA LikePostSound ==
  ASSUME Sound, NEW u \in Users, NEW p \in Ids, LikePost(u, p)
  PROVE  Sound'
<1> DEFINE author == events[p].actor
<1>1. TypeOK'
  BY PostTypeOK DEF Sound
<1>2. /\ Len(events) \in Nat /\ Len(events') = Len(events) + 1 /\ NextId = Len(events) + 1
      /\ \A e \in 1..Len(events) : events'[e] = events[e]
      /\ events'[NextId] = [kind |-> "like", actor |-> u, target |-> author]
  BY RecordAppends, EventType DEF LikePost, Sound
<1>3. /\ rows' = rows /\ fanouts' = fanouts /\ fanning' = fanning /\ follows' = follows
      /\ since' = since
  BY DEF LikePost
<1>4. \A x \in tasks' \cup rows' : x \in tasks \cup rows \/ FromEvent(x)'
  <2> SUFFICES ASSUME NEW x, x = create_like_notification(author, u, Len(events) + 1), author # u
               PROVE  FromEvent(x)'
    BY <1>2, <1>3 DEF LikePost, Delay
  <2>1. x.event = Len(events) + 1 /\ x.kind = "like" /\ x.recipient = author /\ x.sender = u
    BY DEF create_like_notification, OneTask
  <2> QED
    BY <1>2, <2>1 DEF FromEvent
<1>5. FollowersCounted'
  <2> SUFFICES ASSUME NEW e \in 1..Len(events'), NEW f \in Users, IsPost(e)',
                      <<f, events'[e].actor>> \in follows'
               PROVE  f \in since'[e]
    BY DEF FollowersCounted
  <2>1. e \in 1..Len(events) /\ events'[e] = events[e] /\ IsPost(e)
    BY <1>2 DEF IsPost
  <2> QED
    BY <1>3, <2>1 DEF Sound, FollowersCounted
<1> QED
  BY <1>1, <1>2, <1>3, <1>4, <1>5, AdditionsMatter

\* Whoever reads notifications and whoever works on tasks adds nothing but what
\* is of a task's event.
LEMMA WorkSound ==
  ASSUME Sound, IsFiniteSet(rows),
         (\E a \in Users : MarkAllRead(a)) \/ (\E n \in rows : MarkRead(n)) \/ RunFanOut \/ RunTask
  PROVE  Sound'
<1>1. TypeOK' /\ Len(events) \in Nat
  BY WorkTypeOK, LenProperties DEF Sound, TypeOK
<1>2. /\ events' = events /\ since' = since /\ follows' = follows
  BY DEF MarkAllRead, MarkRead, RunFanOut, StartFanOut, LoseFanOut, EndFanOut, FanOutOne, RunTask,
         Write, Retry, LoseTask, graph
<1>3. FollowersCounted'
  BY <1>2 DEF Sound, FollowersCounted, IsPost
<1>4. (\A x : FromEvent(x)' <=> FromEvent(x)) /\ (\A e : IsPost(e)' <=> IsPost(e))
  BY <1>2 DEF FromEvent, IsPost
<1>5. \A e \in 1..Len(events) : since[e] \subseteq since'[e] /\ events'[e] = events[e]
  BY <1>2
<1>6. \A e \in 1..Len(events), f \in Users : IsPost(e) /\ f \in Followers(events[e].actor) => f \in since[e]
  BY DEF Sound, FollowersCounted, Followers
<1> DEFINE AllSound ==
             /\ \A x \in tasks' \cup rows' : x \in tasks \cup rows \/ FromEvent(x)
             /\ \A e \in fanouts' : e \in fanouts
             /\ \A f \in fanning' :
                    f \in fanning \/ (IsPost(f.event) /\ f.todo \subseteq since[f.event])
<1>7. AllSound
  <2>1. ASSUME NEW a \in Users, MarkAllRead(a)
        PROVE  AllSound
    <3>1. \A n \in rows : FromEvent([n EXCEPT !.is_read = TRUE])
      BY DEF Sound, TypeOK, Notification, FromEvent
    <3> QED
      BY <2>1, <3>1 DEF MarkAllRead
  <2>2. ASSUME NEW n \in rows, MarkRead(n)
        PROVE  AllSound
    <3>1. FromEvent([n EXCEPT !.is_read = TRUE])
      BY DEF Sound, TypeOK, Notification, FromEvent
    <3> QED
      BY <2>2, <3>1 DEF MarkRead
  <2>3. ASSUME NEW e \in fanouts, StartFanOut(e) \/ LoseFanOut(e)
        PROVE  AllSound
    <3>1. IsPost(e)
      BY DEF Sound, FanOutsSound
    <3>2. Followers(events[e].actor) \subseteq since[e]
      BY <1>6, <3>1 DEF IsPost, Followers
    <3> QED
      BY <2>3, <3>1, <3>2 DEF StartFanOut, LoseFanOut
  <2>4. ASSUME NEW f \in fanning, EndFanOut(f)
        PROVE  AllSound
    BY <2>4 DEF EndFanOut
  <2>5. ASSUME NEW f \in fanning, NEW r \in f.todo, FanOutOne(f, r)
        PROVE  AllSound
    <3>1. f \in [event: Ids, todo: SUBSET Users] /\ IsPost(f.event) /\ f.todo \subseteq since[f.event]
      BY DEF Sound, TypeOK, FanOutsSound
    <3>2. FromEvent(OneTask("new_post", f.event, r, events[f.event].actor))
      BY <3>1 DEF OneTask, FromEvent, IsPost
    <3> QED
      BY <2>5, <3>1, <3>2 DEF FanOutOne
  <2>6. ASSUME NEW task \in tasks, Write(task) \/ Retry(task) \/ LoseTask(task)
        PROVE  AllSound
    <3>1. FromEvent(RowOf(task)) /\ FromEvent([task EXCEPT !.retries = @ + 1])
      BY DEF Sound, TypeOK, Task, FromEvent, RowOf
    <3> QED
      BY <2>6, <3>1 DEF Write, Retry, LoseTask
  <2> QED
    BY <2>1, <2>2, <2>3, <2>4, <2>5, <2>6 DEF RunFanOut, RunTask
<1> QED
  BY <1>1, <1>2, <1>3, <1>4, <1>5, <1>7, AdditionsMatter

\* Transactions of create_post leave everything else alone.
LEMMA DraftSound ==
  ASSUME Sound, (\E a \in Users : CountFollowers(a)) \/ (\E d \in drafts : Rollback(d))
  PROVE  Sound'
<1>1. TypeOK' /\ Len(events) \in Nat
  BY DraftTypeOK, LenProperties DEF Sound, TypeOK
<1>2. UNCHANGED <<follows, events, fanouts, fanning, tasks, rows, since>>
  BY DEF CountFollowers, Rollback
<1>3. FollowersCounted'
  BY <1>2 DEF Sound, FollowersCounted, IsPost
<1> QED
  BY <1>1, <1>2, <1>3, AdditionsMatter

\* Every step keeps what the invariant says of single tasks, rows and fan-outs.
LEMMA NextSound ==
  ASSUME Sound, IsFiniteSet(rows), [Next]_vars
  PROVE  Sound'
<1>1. CASE UNCHANGED vars
  <2>1. TypeOK' /\ Len(events) \in Nat
    BY <1>1, NextTypeOK, LenProperties DEF Sound, TypeOK
  <2>2. FollowersCounted'
    BY <1>1 DEF vars, Sound, FollowersCounted, IsPost
  <2> QED
    BY <1>1, <2>1, <2>2, AdditionsMatter DEF vars
<1>2. CASE Next
  <2>1. ((\E a \in Users : MarkAllRead(a)) \/ (\E n \in rows : MarkRead(n)) \/ RunFanOut \/ RunTask)
          => Sound'
    BY WorkSound
  <2>2. (\E a \in Users : CountFollowers(a)) \/ (\E d \in drafts : Rollback(d)) => Sound'
    BY DraftSound
  <2> QED
    BY <1>2, <2>1, <2>2, FollowSound, UnfollowSound, CreatePostSound, LikePostSound DEF Next
<1> QED
  BY <1>1, <1>2

-----------------------------------------------------------------------------
(* How often a user is told. *)

\* Once per event, and one row per attempt.
Counted == QueuedOnce /\ RowPerAttempt

\* What a user was told is finitely much.
LEMMA ToldFinite ==
  ASSUME IsFiniteSet(rows), NEW u, NEW e
  PROVE  IsFiniteSet(Told(u, e)) /\ Cardinality(Told(u, e)) \in Nat
BY FS_Subset, FS_CardinalityType DEF Told

\* Nothing in the broker or the tables is about an event that is yet to come.
LEMMA NothingOfTheFuture ==
  ASSUME Sound
  PROVE  /\ Len(events) \in Nat
         /\ \A x \in tasks \cup rows \cup fanning : x.event # Len(events) + 1
         /\ Len(events) + 1 \notin fanouts
<1>1. Len(events) \in Nat
  BY LenProperties DEF Sound, TypeOK
<1> QED
  BY <1>1 DEF Sound, FromEvent, FanOutsSound, IsPost

\* A step that queues less, or the same, and changes no row.
LEMMA FewerCounted ==
  ASSUME Counted, tasks' \subseteq tasks, rows' = rows, fanouts' \subseteq fanouts,
         fanning' \subseteq fanning
  PROVE  Counted'
<1>1. DuplicatesBounded'
  BY DEF Counted, RowPerAttempt, DuplicatesBounded, Told
<1>2. QueuedOnce'
  BY DEF Counted, QueuedOnce
<1>3. \A x \in tasks' : Cardinality(Told(x.recipient, x.event))' <= x.retries
  BY DEF Counted, RowPerAttempt, Told
<1> QED
  BY <1>1, <1>2, <1>3 DEF Counted, RowPerAttempt

\* A task of an event that nothing is about yet is the first of its kind, and
\* so is one for a follower whose turn in the fan-out comes.
LEMMA NewTaskCounted ==
  ASSUME Sound, Counted, NEW task \in Task, task.retries = 0,
         \A x \in tasks \cup rows : x.event = task.event => x.recipient # task.recipient,
         task.event \notin fanouts,
         tasks' \subseteq tasks \cup {task}, rows' = rows, fanouts' = fanouts,
         \A g \in fanning' :
            \/ g \in fanning /\ g.event # task.event
            \/ /\ task.recipient \notin g.todo
               /\ \E f \in fanning : g.event = f.event /\ g.todo \subseteq f.todo,
         \A f, g \in fanning' : f.event = g.event => f = g
  PROVE  Counted'
<1>1. Cardinality(Told(task.recipient, task.event)) = 0
  <2>1. Told(task.recipient, task.event) = {}
    BY DEF Told
  <2> QED
    BY <2>1, FS_EmptySet
<1>2. DuplicatesBounded'
  BY DEF Counted, RowPerAttempt, DuplicatesBounded, Told
<1>3. \A x \in tasks' : Cardinality(Told(x.recipient, x.event))' <= x.retries
  <2> SUFFICES ASSUME NEW x \in tasks'
               PROVE  Cardinality(Told(x.recipient, x.event))' <= x.retries
    OBVIOUS
  <2>1. Told(x.recipient, x.event)' = Told(x.recipient, x.event)
    BY DEF Told
  <2>2. CASE x \in tasks
    BY <2>1, <2>2 DEF Counted, RowPerAttempt
  <2>3. CASE x = task
    BY <1>1, <2>1, <2>3
  <2> QED
    BY <2>2, <2>3
<1>4. \A x, y \in tasks' : x.event = y.event /\ x.recipient = y.recipient => x = y
  BY DEF Counted, QueuedOnce
<1>5. \A e \in fanouts' : \A x \in tasks' \cup rows' \cup fanning' : x.event # e
  BY DEF Counted, QueuedOnce
<1>6. \A f \in fanning' : \A x \in tasks' \cup rows' : x.event = f.event => x.recipient \notin f.todo
  BY DEF Counted, QueuedOnce
<1> QED
  BY <1>2, <1>3, <1>4, <1>5, <1>6 DEF Counted, QueuedOnce, RowPerAttempt

\* The task of a new follow or like is the first of its event.
LEMMA EventCounted ==
  ASSUME Sound, Counted,
         (\E a, b \in Users : Follow(a, b)) \/ (\E u \in Users, e \in Ids : LikePost(u, e))
  PROVE  Counted'
<1>0. 0 \in 0..MaxRetries
  BY NotificationsAssumption
<1>1. UNCHANGED <<rows, fanouts, fanning>>
  BY DEF Follow, LikePost
<1>2. CASE tasks' = tasks
  BY <1>1, <1>2, FewerCounted
<1>3. ASSUME NEW task \in Task, task.retries = 0, task.event = Len(events) + 1,
             tasks' = tasks \cup {task}
      PROVE  Counted'
  BY <1>1, <1>3, NothingOfTheFuture, NewTaskCounted DEF Counted, QueuedOnce
<1>4. ASSUME NEW a \in Users, NEW b \in Users, Follow(a, b)
      PROVE  Counted'
  <2> DEFINE task == create_follow_notification(a, b, NextId)
  <2>1. NextId \in Ids /\ NextId = Len(events) + 1
    BY <1>4, RecordAppends DEF Follow, Sound
  <2>2. task \in Task /\ task.retries = 0 /\ task.event = Len(events) + 1
    BY <1>0, <2>1 DEF create_follow_notification, OneTask, Task
  <2>3. tasks' = tasks \/ tasks' = tasks \cup {task}
    BY <1>4 DEF Follow, Delay
  <2> HIDE DEF task
  <2> QED
    BY <1>2, <1>3, <2>2, <2>3
<1>5. ASSUME NEW u \in Users, NEW e \in Ids, LikePost(u, e)
      PROVE  Counted'
  <2> DEFINE author == events[e].actor
             task == create_like_notification(author, u, NextId)
  <2>1. author \in Users
    BY <1>5, EventType DEF LikePost, Sound
  <2>2. NextId \in Ids /\ NextId = Len(events) + 1
    BY <1>5, <2>1, RecordAppends DEF LikePost, Sound
  <2>3. task \in Task /\ task.retries = 0 /\ task.event = Len(events) + 1
    BY <1>0, <2>1, <2>2 DEF create_like_notification, OneTask, Task
  <2>4. tasks' = tasks \/ tasks' = tasks \cup {task}
    BY <1>5 DEF LikePost, Delay
  <2> HIDE DEF task
  <2> QED
    BY <1>2, <1>3, <2>3, <2>4
<1> QED
  BY <1>4, <1>5

\* A new post's fan-out is of an event that nothing is about yet.
LEMMA PostCounted ==
  ASSUME Sound, Counted, NEW d \in drafts, CreatePost(d)
  PROVE  Counted'
<1>1. /\ UNCHANGED <<rows, tasks, fanning>>
      /\ fanouts' \subseteq fanouts \cup {Len(events) + 1}
  BY DEF CreatePost, NextId
<1>2. QueuedOnce'
  BY <1>1, NothingOfTheFuture DEF Counted, QueuedOnce
<1>3. RowPerAttempt'
  BY <1>1 DEF Counted, RowPerAttempt, DuplicatesBounded, Told
<1> QED
  BY <1>2, <1>3 DEF Counted

\* A row that is marked as read is the same row.
LEMMA ReadCounted ==
  ASSUME Sound, Counted, (\E a \in Users : MarkAllRead(a)) \/ (\E n \in rows : MarkRead(n))
  PROVE  Counted'
<1> DEFINE Read(n) == [n EXCEPT !.is_read = TRUE]
<1>1. UNCHANGED <<tasks, fanouts, fanning>>
  BY DEF MarkAllRead, MarkRead
<1>2. ASSUME NEW n \in rows
      PROVE  Read(n).event = n.event /\ Read(n).recipient = n.recipient
  BY DEF Sound, TypeOK, Notification
<1>3. PICK S : rows' = (rows \ S) \cup {Read(n) : n \in S} /\ S \subseteq rows
  <2>1. ASSUME NEW a \in Users, MarkAllRead(a)
        PROVE  \E S : rows' = (rows \ S) \cup {Read(n) : n \in S} /\ S \subseteq rows
    <3> DEFINE S == {m \in rows : m.recipient = a}
    <3>1. rows' = (rows \ S) \cup {Read(n) : n \in S} /\ S \subseteq rows
      BY <2>1 DEF MarkAllRead
    <3> QED
      BY <3>1
  <2>2. ASSUME NEW n \in rows, MarkRead(n)
        PROVE  \E S : rows' = (rows \ S) \cup {Read(m) : m \in S} /\ S \subseteq rows
    <3>1. rows' = (rows \ {n}) \cup {Read(m) : m \in {n}} /\ {n} \subseteq rows
      BY <2>2 DEF MarkRead
    <3> QED
      BY <3>1
  <2> QED
    BY <2>1, <2>2
<1> DEFINE g(n) == IF n \in S THEN Read(n) ELSE n
<1>4. \A n \in rows : g(n).event = n.event /\ g(n).recipient = n.recipient
  BY <1>2
<1>5. rows' = {g(n) : n \in rows}
  BY <1>3
<1> HIDE DEF g
<1>6. ASSUME NEW R \in SUBSET rows
      PROVE  IsFiniteSet({g(n) : n \in R}) /\ Cardinality({g(n) : n \in R}) <= Cardinality(R)
  <2> DEFINE T == {g(n) : n \in R}
             f == [n \in R |-> g(n)]
  <2>1. IsFiniteSet(R)
    BY FS_Subset DEF Counted, RowPerAttempt
  <2>2. f \in Surjection(R, T)
    BY DEF Surjection
  <2> QED
    BY <2>1, <2>2, FS_Surjection
<1>7. IsFiniteSet(rows')
  BY <1>5, <1>6
<1>8. ASSUME NEW u, NEW e
      PROVE  Cardinality(Told(u, e)') <= Cardinality(Told(u, e))
  <2>1. Told(u, e)' = {g(n) : n \in Told(u, e)}
    BY <1>4, <1>5 DEF Told
  <2> QED
    BY <1>6, <2>1 DEF Told
<1>9. ASSUME NEW u, NEW e, NEW k \in Nat, Cardinality(Told(u, e)) <= k
      PROVE  Cardinality(Told(u, e)') <= k
  <2>1. Cardinality(Told(u, e)) \in Nat /\ Cardinality(Told(u, e)') \in Nat
    BY <1>7, ToldFinite, FS_Subset, FS_CardinalityType DEF Counted, RowPerAttempt, Told
  <2> QED
    BY <1>8, <1>9, <2>1
<1>10. DuplicatesBounded'
  <2>1. MaxRetries + 1 \in Nat
    BY NotificationsAssumption
  <2> QED
    BY <1>9, <2>1 DEF Counted, RowPerAttempt, DuplicatesBounded
<1>11. \A x \in tasks' : Cardinality(Told(x.recipient, x.event)') <= x.retries
  BY <1>1, <1>9 DEF Counted, RowPerAttempt, Sound, TypeOK, Task
<1>12. QueuedOnce'
  <2>1. \A x \in rows' : \E n \in rows : x.event = n.event /\ x.recipient = n.recipient
    BY <1>4, <1>5
  <2> QED
    BY <1>1, <2>1 DEF Counted, QueuedOnce
<1> QED
  BY <1>7, <1>10, <1>11, <1>12 DEF Counted, RowPerAttempt

\* A fan-out starts once for its post, queues each follower once, and ends.
LEMMA FanOutCounted ==
  ASSUME Sound, Counted, RunFanOut
  PROVE  Counted'
<1>1. ASSUME NEW e \in fanouts, StartFanOut(e)
      PROVE  Counted'
  <2>1. /\ UNCHANGED <<rows, tasks>> /\ fanouts' = fanouts \ {e}
        /\ fanning' = fanning \cup {[event |-> e, todo |-> Followers(events[e].actor)]}
    BY <1>1 DEF StartFanOut
  <2>2. RowPerAttempt'
    BY <2>1 DEF Counted, RowPerAttempt, DuplicatesBounded, Told
  <2>3. QueuedOnce'
    BY <2>1 DEF Counted, QueuedOnce
  <2> QED
    BY <2>2, <2>3 DEF Counted
<1>2. ASSUME NEW e \in fanouts, LoseFanOut(e)
      PROVE  Counted'
  BY <1>2, FewerCounted DEF LoseFanOut
<1>3. ASSUME NEW f \in fanning, EndFanOut(f)
      PROVE  Counted'
  BY <1>3, FewerCounted DEF EndFanOut
<1>4. ASSUME NEW f \in fanning, NEW r \in f.todo, FanOutOne(f, r)
      PROVE  Counted'
  <2> DEFINE task == OneTask("new_post", f.event, r, events[f.event].actor)
             h == [f EXCEPT !.todo = @ \ {r}]
  <2>1. f \in [event: Ids, todo: SUBSET Users] /\ IsPost(f.event)
    BY DEF Sound, TypeOK, FanOutsSound
  <2>2. events[f.event].actor \in Users /\ 0 \in 0..MaxRetries
    BY <2>1, EventType, NotificationsAssumption DEF IsPost, Sound
  <2>3. /\ task \in Task /\ task.retries = 0 /\ task.event = f.event /\ task.recipient = r
    BY <2>1, <2>2 DEF OneTask, Task
  <2>4. h.event = f.event /\ h.todo = f.todo \ {r}
    BY <2>1
  <2>5. /\ UNCHANGED <<rows, fanouts>> /\ tasks' = tasks \cup {task}
        /\ fanning' = (fanning \ {f}) \cup {h}
    BY <1>4 DEF FanOutOne
  <2> HIDE DEF task, h
  <2>6. f.event \notin fanouts /\ (\A g \in fanning : g.event = f.event => g = f)
    BY DEF Counted, QueuedOnce
  <2>7. \A x \in tasks \cup rows : x.event = f.event => x.recipient # r
    BY DEF Counted, QueuedOnce
  <2>8. \A g \in fanning' :
           \/ g \in fanning /\ g.event # f.event
           \/ g.event = f.event /\ g.todo = f.todo \ {r}
    BY <2>4, <2>5, <2>6
  <2>9. \A g, k \in fanning' : g.event = k.event => g = k
    BY <2>4, <2>5, <2>6 DEF Counted, QueuedOnce
  <2> QED
    BY <2>3, <2>5, <2>6, <2>7, <2>8, <2>9, NewTaskCounted
<1> QED
  BY <1>1, <1>2, <1>3, <1>4 DEF RunFanOut

\* An attempt writes one row at most, and is not made again if it was the last.
LEMMA TaskCounted ==
  ASSUME Sound, Counted, RunTask
  PROVE  Counted'
<1>1. ASSUME NEW task \in tasks, LoseTask(task)
      PROVE  Counted'
  BY <1>1, FewerCounted DEF LoseTask
<1>2. ASSUME NEW task \in tasks, NEW later, NEW written,
             later = {} \/ later = {[task EXCEPT !.retries = @ + 1]},
             written = {} \/ written = {RowOf(task)},
             tasks' = (tasks \ {task}) \cup later, rows' = rows \cup written,
             UNCHANGED <<fanouts, fanning>>
      PROVE  Counted'
  <2> DEFINE row == RowOf(task)
             again == [task EXCEPT !.retries = @ + 1]
  <2>0. task \in Task /\ IsFiniteSet(rows)
    BY DEF Sound, TypeOK, Counted, RowPerAttempt
  <2>1. row.event = task.event /\ row.recipient = task.recipient
    BY DEF RowOf
  <2>2. /\ again.event = task.event /\ again.recipient = task.recipient
        /\ again.retries = task.retries + 1
    BY <2>0 DEF Task
  <2> HIDE DEF row, again
  <2>3. /\ later \subseteq {again} /\ written \subseteq {row}
        /\ \A x \in tasks' : x = again \/ (x \in tasks /\ x # task)
        /\ \A n \in rows' : n = row \/ n \in rows
    BY <1>2 DEF row, again
  <2>4. IsFiniteSet(rows')
    BY <1>2, <2>0, FS_AddElement
  <2>5. ASSUME NEW u, NEW e, u # task.recipient \/ e # task.event
        PROVE  Told(u, e)' = Told(u, e)
    BY <1>2, <2>1, <2>3, <2>5 DEF Told
  <2>6. Cardinality(Told(task.recipient, task.event)') <= task.retries + 1
    <3> DEFINE T == Told(task.recipient, task.event)
    <3>1. IsFiniteSet(T) /\ Cardinality(T) \in Nat /\ Cardinality(T) <= task.retries
      BY <2>0, ToldFinite DEF Counted, RowPerAttempt
    <3>2. T' = T \/ T' = T \cup {row}
      BY <1>2, <2>1, <2>3 DEF Told, row
    <3> HIDE DEF T
    <3>3. task.retries \in Nat
      BY <2>0 DEF Task
    <3>4. Cardinality(T') <= Cardinality(T) + 1
      BY <3>1, <3>2, FS_AddElement
    <3>5. Cardinality(T') \in Nat
      BY <3>1, <3>2, FS_AddElement, FS_CardinalityType
    <3>6. Cardinality(T') <= task.retries + 1
      BY <3>1, <3>3, <3>4, <3>5
    <3> QED
      BY <3>6 DEF T
  <2>7. DuplicatesBounded'
    <3> SUFFICES ASSUME NEW e \in Ids, NEW u \in Users
                 PROVE  Cardinality(Told(u, e)') <= MaxRetries + 1
      BY DEF DuplicatesBounded
    <3>1. CASE u # task.recipient \/ e # task.event
      BY <2>5, <3>1 DEF Counted, RowPerAttempt, DuplicatesBounded
    <3>2. CASE u = task.recipient /\ e = task.event
      <4>1. task.retries + 1 <= MaxRetries + 1 /\ task.retries + 1 \in Nat
        BY <2>0, NotificationsAssumption DEF Task
      <4>2. Cardinality(Told(u, e)') \in Nat
        BY <2>4, FS_Subset, FS_CardinalityType DEF Told
      <4> QED
        BY <2>6, <3>2, <4>1, <4>2, NotificationsAssumption
    <3> QED
      BY <3>1, <3>2
  <2>8. \A x \in tasks' : Cardinality(Told(x.recipient, x.event)') <= x.retries
    <3> SUFFICES ASSUME NEW x \in tasks'
                 PROVE  Cardinality(Told(x.recipient, x.event)') <= x.retries
      OBVIOUS
    <3>1. CASE x = again
      BY <2>2, <2>6, <3>1
    <3>2. CASE x \in tasks /\ x # task
      <4>1. x.recipient # task.recipient \/ x.event # task.event
        BY <3>2 DEF Counted, QueuedOnce
      <4> QED
        BY <2>5, <3>2, <4>1 DEF Counted, RowPerAttempt
    <3> QED
      BY <2>3, <3>1, <3>2
  <2>9. QueuedOnce'
    <3>1. \A x \in tasks' \cup rows' :
             \/ x \in tasks \cup rows
             \/ x.event = task.event /\ x.recipient = task.recipient
      BY <2>1, <2>2, <2>3
    <3>2. \A x, y \in tasks' : x.event = y.event /\ x.recipient = y.recipient => x = y
      BY <2>2, <2>3 DEF Counted, QueuedOnce
    <3> QED
      BY <1>2, <3>1, <3>2 DEF Counted, QueuedOnce
  <2> QED
    BY <2>4, <2>7, <2>8, <2>9 DEF Counted, RowPerAttempt
<1>3. ASSUME NEW task \in tasks, Write(task)
      PROVE  Counted'
  <2>1. tasks' = (tasks \ {task}) \cup {} /\ rows' = rows \cup {RowOf(task)}
        /\ UNCHANGED <<fanouts, fanning>>
    BY <1>3 DEF Write
  <2> QED
    BY <1>2, <2>1
<1>4. ASSUME NEW task \in tasks, Retry(task)
      PROVE  Counted'
  <2>1. /\ tasks' = (tasks \ {task}) \cup {[task EXCEPT !.retries = @ + 1]}
        /\ rows' = rows \cup {} \/ rows' = rows \cup {RowOf(task)}
        /\ UNCHANGED <<fanouts, fanning>>
    BY <1>4 DEF Retry
  <2> QED
    BY <1>2, <2>1
<1> QED
  BY <1>1, <1>3, <1>4 DEF RunTask

\* Every step keeps count.
LEMMA NextCounted ==
  ASSUME Sound, Counted, [Next]_vars
  PROVE  Counted'
<1>1. CASE UNCHANGED <<tasks, rows, fanouts, fanning>>
  BY <1>1, FewerCounted
<1>2. CASE \/ UNCHANGED vars
           \/ \E a, b \in Users : Unfollow(a, b)
           \/ \E a \in Users : CountFollowers(a)
           \/ \E d \in drafts : Rollback(d)
  BY <1>1, <1>2 DEF vars, Unfollow, CountFollowers, Rollback
<1>3. CASE \/ \E a, b \in Users : Follow(a, b)
           \/ \E u \in Users, e \in Ids : LikePost(u, e)
  BY <1>3, EventCounted
<1>4. CASE \E d \in drafts : CreatePost(d)
  BY <1>4, PostCounted
<1>5. CASE (\E a \in Users : MarkAllRead(a)) \/ (\E n \in rows : MarkRead(n))
  BY <1>5, ReadCounted
<1>6. CASE RunFanOut
  BY <1>6, FanOutCounted
<1>7. CASE RunTask
  BY <1>7, TaskCounted
<1> QED
  BY <1>2, <1>3, <1>4, <1>5, <1>6, <1>7 DEF Next

\* Every step keeps the invariant.
LEMMA NextIInv == IInv /\ [Next]_vars => IInv'
<1> SUFFICES ASSUME IInv, [Next]_vars PROVE IInv'
  OBVIOUS
<1>1. Sound /\ Counted /\ IsFiniteSet(rows)
  BY DEF IInv, Sound, Counted, RowPerAttempt
<1>2. Sound' /\ Counted'
  BY <1>1, NextSound, NextCounted
<1> QED
  BY <1>2 DEF IInv, Sound, Counted

\* The invariant holds throughout: every task and every row says of its event
\* what that event was, and no user is queued twice for it.
THEOREM Invariance == Spec => []IInv
<1>1. Init => IInv
  BY InitIInv
<1>2. IInv /\ [Next]_vars => IInv'
  BY NextIInv
<1> QED
  BY <1>1, <1>2, PTL DEF Spec

\* Tasks, rows and events have their types.
THEOREM TypeCorrect == Spec => []TypeOK
<1>1. IInv => TypeOK
  BY DEF IInv
<1> QED
  BY <1>1, Invariance, PTL

\* A post is announced to those who followed its author at the post or later, a
\* like is told to the author by the one who liked, a follow, the wrong way
\* round, to the one who follows; and of one event a user has at most one row
\* for each attempt that its task may make, through fan-out, retries and losses.
THEOREM AllAccounted == Spec => []NotificationsAccounted
<1>1. ASSUME IInv
      PROVE  NotificationsAccounted
  <2>1. AnnouncedToFollowers /\ LikeToldToAuthor /\ FollowToldToFollower
    BY <1>1 DEF IInv, FromEvent, AnnouncedToFollowers, LikeToldToAuthor, FollowToldToFollower
  <2> QED
    BY <1>1, <2>1 DEF IInv, RowPerAttempt, NotificationsAccounted
<1> QED
  BY <1>1, Invariance, PTL
=============================================================================
