---------------------------- MODULE Notifications ----------------------------
(***************************************************************************)
(* Follows, posts and likes, the Celery tasks they queue and the           *)
(* Notification rows those tasks write: interactions/views.py,             *)
(* PostService.create_post, LikeToggleView and notify/tasks.py.            *)
(*                                                                         *)
(* A task is queued after the row it is about was committed, so a stop in  *)
(* between loses it; the broker forgets a task when a worker takes it, so  *)
(* a worker that dies loses it too; a task whose INSERT raises is retried  *)
(* MaxRetries times, also when the INSERT had been committed.              *)
(***************************************************************************)
EXTENDS Naturals, FiniteSets, Sequences

CONSTANTS
    Users,
    OldFollows,     \* Follow rows of the past, whose tasks are done or lost
    MaxRetries,     \* max_retries of the notification tasks
    MaxEvents       \* bound: follows, posts and likes in one behaviour

ASSUME NotificationsAssumption ==
    /\ MaxRetries \in Nat /\ MaxEvents \in Nat
    /\ OldFollows \subseteq {p \in Users \X Users : p[1] # p[2]}

VARIABLES
    follows,        \* Follow rows, as pairs <<follower, following>>
    events,         \* the follows, posts and likes so far, in order
    drafts,         \* transactions of create_post, which have counted followers
    fanouts,        \* fan_out_notification_to_followers tasks in the broker
    fanning,        \* those a worker is in the middle of
    tasks,          \* tasks in the broker that write one row each
    rows,           \* Notification rows
    steady,         \* history: followers whom create_post counted, ever since the post
    since,          \* history: followers at the post or at any time after it
    lost            \* history: events some task of which was lost

graph == <<follows, events, drafts, steady, since>>
vars == <<follows, events, drafts, fanouts, fanning, tasks, rows, steady, since, lost>>

Ids == 1..MaxEvents
Event == [kind: {"follow", "post", "like"}, actor: Users, target: Users]
Task == [kind: {"follow", "like", "new_post"}, event: Ids, recipient: Users, sender: Users,
         retries: 0..MaxRetries]
\* Rows that say the same differ by their keys, for which copy stands.
Notification == [kind: {"follow", "like", "new_post"}, event: Ids, recipient: Users,
                 sender: Users, copy: Nat \ {0}, is_read: BOOLEAN]

Followers(u) == {f \in Users : <<f, u>> \in follows}
Posts(u) == {e \in 1..Len(events) : events[e].kind = "post" /\ events[e].actor = u}

\* The next follow, post or like; its number stands for the row's key.
Record(kind, actor, target) ==
    /\ Len(events) < MaxEvents
    /\ events' = Append(events, [kind |-> kind, actor |-> actor, target |-> target])

NextId == Len(events) + 1

\* A task as its parameters name it, before any retry.
OneTask(kind, e, recipient_id, sender_id) ==
    [kind |-> kind, event |-> e, recipient |-> recipient_id, sender |-> sender_id, retries |-> 0]

\* create_follow_notification(following_id, follower_id)
create_follow_notification(following_id, follower_id, e) ==
    OneTask("follow", e, following_id, follower_id)

\* create_like_notification(post_owner_id, liker_id, post_id)
create_like_notification(post_owner_id, liker_id, e) ==
    OneTask("like", e, post_owner_id, liker_id)

\* task.delay(), unless the process stops or the broker fails before it.
Delay(task) ==
    \/ tasks' = tasks \cup {task} /\ lost' = lost
    \/ tasks' = tasks /\ lost' = lost \cup {task.event}

Init ==
    /\ follows = OldFollows
    /\ events = <<>> /\ drafts = {}
    /\ fanouts = {} /\ fanning = {} /\ tasks = {}
    /\ rows = {}
    /\ steady = [e \in Ids |-> {}]
    /\ since = [e \in Ids |-> {}]
    /\ lost = {}

-----------------------------------------------------------------------------
(* Requests. *)

\* FollowUserView passes the ids by position: its own user first.
Follow(a, b) ==
    /\ a # b
    /\ <<a, b>> \notin follows
    /\ Record("follow", a, b)
    /\ follows' = follows \cup {<<a, b>>}
    /\ since' = [e \in Ids |-> IF e \in Posts(b) THEN since[e] \cup {a} ELSE since[e]]
    /\ Delay(create_follow_notification(a, b, NextId))
    /\ UNCHANGED <<drafts, fanouts, fanning, rows, steady>>

Unfollow(a, b) ==
    /\ <<a, b>> \in follows
    /\ follows' = follows \ {<<a, b>>}
    /\ steady' = [e \in Ids |-> IF e \in Posts(b) THEN steady[e] \ {a} ELSE steady[e]]
    /\ UNCHANGED <<events, drafts, fanouts, fanning, tasks, rows, since, lost>>

\* PostService.create_post: the followers are counted inside the transaction, ...
CountFollowers(a) ==
    /\ Len(events) + Cardinality(drafts) < MaxEvents
    /\ \A d \in drafts : d.author # a
    /\ drafts' = drafts \cup {[author |-> a, counted |-> Followers(a)]}
    /\ UNCHANGED <<follows, events, fanouts, fanning, tasks, rows, steady, since, lost>>

\* Mutant: follower_count > 1.
CreatePostOffByOne(d) ==
    /\ d \in drafts
    /\ Record("post", d.author, d.author)
    /\ drafts' = drafts \ {d}
    /\ steady' = [steady EXCEPT ![NextId] = d.counted \cap Followers(d.author)]
    /\ since' = [since EXCEPT ![NextId] = Followers(d.author)]
    /\ fanouts' = IF Cardinality(d.counted) > 1 THEN fanouts \cup {NextId} ELSE fanouts
    /\ UNCHANGED <<follows, fanning, tasks, rows, lost>>

\* ... and if there were any, the fan-out is queued when it has committed.
CreatePost(d) ==
    /\ d \in drafts
    /\ Record("post", d.author, d.author)
    /\ drafts' = drafts \ {d}
    /\ steady' = [steady EXCEPT ![NextId] = d.counted \cap Followers(d.author)]
    /\ since' = [since EXCEPT ![NextId] = Followers(d.author)]
    /\ IF d.counted = {}
       THEN UNCHANGED <<fanouts, lost>>
       ELSE \/ fanouts' = fanouts \cup {NextId} /\ lost' = lost
            \/ fanouts' = fanouts /\ lost' = lost \cup {NextId}
    /\ UNCHANGED <<follows, fanning, tasks, rows>>

\* The transaction is rolled back.
Rollback(d) ==
    /\ d \in drafts
    /\ drafts' = drafts \ {d}
    /\ UNCHANGED <<follows, events, fanouts, fanning, tasks, rows, steady, since, lost>>

\* LikeToggleView when the toggle created a Like.
LikePost(u, e) ==
    /\ e \in 1..Len(events)
    /\ events[e].kind = "post"
    /\ LET author == events[e].actor IN
           /\ Record("like", u, author)
           /\ IF author = u
              THEN UNCHANGED <<tasks, lost>>
              ELSE Delay(create_like_notification(author, u, NextId))
    /\ UNCHANGED <<follows, drafts, fanouts, fanning, rows, steady, since>>

MarkRead(n) ==
    /\ n \in rows
    /\ rows' = (rows \ {n}) \cup {[n EXCEPT !.is_read = TRUE]}
    /\ UNCHANGED <<fanouts, fanning, tasks, lost>> /\ UNCHANGED graph

MarkAllRead(u) ==
    /\ rows' = {n \in rows : n.recipient # u}
                  \cup {[n EXCEPT !.is_read = TRUE] : n \in {m \in rows : m.recipient = u}}
    /\ UNCHANGED <<fanouts, fanning, tasks, lost>> /\ UNCHANGED graph

-----------------------------------------------------------------------------
(* Workers. *)

\* fan_out_notification_to_followers reads the followers of the moment ...
StartFanOut(e) ==
    /\ e \in fanouts
    /\ fanouts' = fanouts \ {e}
    /\ fanning' = fanning \cup {[event |-> e, todo |-> Followers(events[e].actor)]}
    /\ UNCHANGED <<tasks, rows, lost>> /\ UNCHANGED graph

\* Mutant: the same follower is queued again.
FanOutOneAgain(f, r) ==
    /\ f \in fanning
    /\ r \in f.todo
    /\ fanning' = fanning
    /\ tasks' = tasks \cup {OneTask("new_post", f.event, r, events[f.event].actor)}
    /\ UNCHANGED <<fanouts, rows, lost>> /\ UNCHANGED graph

\* ... queues a task for each of them ...
FanOutOne(f, r) ==
    /\ f \in fanning
    /\ r \in f.todo
    /\ fanning' = (fanning \ {f}) \cup {[f EXCEPT !.todo = @ \ {r}]}
    /\ tasks' = tasks \cup {OneTask("new_post", f.event, r, events[f.event].actor)}
    /\ UNCHANGED <<fanouts, rows, lost>> /\ UNCHANGED graph

\* ... and ends, or is cut short.
EndFanOut(f) ==
    /\ f \in fanning
    /\ fanning' = fanning \ {f}
    /\ lost' = IF f.todo = {} THEN lost ELSE lost \cup {f.event}
    /\ UNCHANGED <<fanouts, tasks, rows>> /\ UNCHANGED graph

\* The rows about event e that u has, and the one that a task adds.
Told(u, e) == {n \in rows : n.event = e /\ n.recipient = u}
RowOf(task) ==
    [kind |-> task.kind, event |-> task.event, recipient |-> task.recipient,
     sender |-> task.sender, copy |-> Cardinality(Told(task.recipient, task.event)) + 1,
     is_read |-> FALSE]

\* Notification.objects.create succeeds.
Write(task) ==
    /\ task \in tasks
    /\ tasks' = tasks \ {task}
    /\ rows' = rows \cup {RowOf(task)}
    /\ UNCHANGED <<fanouts, fanning, lost>> /\ UNCHANGED graph

\* Mutant: max_retries is not looked at.
RetryAlways(task) ==
    /\ task \in tasks
    /\ tasks' = (tasks \ {task}) \cup {[task EXCEPT !.retries = @ + 1]}
    /\ rows' = rows \cup {RowOf(task)}
    /\ UNCHANGED <<fanouts, fanning, lost>> /\ UNCHANGED graph

\* It raises, before the commit or after it, and the task is retried.
Retry(task) ==
    /\ task \in tasks
    /\ task.retries < MaxRetries
    /\ tasks' = (tasks \ {task}) \cup {[task EXCEPT !.retries = @ + 1]}
    /\ \/ rows' = rows
       \/ rows' = rows \cup {RowOf(task)}
    /\ UNCHANGED <<fanouts, fanning, lost>> /\ UNCHANGED graph

\* The last retry raises, or the worker dies with the task or a fan-out task.
LoseTask(task) ==
    /\ task \in tasks
    /\ tasks' = tasks \ {task}
    /\ lost' = lost \cup {task.event}
    /\ UNCHANGED <<fanouts, fanning, rows>> /\ UNCHANGED graph

LoseFanOut(e) ==
    /\ e \in fanouts
    /\ fanouts' = fanouts \ {e}
    /\ lost' = lost \cup {e}
    /\ UNCHANGED <<fanning, tasks, rows>> /\ UNCHANGED graph

RunFanOut ==
    \/ \E e \in fanouts : StartFanOut(e) \/ LoseFanOut(e)
    \/ \E f \in fanning : EndFanOut(f) \/ \E r \in f.todo : FanOutOne(f, r)

RunTask == \E task \in tasks : Write(task) \/ Retry(task) \/ LoseTask(task)

Next ==
    \/ \E a, b \in Users : Follow(a, b) \/ Unfollow(a, b)
    \/ \E a \in Users : CountFollowers(a) \/ MarkAllRead(a)
    \/ \E d \in drafts : CreatePost(d) \/ Rollback(d)
    \/ \E u \in Users, e \in Ids : LikePost(u, e)
    \/ \E n \in rows : MarkRead(n)
    \/ RunFanOut
    \/ RunTask

Spec == Init /\ [][Next]_vars

\* Workers keep taking tasks.
FairSpec == Spec /\ WF_vars(RunFanOut) /\ WF_vars(RunTask)

-----------------------------------------------------------------------------
(* Properties. *)

TypeOK ==
    /\ follows \subseteq Users \X Users
    /\ events \in Seq(Event) /\ Len(events) <= MaxEvents
    /\ drafts \subseteq [author: Users, counted: SUBSET Users]
    /\ fanouts \subseteq Ids
    /\ fanning \subseteq [event: Ids, todo: SUBSET Users]
    /\ tasks \subseteq Task
    /\ rows \subseteq Notification
    /\ steady \in [Ids -> SUBSET Users] /\ since \in [Ids -> SUBSET Users]
    /\ lost \subseteq Ids

\* A post is announced only to users who followed its author at the post or
\* later, however follows, unfollows and the fan-out interleave.
AnnouncedToFollowers ==
    \A n \in rows : n.kind = "new_post" =>
        n.recipient \in since[n.event] /\ n.sender = events[n.event].actor

\* A like is told to the author of the post, by the user who liked it, and
\* never to himself.
LikeToldToAuthor ==
    \A n \in rows : n.kind = "like" =>
        /\ n.recipient = events[n.event].target /\ n.sender = events[n.event].actor
        /\ n.recipient # n.sender

\* A follow is told to the user who follows, by the user whom he follows: the
\* two ids are exchanged on the way (FollowToldToFollowed says what was meant).
FollowToldToFollower ==
    \A n \in rows : n.kind = "follow" =>
        n.recipient = events[n.event].actor /\ n.sender = events[n.event].target

\* One event brings a user at most MaxRetries + 1 rows: its fan-out queues him
\* once, and each attempt of the task that is queued writes one row at most.
DuplicatesBounded ==
    \A e \in Ids, u \in Users : Cardinality(Told(u, e)) <= MaxRetries + 1

\* Who is told of what, by whom, and how often at most: announcements of posts
\* and likes reach those whom they concern, notifications of follows do not.
NotificationsAccounted ==
    /\ AnnouncedToFollowers
    /\ LikeToldToAuthor
    /\ FollowToldToFollower
    /\ DuplicatesBounded

\* Whoever follows the author when create_post counts, and from the post on, is
\* told of it in the end, or a task of the post was lost on the way.  Who comes
\* after the count may not be: if he is the first follower, nothing is queued.
SteadyFollowersTold ==
    \A e \in Ids, u \in Users :
        (u \in steady[e]) ~> Told(u, e) # {} \/ e \in lost \/ u \notin steady[e]

(* A statement of a test that the code does not keep. *)

\* tests/unit/test_notifications.py: a follow notifies the user followed.
FollowToldToFollowed ==
    \A n \in rows : n.kind = "follow" => n.recipient = events[n.event].target

-----------------------------------------------------------------------------
(* The inductive invariant behind TypeOK and NotificationsAccounted. *)

IsPost(e) == e \in 1..Len(events) /\ events[e].kind = "post"

\* A task or a row says of its event what a task of that event says.
FromEvent(x) ==
    LET e == events[x.event] IN
    /\ x.event \in 1..Len(events)
    /\ \/ x.kind = "follow" /\ e.kind = "follow" /\ x.recipient = e.actor /\ x.sender = e.target
       \/ /\ x.kind = "like" /\ e.kind = "like" /\ e.actor # e.target
          /\ x.recipient = e.target /\ x.sender = e.actor
       \/ /\ x.kind = "new_post" /\ e.kind = "post"
          /\ x.recipient \in since[x.event] /\ x.sender = e.actor

\* A fan-out is of a post, and what it has yet to do is for its followers.
FanOutsSound ==
    /\ \A e \in fanouts : IsPost(e)
    /\ \A f \in fanning : IsPost(f.event) /\ f.todo \subseteq since[f.event]

\* Whoever follows the author of a post now has followed him since.
FollowersCounted ==
    \A e \in 1..Len(events), f \in Users :
        IsPost(e) /\ <<f, events[e].actor>> \in follows => f \in since[e]

\* A user is queued once for an event: while he is waiting for his task nobody
\* has queued it, and while it is in the broker there is no other.
QueuedOnce ==
    /\ \A x, y \in tasks : x.event = y.event /\ x.recipient = y.recipient => x = y
    /\ \A e \in fanouts : \A x \in tasks \cup rows \cup fanning : x.event # e
    /\ \A f, g \in fanning : f.event = g.event => f = g
    /\ \A f \in fanning : \A x \in tasks \cup rows :
           x.event = f.event => x.recipient \notin f.todo

\* A task that is yet to be tried has written a row for each earlier attempt, at
\* most.
RowPerAttempt ==
    /\ IsFiniteSet(rows)
    /\ \A x \in tasks : Cardinality(Told(x.recipient, x.event)) <= x.retries
    /\ DuplicatesBounded

IInv ==
    /\ TypeOK
    /\ \A x \in tasks \cup rows : FromEvent(x)
    /\ FanOutsSound
    /\ FollowersCounted
    /\ QueuedOnce
    /\ RowPerAttempt
=============================================================================
