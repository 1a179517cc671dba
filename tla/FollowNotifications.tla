------------------------- MODULE FollowNotifications -------------------------
(***************************************************************************)
(* What the characters that a user follows publish is turned into          *)
(* notifications of that user when the app asks for it                     *)
(* (syncFollowNotifications).  How they are read is in PagedList.          *)
(*                                                                         *)
(* Posts and stories are published by opod-admin, in transactions of its   *)
(* own that may commit after their created_at.                             *)
(***************************************************************************)
EXTENDS DatabaseClock, Sequences, FiniteSets, SequencesExt

CONSTANTS
  Characters,
  Posts, Stories,  \* numbered as they are created
  Owner,           \* [Posts \cup Stories -> Characters]
  Syncs,           \* calls of syncFollowNotifications in flight
  SyncLimit,       \* FOLLOW_NOTIFICATION_SYNC_LIMIT
  StoryLife,       \* from created_at to expires_at of a story
  Retiring,        \* bound of the model: characters that may be deactivated
  Fickle           \* bound of the model: characters that are followed and unfollowed

Items == Posts \cup Stories

ASSUME ItemsAreNumbered == Items \subseteq Nat /\ Posts \cap Stories = {}
ASSUME OwnerType == Owner \in [Items -> Characters]
ASSUME BoundsOfCharacters == Retiring \subseteq Characters /\ Fickle \subseteq Characters
ASSUME LimitIsPositive == SyncLimit \in Nat \ {0}
ASSUME LifeIsNatural == StoryLife \in Nat

VARIABLES
  item,           \* posts and stories
  active,         \* characters of status "active"
  follow,         \* user_character_follows of the user
  notifications,  \* what the notifications of the user are about, in the order of their IDs
  sync,           \* calls of syncFollowNotifications
  late            \* history: items committed when a window over them had been read

followVars == <<now, item, active, follow, notifications, sync, late>>

-----------------------------------------------------------------------------
(***************************************************************************)
(* Rows and records                                                        *)
(***************************************************************************)

Item == [state: {"none", "open", "visible"}, createdAt: Times]
NoSuchItem == [state |-> "none", createdAt |-> 0]

ExpiresAt(i) == item[i].createdAt + StoryLife

\* since is created_at.
Follow == [on: BOOLEAN, since: Times, notifiedUpToAt: Times]
NoFollow == [on |-> FALSE, since |-> 0, notifiedUpToAt |-> 0]
FollowSince(t) == [on |-> TRUE, since |-> t, notifiedUpToAt |-> t]

\* A sync waits for the advisory lock, has it and has read the follows (with
\* their watermarks), or has read the items too.
Sync == [pc: {"idle", "waiting", "locked", "read"},
         watermarks: UNION {[C -> Times] : C \in SUBSET Characters},
         syncedAt: Times,
         found: SUBSET Items]
NoSync == [pc |-> "idle", watermarks |-> <<>>, syncedAt |-> 0, found |-> {}]

Notified(i) == i \in Range(notifications)

-----------------------------------------------------------------------------
(***************************************************************************)
(* opod-admin, and time                                                    *)
(***************************************************************************)

\* created_at is the beginning of the transaction, and IDs follow it.
ItemBegins(i) ==
  /\ item[i].state = "none"
  /\ \A j \in Items : j < i => item[j].state # "none"
  /\ item' = [item EXCEPT ![i] = [state |-> "open", createdAt |-> now]]
  /\ UNCHANGED <<now, active, follow, notifications, sync, late>>

\* A window that ends at or after createdAt has been read.
Passed(i) ==
  \/ follow[Owner[i]].on /\ item[i].createdAt <= follow[Owner[i]].notifiedUpToAt
  \/ \E s \in Syncs : /\ sync[s].pc = "read"
                      /\ Owner[i] \in DOMAIN sync[s].watermarks
                      /\ item[i].createdAt <= sync[s].syncedAt

ItemCommits(i) ==
  /\ item[i].state = "open"
  /\ item' = [item EXCEPT ![i].state = "visible"]
  /\ late' = IF Passed(i) THEN late \cup {i} ELSE late
  /\ UNCHANGED <<now, active, follow, notifications, sync>>

StatusChanges(c) ==
  /\ c \in Retiring
  /\ active' = IF c \in active THEN active \ {c} ELSE active \cup {c}
  /\ UNCHANGED <<now, item, follow, notifications, sync, late>>

Tick ==
  /\ TimePasses
  /\ UNCHANGED <<item, active, follow, notifications, sync, late>>

-----------------------------------------------------------------------------
(***************************************************************************)
(* FollowsService; neither takes the lock of the sync                      *)
(***************************************************************************)

\* An existing row keeps its watermark (ON CONFLICT sets what it has).
FollowCharacter(c) ==
  /\ c \in Fickle
  /\ c \in active
  /\ ~follow[c].on
  /\ follow' = [follow EXCEPT ![c] = FollowSince(now)]
  /\ UNCHANGED <<now, item, active, notifications, sync, late>>

UnfollowCharacter(c) ==
  /\ c \in Fickle
  /\ c \in active
  /\ follow[c].on
  /\ follow' = [follow EXCEPT ![c] = NoFollow]
  /\ UNCHANGED <<now, item, active, notifications, sync, late>>

-----------------------------------------------------------------------------
(***************************************************************************)
(* syncFollowNotifications: one transaction, under READ COMMITTED          *)
(***************************************************************************)

\* Mutant: no advisory lock.
UnlockedAlways(s) == TRUE

\* pg_advisory_xact_lock on notifications:<user>.
Unlocked(s) == \A r \in Syncs : sync[r].pc \notin {"locked", "read"}

SyncBegins(s) ==
  /\ sync[s].pc = "idle"
  /\ sync' = [sync EXCEPT ![s] = [NoSync EXCEPT !.pc = "waiting"]]
  /\ UNCHANGED <<now, item, active, follow, notifications, late>>

ActiveFollows == {c \in active : follow[c].on}

\* Nobody to ask for: the transaction ends.
SyncReadsFollows(s) ==
  /\ sync[s].pc = "waiting"
  /\ Unlocked(s)
  /\ sync' = [sync EXCEPT ![s] =
       IF ActiveFollows = {} THEN NoSync
       ELSE [@ EXCEPT !.pc = "locked",
                      !.watermarks = [c \in ActiveFollows |-> Date(follow[c].notifiedUpToAt)]]]
  /\ UNCHANGED <<now, item, active, follow, notifications, late>>

\* Mutant: the lower bound belongs to the window.
InWindowInclusive(i, from, to) == item[i].createdAt >= from /\ item[i].createdAt <= to

InWindow(i, from, to) == item[i].createdAt > from /\ item[i].createdAt <= to

\* What the two queries select; expired stories cannot be opened.
Windowed(s, at) ==
  {i \in Items : /\ item[i].state = "visible"
                 /\ Owner[i] \in DOMAIN sync[s].watermarks
                 /\ InWindow(i, sync[s].watermarks[Owner[i]], at)
                 /\ i \in Stories => ExpiresAt(i) > at}

\* ORDER BY created_at DESC, id DESC.
NewerItem(i, j) ==
  \/ item[i].createdAt > item[j].createdAt
  \/ item[i].createdAt = item[j].createdAt /\ i > j

NewestOf(S, n) == {i \in S : Cardinality({j \in S : NewerItem(j, i)}) < n}

\* One more than the limit of each kind tells if something is left out.
SyncReadsItems(s) ==
  /\ sync[s].pc = "locked"
  /\ LET rows == Windowed(s, Date(now))
         take == SyncLimit + 1
     IN sync' = [sync EXCEPT ![s] = [@ EXCEPT !.pc = "read", !.syncedAt = Date(now),
                                              !.found = NewestOf(rows \cap Posts, take)
                                                        \cup NewestOf(rows \cap Stories, take)]]
  /\ UNCHANGED <<now, item, active, follow, notifications, late>>

\* The stable sort of posts, then stories, by Dates.
Before(i, j) ==
  LET a == Date(item[i].createdAt)
      b == Date(item[j].createdAt)
  IN \/ a > b
     \/ a = b /\ i \in Posts /\ j \in Stories
     \/ a = b /\ (i \in Posts <=> j \in Posts) /\ NewerItem(i, j)

Selected(s) ==
  LET candidates == CHOOSE q \in SetToSeqs(sync[s].found) :
                      \A j, k \in DOMAIN q : j < k => Before(q[j], q[k])
  IN SubSeq(candidates, 1, IF Len(candidates) < SyncLimit THEN Len(candidates) ELSE SyncLimit)

\* Mutant: characters that were not active are passed over for good.
AdvancedAll(s) == {c \in Characters : follow[c].on}

\* The follows that were read, as far as they still exist.
Advanced(s) == {c \in DOMAIN sync[s].watermarks : follow[c].on}

\* INSERT, UPDATE and COMMIT.  The watermark moves even if items were left out.
SyncCommits(s) ==
  /\ sync[s].pc = "read"
  /\ notifications' = notifications \o Selected(s)
  /\ follow' = [c \in Characters |->
                  IF c \in Advanced(s) THEN [follow[c] EXCEPT !.notifiedUpToAt = sync[s].syncedAt]
                  ELSE follow[c]]
  /\ sync' = [sync EXCEPT ![s] = NoSync]
  /\ UNCHANGED <<now, item, active, late>>

SyncFails(s) ==
  /\ sync[s].pc # "idle"
  /\ sync' = [sync EXCEPT ![s] = NoSync]
  /\ UNCHANGED <<now, item, active, follow, notifications, late>>

-----------------------------------------------------------------------------
FollowInit ==
  /\ now = 0
  /\ item = [i \in Items |-> NoSuchItem]
  /\ active = Characters
  /\ follow = [c \in Characters |-> IF c \in Fickle THEN NoFollow ELSE FollowSince(0)]
  /\ notifications = <<>>
  /\ sync = [s \in Syncs |-> NoSync]
  /\ late = {}

Publishing ==
  \/ \E i \in Items : ItemBegins(i) \/ ItemCommits(i)
  \/ \E c \in Characters : StatusChanges(c)

SyncFollowNotifications(s) ==
  SyncBegins(s) \/ SyncReadsFollows(s) \/ SyncReadsItems(s) \/ SyncCommits(s) \/ SyncFails(s)

FollowNext ==
  \/ Tick \/ Publishing
  \/ \E c \in Characters : FollowCharacter(c) \/ UnfollowCharacter(c)
  \/ \E s \in Syncs : SyncFollowNotifications(s)

FollowSpec == FollowInit /\ [][FollowNext]_followVars

-----------------------------------------------------------------------------
(***************************************************************************)
(* Properties                                                              *)
(***************************************************************************)

\* The types; one sync at a time is inside, and what it has found is of
\* characters whose follow it read.
NotifyTypeOK ==
  /\ now \in Times
  /\ item \in [Items -> Item]
  /\ active \subseteq Characters
  /\ follow \in [Characters -> Follow]
  /\ notifications \in Seq(Items)
  /\ sync \in [Syncs -> Sync]
  /\ late \subseteq Items
  /\ \A r, s \in Syncs : {sync[r].pc, sync[s].pc} \subseteq {"locked", "read"} => r = s

\* No post or story is notified twice, whatever syncs run at once, are repeated
\* or roll back, and however often its character is unfollowed and followed.
NotifiedOnce == IsInjective(notifications)

\* SyncLimit items that are not older have been notified.
GivenUp(i) ==
  Cardinality({j \in Range(notifications) : Date(item[j].createdAt) >= Date(item[i].createdAt)}) >= SyncLimit

\* What a character has published since it was followed, up to its watermark,
\* has been notified; unless it was committed late (the risk that the comment on
\* syncFollowNotifications accepts), is a story that has expired, or had to give
\* way to as many newer items as one sync notifies.
NothingLost ==
  \A i \in Items :
    LET f == follow[Owner[i]]
    IN /\ item[i].state = "visible"
       /\ f.on /\ f.since < item[i].createdAt /\ item[i].createdAt <= f.notifiedUpToAt
       => \/ Notified(i)
          \/ i \in late
          \/ i \in Stories /\ ExpiresAt(i) <= f.notifiedUpToAt
          \/ GivenUp(i)

=============================================================================
