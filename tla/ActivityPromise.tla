--------------------------- MODULE ActivityPromise ---------------------------
(***************************************************************************)
(* What the social activities of characters promise, without workers,      *)
(* leases or retries: a character has one open activity at a time, an      *)
(* activity ends once, and only its end lets the character act.  It then   *)
(* looks at a few posts it has not seen, likes some of those, and follows  *)
(* authors whose posts it has liked often enough; what it does on one day  *)
(* stays within the limits of its policy, however often work is repeated.  *)
(***************************************************************************)
EXTENDS Integers, FiniteSets

CONSTANTS
  Activities,    \* activities that may be opened
  Characters, NoCharacter,
  Posts, Author, \* posts, and the character that wrote each
  Days,          \* calendar days, 1 and up; day 0 is "never"
  PostsPerRun,   \* posts seen by one activity
  MaxViews, MaxLikes, MaxFollows,  \* daily limits
  LikesToFollow  \* liked posts it takes to follow their author

VARIABLES
  state,    \* none, open, acted or dropped
  actor,    \* whose activity it is
  viewed,   \* the day each character saw each post
  liked,    \* the day it liked each post
  followed  \* the day it followed each character

deeds == <<viewed, liked, followed>>
promiseVars == <<state, actor, deeds>>

PromiseInit ==
  /\ state = [a \in Activities |-> "none"]
  /\ actor = [a \in Activities |-> NoCharacter]
  /\ viewed = [c \in Characters |-> [p \in Posts |-> 0]]
  /\ liked = [c \in Characters |-> [p \in Posts |-> 0]]
  /\ followed = [c \in Characters |-> [d \in Characters |-> 0]]

On(log, d) == {x \in DOMAIN log : log[x] = d}
Ever(log) == {x \in DOMAIN log : log[x] # 0}

\* log with the entries S of day d.
Logged(log, S, d) == [x \in DOMAIN log |-> IF x \in S THEN d ELSE log[x]]

Open(a, c) ==
  /\ state[a] = "none"
  /\ ~\E b \in Activities : state[b] = "open" /\ actor[b] = c
  /\ state' = [state EXCEPT ![a] = "open"]
  /\ actor' = [actor EXCEPT ![a] = c]
  /\ UNCHANGED deeds

Drop(a) ==
  /\ state[a] = "open"
  /\ state' = [state EXCEPT ![a] = "dropped"]
  /\ UNCHANGED <<actor, deeds>>

\* c acts on day d: sees V, likes L, follows F.
Does(c, d, V, L, F) ==
  /\ Cardinality(V) <= PostsPerRun
  /\ \A p \in V : viewed[c][p] = 0 /\ Author[p] # c
  /\ L \subseteq V
  /\ \A e \in F : /\ e # c
                  /\ followed[c][e] = 0
                  /\ Cardinality({p \in Ever(liked[c]) \cup L : Author[p] = e}) >= LikesToFollow
  /\ Cardinality(On(viewed[c], d) \cup V) <= MaxViews
  /\ Cardinality(On(liked[c], d) \cup L) <= MaxLikes
  /\ Cardinality(On(followed[c], d) \cup F) <= MaxFollows
  /\ viewed' = [viewed EXCEPT ![c] = Logged(@, V, d)]
  /\ liked' = [liked EXCEPT ![c] = Logged(@, L, d)]
  /\ followed' = [followed EXCEPT ![c] = Logged(@, F, d)]

Act(a) ==
  /\ state[a] = "open"
  /\ \E d \in Days, V \in SUBSET Posts, F \in SUBSET Characters :
       \E L \in SUBSET V : Does(actor[a], d, V, L, F)
  /\ state' = [state EXCEPT ![a] = "acted"]
  /\ UNCHANGED actor

PromiseNext ==
  \E a \in Activities : Drop(a) \/ Act(a) \/ \E c \in Characters : Open(a, c)

PromiseSpec == PromiseInit /\ [][PromiseNext]_promiseVars

=============================================================================
