----------------------------- MODULE ActorBase -----------------------------
(***************************************************************************)
(* The actor object (actor_base.h, actor_base.cc): its tick state, the     *)
(* time of its last tick and its mailbox.  The operators below are what    *)
(* the methods do; ActorCore says which thread calls them and when.        *)
(*                                                                         *)
(* addmsg and the copying half of handle_all_msg run under                 *)
(* m_msg_vec_mutex and do nothing else there, so each is one step.         *)
(***************************************************************************)
EXTENDS Integers, Sequences

CONSTANTS
  Actors,      \* the actor objects
  Ids,         \* the int32_t ids an actor can carry
  Interval,    \* what each actor's get_tick_interval() returns
  Msgs,        \* messages (pointers to IActorMessage objects)
  NullMsg,     \* a null ActorMsgPtr
  Garbage,     \* what the memory of m_last_tick_timestamp may hold at birth
  MaxMsgs      \* bound: messages added to each actor

ASSUME ActorAssumption ==
  /\ Ids \subseteq Int
  /\ Interval \in [Actors -> Nat]
  /\ NullMsg \notin Msgs
  /\ Garbage \subseteq Int

ASSUME BoundAssumption == MaxMsgs \in [Actors -> Nat]

VARIABLES
  m_id,                   \* m_id of each actor
  m_state,                \* the atomic m_state of each actor
  m_last_tick_timestamp,  \* m_last_tick_timestamp of each actor
  m_msg_vec               \* m_msg_vec of each actor

baseVars == <<m_id, m_state, m_last_tick_timestamp, m_msg_vec>>

STATE_READY_TICK == "STATE_READY_TICK"
STATE_TICKING    == "STATE_TICKING"

ActorMsgPtr == Msgs \cup {NullMsg}

BaseTypeOK ==
  /\ m_id \in [Actors -> Ids]
  /\ m_state \in [Actors -> {STATE_READY_TICK, STATE_TICKING}]
  /\ m_last_tick_timestamp \in [Actors -> Int]
  /\ m_msg_vec \in [Actors -> Seq(ActorMsgPtr)]

(***************************************************************************)
(* The constructor sets m_id and m_state; m_last_tick_timestamp has no     *)
(* initializer, so its first value is whatever the allocator left there.   *)
(***************************************************************************)
ActorBaseInit ==
  /\ m_id \in [Actors -> Ids]
  /\ m_state = [a \in Actors |-> STATE_READY_TICK]
  /\ m_last_tick_timestamp \in [Actors -> Garbage]
  /\ m_msg_vec = [a \in Actors |-> <<>>]

set_state(a, s) == m_state' = [m_state EXCEPT ![a] = s]

set_last_tick_timestamp(a, ts) ==
  m_last_tick_timestamp' = [m_last_tick_timestamp EXCEPT ![a] = ts]

set_id(a, id) == m_id' = [m_id EXCEPT ![a] = id]

\* Mutant: the difference is unsigned, so a clock set back looks like a
\* very long time.
ReadyTickUnsigned(a, ts) ==
  /\ m_state[a] = STATE_READY_TICK
  /\ \/ ts - m_last_tick_timestamp[a] >= Interval[a]
     \/ ts < m_last_tick_timestamp[a]

\* An actor is due when it is not ticking and its interval has elapsed.
ready_tick(a, ts) ==
  /\ m_state[a] = STATE_READY_TICK
  /\ ts - m_last_tick_timestamp[a] >= Interval[a]

addmsg(a, msgptr) == m_msg_vec' = [m_msg_vec EXCEPT ![a] = Append(@, msgptr)]

\* ActorBase::init(), a hook for whoever creates the actor.
init(a) == set_state(a, STATE_READY_TICK)
=============================================================================
