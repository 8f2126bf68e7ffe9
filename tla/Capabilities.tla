---------------------------- MODULE Capabilities ----------------------------
(***************************************************************************)
(* What the kernel promises of calls between maps, without tables, stack   *)
(* pointers or loaded maps.  A thread is a stack of activations, each a    *)
(* routine in a map.  It may call what somebody granted to the map it is   *)
(* in, and a return ends where the call came from.  A map can be granted   *)
(* only what its provider made, or a copy of what another map was granted, *)
(* and only by a thread that it called or that is about to call it.        *)
(***************************************************************************)
EXTENDS Naturals, Sequences

CONSTANTS Thread,
          System,       \* the map that may create threads
          Routines,     \* entry points
          InitialStack, InitialGrants

VARIABLES stack,   \* of each thread; the last is running; << >>: not created
          grants   \* triples of user, provider and handler

capVars == <<stack, grants>>

Exit == [map |-> System, at |-> "thread_exit"]

Top(t) == stack[t][Len(stack[t])]

CallerMap(t) == stack[t][Len(stack[t]) - 1].map

Inside(t) == Len(stack[t]) > 1

GrantedTo(m) == {g \in grants : g.user = m}

CapInit == stack = InitialStack /\ grants = InitialGrants

CallGranted(t) ==
    /\ Inside(t)
    /\ \E g \in GrantedTo(Top(t).map) :
          stack' = [stack EXCEPT ![t] = Append(@, [map |-> g.provider, at |-> g.handler])]
    /\ UNCHANGED grants

ReturnToCaller(t) ==
    /\ Inside(t)
    /\ stack' = [stack EXCEPT ![t] = SubSeq(@, 1, Len(@) - 1)]
    /\ UNCHANGED grants

(* Something of its own, or a copy of what its map was granted. *)
MayGive(t, g) ==
    \/ g.provider = Top(t).map /\ g.handler \in Routines
    \/ \E own \in GrantedTo(Top(t).map) :
          g.provider = own.provider /\ g.handler = own.handler

(* To its caller, or to the provider of something it may call. *)
MayGiveTo(t, m) ==
    \/ m = CallerMap(t)
    \/ \E target \in GrantedTo(Top(t).map) : m = target.provider

Grant(t) ==
    /\ Inside(t)
    /\ grants \subseteq grants'
    /\ \A g \in grants' \ grants : MayGive(t, g) /\ MayGiveTo(t, g.user)
    /\ UNCHANGED stack

(* The system map creates a thread in the map that asked for it. *)
Create(t, u) ==
    /\ Inside(t) /\ Top(t).map = System
    /\ stack[u] = << >>
    /\ stack' = [stack EXCEPT ![u] = <<Exit, [map |-> CallerMap(t), at |-> "entry"]>>]
    /\ UNCHANGED grants

CapNext ==
    \E t \in Thread : \/ Grant(t) \/ CallGranted(t) \/ ReturnToCaller(t)
                      \/ \E u \in Thread : Create(t, u)

CapSpec == CapInit /\ [][CapNext]_capVars
=============================================================================
