----------------------------- MODULE CallProofs -----------------------------
(***************************************************************************)
(* CallInv is an invariant of the interface table and of CALL and RETURN,  *)
(* for any threads, drivers, size of the table and depth of the stacks.    *)
(***************************************************************************)
EXTENDS Calls, SequenceTheorems, TLAPS

(* What is used of the layout of the table: maps are not 0, the index that *)
(* stands for none, and a free entry is not an interface.                  *)
LEMMA Layout ==
    /\ 0 \notin Map /\ System \in Map /\ Memory \in Map
    /\ FirstNew \in Nat /\ FirstNew >= 3
    /\ \A m \in Map : m \in Nat /\ m < FirstNew
    /\ \A i \in Nat : i >= 3 /\ i < FirstNew => 3 * (i \div 3) \in Map
    /\ Free \notin Interface
    /\ Free.user = 0
<1>1. FirstNew \in Nat /\ FirstNew >= 3
    BY CallAssumption DEF FirstNew
<1>2. \A m \in Map : m \in Nat /\ m > 0 /\ m < FirstNew
    BY CallAssumption DEF Map, DriverMaps, System, Memory, FirstNew
<1>3. \A i \in Nat : i >= 3 /\ i < FirstNew => 3 * (i \div 3) \in Map
    <2>1. SUFFICES ASSUME NEW i \in Nat, i >= 3, i < FirstNew
                   PROVE  i \div 3 \in 1 .. Drivers
        BY DEF Map, DriverMaps
    <2>2. QED
        BY <2>1, CallAssumption DEF FirstNew
<1>4. Free.user = 0
    BY DEF Free
<1>5. Free \notin Interface
    BY <1>2, <1>4 DEF Interface
<1>6. QED
    BY <1>1, <1>2, <1>3, <1>4, <1>5 DEF Map

(* A thread that runs is inside its first routine or deeper. *)
LEMMA InRoutine ==
    ASSUME TypeOK, StackInv, Running
    PROVE  /\ runnable \in Thread
           /\ Here \in Map
           /\ stack_pointer[runnable] \in 2 .. StackSize - 1
           /\ Frame \in [map : Map, pc : Routine]
           /\ Frame = stack[runnable][stack_pointer[runnable]]
           /\ pc[runnable] # "thread_exit"
           /\ Frame.pc = "thread_exit" <=> stack_pointer[runnable] = StackSize - 1
<1>1. runnable \in Thread /\ Here \in Map /\ pc[runnable] # "thread_exit"
    BY DEF TypeOK, Running, Able, Here
<1>2. stack_pointer[runnable] \in 2 .. StackSize - 1
    BY <1>1, CallAssumption DEF TypeOK, StackInv
<1>3. stack_pointer[runnable] \in stack_pointer[runnable] .. StackSize - 1
    BY <1>2, CallAssumption
<1>4. stack_pointer[runnable] \in 0 .. StackSize - 1
    BY <1>2, CallAssumption
<1>5. Frame = stack[runnable][stack_pointer[runnable]]
    BY DEF Frame
<1>6. Frame \in [map : Map, pc : Routine]
    <2>1. stack[runnable] \in [0 .. StackSize - 1 -> [map : Map, pc : Routine]]
        BY <1>1 DEF TypeOK
    <2>2. stack[runnable][stack_pointer[runnable]] \in [map : Map, pc : Routine]
        BY <1>4, <2>1
    <2>3. QED
        BY <1>5, <2>2
<1>7. Frame.pc = "thread_exit" <=> stack_pointer[runnable] = StackSize - 1
    BY <1>1, <1>3, <1>5 DEF StackInv
<1>8. QED
    BY <1>1, <1>2, <1>5, <1>6, <1>7

-----------------------------------------------------------------------------
LEMMA InitCall == Init => CallInv
<1> SUFFICES ASSUME Init PROVE CallInv
    OBVIOUS
<1> USE CallAssumption, Layout
<1>1. \A i \in Index : i < FirstNew => BootInterface(i) \in Interface
    <2>1. SUFFICES ASSUME NEW i \in Index, i < FirstNew
                   PROVE  BootInterface(i) \in Interface
        OBVIOUS
    <2>2. CASE i = Memory
        BY <2>2 DEF BootInterface, Interface, Routine
    <2>3. CASE i # Memory /\ i \in Map
        BY <2>3 DEF BootInterface, Interface, Routine
    <2>4. CASE i # Memory /\ i \notin Map
        <3>1. i \in Nat /\ i >= 3
            BY <2>1, <2>4 DEF Index, Map, System, Memory
        <3>2. QED
            BY <2>1, <2>4, <3>1 DEF BootInterface, Interface, Routine
    <2>5. QED
        BY <2>2, <2>3, <2>4
<1>2. table \in [Index -> Interface \union {Free}]
    BY <1>1 DEF Init, InitTable
<1>3. BottomFrame \in [map : Map, pc : Routine]
    BY DEF BottomFrame, Routine
<1>4. NewStack \in [0 .. StackSize - 1 -> [map : Map, pc : Routine]]
    BY <1>3 DEF NewStack
<1>5. \A m \in Map : m \in Index
    BY DEF Index
<1>6. TypeOK
    <2>1. next \in [Index -> 0 .. Last - 1] /\ kernel_free_interface \in Index
        BY DEF Init, Index
    <2>2. /\ current_map \in [Thread -> Map \union {0}]
          /\ pc \in [Thread -> Routine]
          /\ stack_pointer \in [Thread -> 2 .. StackSize]
          /\ stack \in [Thread -> [0 .. StackSize - 1 -> [map : Map, pc : Routine]]]
        BY <1>4 DEF Init, Routine
    <2>3. known \in [Map -> SUBSET Index]
        BY <1>5 DEF Init
    <2>4. offer \in [Thread -> [index : Index \union {0}, to : Index \union {0}]]
        BY DEF Init, NoOffer
    <2>5. runnable \in Thread /\ loaded_map \in Map
              /\ bsod \in {"no", "stack", "pool", "interface", "exception"}
        BY DEF Init
    <2>6. QED
        BY <1>2, <2>1, <2>2, <2>3, <2>4, <2>5 DEF TypeOK
<1>7. LoadedIsCurrent
    BY DEF Init, LoadedIsCurrent
<1>8. HandlesUsable
    <2>1. SUFFICES ASSUME NEW m \in Map, NEW i \in known[m]
                   PROVE  table[i] # Free /\ table[i].user = m
        BY DEF HandlesUsable
    <2>2. i \in Index /\ i < FirstNew /\ table[i] = BootInterface(i)
        BY <1>5 DEF Init, InitTable
    <2>3. CASE m = System
        BY <1>1, <2>2, <2>3 DEF Init, BootInterface
    <2>4. CASE m # System
        BY <1>1, <2>2, <2>4 DEF Init, BootInterface
    <2>5. QED
        BY <2>3, <2>4
<1>9. PoolInv
    <2>1. \A i \in Index : table[i] = Free <=> i >= FirstNew
        BY <1>1 DEF Init, InitTable, Index
    <2>2. QED
        BY <2>1 DEF Init, PoolInv
<1>10. OfferInv
    BY DEF Init, OfferInv, NoOffer
<1>11. StackInv
    <2>1. SUFFICES ASSUME NEW t \in Thread
                   PROVE  /\ pc[t] = "thread_exit" <=> stack_pointer[t] = StackSize
                          /\ \A s \in stack_pointer[t] .. StackSize - 1 :
                                stack[t][s].pc = "thread_exit" <=> s = StackSize - 1
        BY DEF StackInv
    <2>2. pc[t] # "thread_exit" /\ stack_pointer[t] = StackSize - 1
        BY DEF Init
    <2>3. stack[t][StackSize - 1].pc = "thread_exit"
        BY DEF Init, NewStack, BottomFrame
    <2>4. QED
        BY <2>2, <2>3
<1>12. QED
    BY <1>6, <1>7, <1>8, <1>9, <1>10, <1>11 DEF CallInv

-----------------------------------------------------------------------------
LEMMA SwitchKeeps ==
    ASSUME CallInv, NEW t \in Thread, Switch(t)
    PROVE  CallInv'
<1> USE DEF CallInv, Switch
<1>1. loaded_map' = current_map[t] /\ current_map[t] \in Map
    BY DEF ChangeMap, LoadedIsCurrent, Here, Able, TypeOK
<1>2. TypeOK'
    BY <1>1 DEF TypeOK, poolVars, threadVars
<1>3. LoadedIsCurrent'
    BY <1>1 DEF LoadedIsCurrent, threadVars
<1>4. HandlesUsable' /\ PoolInv'
    BY DEF HandlesUsable, PoolInv, poolVars
<1>5. OfferInv' /\ StackInv'
    BY DEF OfferInv, StackInv, poolVars, threadVars
<1>6. QED
    BY <1>2, <1>3, <1>4, <1>5

LEMMA CallKeeps ==
    ASSUME CallInv, NEW i \in Index, Call(i)
    PROVE  CallInv'
<1> DEFINE t == runnable
           e == table[i]
           sp == stack_pointer[t] - 1
           new == [map |-> Here, pc |-> pc[t]]
<1>1. /\ Running /\ Usable(i) /\ ~StackIsFull(sp)
      /\ offer[t].to \in {0, i}
      /\ offer[t].to = 0 => offer[t].index = 0
      /\ stack_pointer' = [stack_pointer EXCEPT ![t] = sp]
      /\ stack' = [stack EXCEPT ![t] = [@ EXCEPT ![sp] = new]]
      /\ ChangeMap(Here, e.provider)
      /\ current_map' = [current_map EXCEPT ![t] = e.provider]
      /\ pc' = [pc EXCEPT ![t] = e.handler]
      /\ Learn(e.provider, offer[t].index)
      /\ offer' = [offer EXCEPT ![t] = NoOffer]
      /\ UNCHANGED <<table, next, kernel_free_interface, runnable, bsod>>
    BY DEF Call, Saved, poolVars
<1>2. /\ t \in Thread /\ Here \in Map /\ stack_pointer[t] \in 2 .. StackSize - 1
      /\ pc[t] # "thread_exit"
    BY <1>1, InRoutine DEF CallInv
<1>3. e \in Interface /\ e.user \in Map /\ e.provider \in Map
         /\ e.handler \in Routine /\ e.handler # "thread_exit"
    BY <1>1 DEF CallInv, TypeOK, Usable, Interface
<1>4. sp \in 2 .. StackSize - 2 /\ new \in [map : Map, pc : Routine]
    BY <1>1, <1>2, CallAssumption DEF StackIsFull, CallInv, TypeOK
<1>5. loaded_map' = e.provider
    BY <1>1 DEF ChangeMap, CallInv, LoadedIsCurrent, Here
<1>6. offer[t].index # 0 => /\ offer[t].index \in Index
                            /\ table[offer[t].index] # Free
                            /\ table[offer[t].index].user = e.provider
    BY <1>1, <1>2 DEF CallInv, OfferInv, TypeOK
<1>7. TypeOK'
    <2>1. known' \in [Map -> SUBSET Index]
        BY <1>1, <1>3, <1>6 DEF CallInv, TypeOK, Learn
    <2>2. stack_pointer' \in [Thread -> 2 .. StackSize]
        BY <1>1, <1>4, CallAssumption DEF CallInv, TypeOK
    <2>3. stack' \in [Thread -> [0 .. StackSize - 1 -> [map : Map, pc : Routine]]]
        BY <1>1, <1>2, <1>4, CallAssumption DEF CallInv, TypeOK
    <2>4. offer' \in [Thread -> [index : Index \union {0}, to : Index \union {0}]]
        BY <1>1 DEF CallInv, TypeOK, NoOffer
    <2>5. /\ current_map' \in [Thread -> Map \union {0}]
          /\ pc' \in [Thread -> Routine]
          /\ loaded_map' \in Map
        BY <1>1, <1>3, <1>5 DEF CallInv, TypeOK
    <2>6. QED
        BY <1>1, <2>1, <2>2, <2>3, <2>4, <2>5 DEF CallInv, TypeOK
<1>8. LoadedIsCurrent'
    BY <1>1, <1>2, <1>5 DEF CallInv, TypeOK, LoadedIsCurrent
<1>9. HandlesUsable'
    <2>1. SUFFICES ASSUME NEW m \in Map, NEW k \in known'[m]
                   PROVE  table[k] # Free /\ table[k].user = m
        BY <1>1 DEF HandlesUsable
    <2>2. CASE k \in known[m]
        BY <2>2 DEF CallInv, HandlesUsable
    <2>3. CASE k \notin known[m]
        <3>1. m = e.provider /\ k = offer[t].index /\ offer[t].index # 0
            BY <1>1, <1>3, <2>3 DEF Learn, CallInv, TypeOK
        <3>2. QED
            BY <1>6, <3>1
    <2>4. QED
        BY <2>2, <2>3
<1>10. PoolInv'
    BY <1>1 DEF CallInv, PoolInv
<1>11. OfferInv'
    <2>1. SUFFICES ASSUME NEW u \in Thread
                   PROVE  /\ offer'[u].index = 0 => offer'[u].to = 0
                          /\ offer'[u].index # 0 => /\ current_map'[u] # 0
                                                    /\ table[offer'[u].index] # Free
                          /\ offer'[u].index # 0 /\ offer'[u].to = 0 =>
                                table[offer'[u].index].user = stack'[u][stack_pointer'[u]].map
                          /\ offer'[u].to # 0 =>
                                /\ table[offer'[u].to] # Free
                                /\ table[offer'[u].index].user = table[offer'[u].to].provider
        BY <1>1 DEF OfferInv
    <2>2. CASE u = t
        BY <1>1, <2>2 DEF NoOffer, CallInv, TypeOK
    <2>3. CASE u # t
        BY <1>1, <2>3 DEF CallInv, OfferInv, TypeOK
    <2>4. QED
        BY <2>2, <2>3
<1>12. StackInv'
    <2>1. SUFFICES ASSUME NEW u \in Thread
                   PROVE  /\ pc'[u] = "thread_exit" <=> stack_pointer'[u] = StackSize
                          /\ \A s \in stack_pointer'[u] .. StackSize - 1 :
                                stack'[u][s].pc = "thread_exit" <=> s = StackSize - 1
        BY DEF StackInv
    <2>2. CASE u # t
        BY <1>1, <2>2 DEF CallInv, StackInv, TypeOK
    <2>3. CASE u = t
        <3>1. pc'[u] # "thread_exit" /\ stack_pointer'[u] = sp
            BY <1>1, <1>2, <1>3, <2>3 DEF CallInv, TypeOK
        <3>2. ASSUME NEW s \in sp .. StackSize - 1
              PROVE  stack'[u][s].pc = "thread_exit" <=> s = StackSize - 1
            <4>1. CASE s = sp
                <5>1. stack'[u][s] = new
                    BY <1>1, <1>2, <1>4, <2>3, <4>1, CallAssumption DEF CallInv, TypeOK
                <5>2. QED
                    BY <1>2, <1>4, <4>1, <5>1, CallAssumption
            <4>2. CASE s # sp
                <5>1. stack'[u][s] = stack[t][s] /\ s \in stack_pointer[t] .. StackSize - 1
                    BY <1>1, <1>2, <1>4, <2>3, <4>2, CallAssumption DEF CallInv, TypeOK
                <5>2. QED
                    BY <1>2, <5>1 DEF CallInv, StackInv
            <4>3. QED
                BY <4>1, <4>2
        <3>3. QED
            BY <1>4, <3>1, <3>2, CallAssumption
    <2>4. QED
        BY <2>2, <2>3
<1>13. QED
    BY <1>7, <1>8, <1>9, <1>10, <1>11, <1>12 DEF CallInv

LEMMA ReturnKeeps ==
    ASSUME CallInv, Return
    PROVE  CallInv'
<1> DEFINE t == runnable
           sp == stack_pointer[t]
<1>1. /\ Running
      /\ offer[t].to = 0
      /\ ChangeMap(Here, Frame.map)
      /\ current_map' = [current_map EXCEPT ![t] = Frame.map]
      /\ pc' = [pc EXCEPT ![t] = Frame.pc]
      /\ stack_pointer' = [stack_pointer EXCEPT ![t] = sp + 1]
      /\ Learn(Frame.map, offer[t].index)
      /\ offer' = [offer EXCEPT ![t] = NoOffer]
      /\ UNCHANGED <<table, next, kernel_free_interface, stack, runnable, bsod>>
    BY DEF Return, poolVars
<1>2. /\ t \in Thread /\ sp \in 2 .. StackSize - 1
      /\ Frame.map \in Map /\ Frame.pc \in Routine
      /\ Frame = stack[t][sp]
      /\ Frame.pc = "thread_exit" <=> sp = StackSize - 1
    BY <1>1, InRoutine DEF CallInv
<1>3. loaded_map' = Frame.map
    BY <1>1 DEF ChangeMap, CallInv, LoadedIsCurrent, Here
<1>4. offer[t].index # 0 => /\ offer[t].index \in Index
                            /\ table[offer[t].index] # Free
                            /\ table[offer[t].index].user = Frame.map
    BY <1>1, <1>2 DEF CallInv, OfferInv, TypeOK
<1>5. TypeOK'
    <2>1. known' \in [Map -> SUBSET Index]
        BY <1>1, <1>2, <1>4 DEF CallInv, TypeOK, Learn
    <2>2. stack_pointer' \in [Thread -> 2 .. StackSize]
        BY <1>1, <1>2, CallAssumption DEF CallInv, TypeOK
    <2>3. offer' \in [Thread -> [index : Index \union {0}, to : Index \union {0}]]
        BY <1>1 DEF CallInv, TypeOK, NoOffer
    <2>4. /\ current_map' \in [Thread -> Map \union {0}]
          /\ pc' \in [Thread -> Routine]
          /\ loaded_map' \in Map
        BY <1>1, <1>2, <1>3 DEF CallInv, TypeOK
    <2>5. QED
        BY <1>1, <2>1, <2>2, <2>3, <2>4 DEF CallInv, TypeOK
<1>6. LoadedIsCurrent'
    BY <1>1, <1>2, <1>3 DEF CallInv, TypeOK, LoadedIsCurrent
<1>7. HandlesUsable'
    <2>1. SUFFICES ASSUME NEW m \in Map, NEW k \in known'[m]
                   PROVE  table[k] # Free /\ table[k].user = m
        BY <1>1 DEF HandlesUsable
    <2>2. CASE k \in known[m]
        BY <2>2 DEF CallInv, HandlesUsable
    <2>3. CASE k \notin known[m]
        <3>1. m = Frame.map /\ k = offer[t].index /\ offer[t].index # 0
            BY <1>1, <1>2, <2>3 DEF Learn, CallInv, TypeOK
        <3>2. QED
            BY <1>4, <3>1
    <2>4. QED
        BY <2>2, <2>3
<1>8. PoolInv'
    BY <1>1 DEF CallInv, PoolInv
<1>9. OfferInv'
    <2>1. SUFFICES ASSUME NEW u \in Thread
                   PROVE  /\ offer'[u].index = 0 => offer'[u].to = 0
                          /\ offer'[u].index # 0 => /\ current_map'[u] # 0
                                                    /\ table[offer'[u].index] # Free
                          /\ offer'[u].index # 0 /\ offer'[u].to = 0 =>
                                table[offer'[u].index].user = stack[u][stack_pointer'[u]].map
                          /\ offer'[u].to # 0 =>
                                /\ table[offer'[u].to] # Free
                                /\ table[offer'[u].index].user = table[offer'[u].to].provider
        BY <1>1 DEF OfferInv
    <2>2. CASE u = t
        BY <1>1, <2>2 DEF NoOffer, CallInv, TypeOK
    <2>3. CASE u # t
        BY <1>1, <2>3 DEF CallInv, OfferInv, TypeOK
    <2>4. QED
        BY <2>2, <2>3
<1>10. StackInv'
    <2>1. SUFFICES ASSUME NEW u \in Thread
                   PROVE  /\ pc'[u] = "thread_exit" <=> stack_pointer'[u] = StackSize
                          /\ \A s \in stack_pointer'[u] .. StackSize - 1 :
                                stack[u][s].pc = "thread_exit" <=> s = StackSize - 1
        BY <1>1 DEF StackInv
    <2>2. CASE u # t
        BY <1>1, <2>2 DEF CallInv, StackInv, TypeOK
    <2>3. CASE u = t
        <3>1. stack_pointer'[u] = sp + 1
            BY <1>1, <1>2, <2>3 DEF CallInv, TypeOK
        <3>2. pc'[u] = "thread_exit" <=> sp + 1 = StackSize
            BY <1>1, <1>2, <2>3, CallAssumption DEF CallInv, TypeOK
        <3>3. ASSUME NEW s \in sp + 1 .. StackSize - 1
              PROVE  stack[u][s].pc = "thread_exit" <=> s = StackSize - 1
            BY <1>2, <2>3, CallAssumption DEF CallInv, StackInv
        <3>4. QED
            BY <3>1, <3>2, <3>3
    <2>4. QED
        BY <2>2, <2>3
<1>11. QED
    BY <1>5, <1>6, <1>7, <1>8, <1>9, <1>10 DEF CallInv

(* The four ways to make an interface differ in what they put in it; this  *)
(* is what they have in common.                                            *)
LEMMA NewKeeps ==
    ASSUME CallInv,
           NEW user \in Map, NEW provider \in Map,
           NEW handler \in Routine \ {"thread_exit"},
           NEW to \in Index \union {0},
           to = 0 => user = Frame.map,
           to # 0 => table[to] # Free /\ user = table[to].provider,
           NewInterface(user, provider, handler, to)
    PROVE  CallInv'
<1> DEFINE t == runnable
           i == kernel_free_interface
           new == [user |-> user, provider |-> provider, handler |-> handler]
<1>1. /\ Running /\ ~PoolIsEmpty
      /\ table' = [table EXCEPT ![i] = new]
      /\ kernel_free_interface' = next[i]
      /\ offer' = [offer EXCEPT ![t] = [index |-> i, to |-> to]]
      /\ UNCHANGED <<next, current_map, pc, stack_pointer, stack, runnable,
                     loaded_map, known, bsod>>
    BY DEF NewInterface, threadVars
<1>2. t \in Thread /\ current_map[t] \in Map /\ Frame = stack[t][stack_pointer[t]]
    BY <1>1, InRoutine DEF CallInv, Here
<1>3. new \in Interface /\ new # Free /\ new.user = user
    BY Layout DEF Interface
<1>4. /\ i \in Index /\ i # 0 /\ next[i] = i + 1
      /\ i + 1 \in FirstNew .. Last - 1
      /\ table[i] = Free
    BY <1>1, Layout, CallAssumption DEF CallInv, PoolInv, PoolIsEmpty, Index
<1>5. \A k \in Index : table[k] # Free => k # i /\ table'[k] = table[k]
    BY <1>1, <1>4 DEF CallInv, TypeOK
<1>6. table'[i] = new
    BY <1>1, <1>4 DEF CallInv, TypeOK
<1>7. TypeOK'
    <2>1. table' \in [Index -> Interface \union {Free}]
        BY <1>1, <1>3, <1>4 DEF CallInv, TypeOK
    <2>2. kernel_free_interface' \in Index
        BY <1>1, <1>4, Layout, CallAssumption DEF Index
    <2>3. offer' \in [Thread -> [index : Index \union {0}, to : Index \union {0}]]
        BY <1>1, <1>4 DEF CallInv, TypeOK
    <2>4. QED
        BY <1>1, <2>1, <2>2, <2>3 DEF CallInv, TypeOK
<1>8. LoadedIsCurrent'
    BY <1>1 DEF CallInv, LoadedIsCurrent
<1>9. HandlesUsable'
    <2>1. SUFFICES ASSUME NEW m \in Map, NEW k \in known[m]
                   PROVE  table'[k] # Free /\ table'[k].user = m
        BY <1>1 DEF HandlesUsable
    <2>2. k \in Index /\ table[k] # Free /\ table[k].user = m
        BY DEF CallInv, HandlesUsable, TypeOK
    <2>3. QED
        BY <1>5, <2>2
<1>10. PoolInv'
    <2>1. ASSUME NEW k \in Index PROVE table'[k] = Free <=> k >= i + 1
        <3>1. k \in Nat /\ i \in Nat
            BY <1>4 DEF Index
        <3>2. CASE k = i
            BY <1>3, <1>6, <3>1, <3>2
        <3>3. CASE k # i
            <4>1. table'[k] = table[k]
                BY <1>1, <3>3 DEF CallInv, TypeOK
            <4>2. table[k] = Free <=> k >= i
                BY DEF CallInv, PoolInv
            <4>3. QED
                BY <3>1, <3>3, <4>1, <4>2
        <3>4. QED
            BY <3>2, <3>3
    <2>2. QED
        BY <1>1, <1>4, <2>1 DEF CallInv, PoolInv
<1>11. OfferInv'
    <2>1. SUFFICES ASSUME NEW u \in Thread
                   PROVE  /\ offer'[u].index = 0 => offer'[u].to = 0
                          /\ offer'[u].index # 0 => /\ current_map[u] # 0
                                                    /\ table'[offer'[u].index] # Free
                          /\ offer'[u].index # 0 /\ offer'[u].to = 0 =>
                                table'[offer'[u].index].user = stack[u][stack_pointer[u]].map
                          /\ offer'[u].to # 0 =>
                                /\ table'[offer'[u].to] # Free
                                /\ table'[offer'[u].index].user = table'[offer'[u].to].provider
        BY <1>1 DEF OfferInv
    <2>2. CASE u = t
        <3>1. offer'[u].index = i /\ offer'[u].to = to
            BY <1>1, <1>2, <2>2 DEF CallInv, TypeOK
        <3>2. to # 0 => table'[to] = table[to]
            BY <1>5
        <3>3. QED
            BY <1>2, <1>3, <1>4, <1>6, <2>2, <3>1, <3>2, Layout
    <2>3. CASE u # t
        <3>1. offer'[u] = offer[u]
            BY <1>1, <2>3 DEF CallInv, TypeOK
        <3>2. offer[u].index \in Index \union {0} /\ offer[u].to \in Index \union {0}
            BY DEF CallInv, TypeOK
        <3>3. QED
            BY <1>5, <3>1, <3>2 DEF CallInv, OfferInv
    <2>4. QED
        BY <2>2, <2>3
<1>12. StackInv'
    BY <1>1 DEF CallInv, StackInv
<1>13. QED
    BY <1>7, <1>8, <1>9, <1>10, <1>11, <1>12 DEF CallInv

(* What a map may name or pass is an interface of the table. *)
LEMMA UsableEntry ==
    ASSUME CallInv, NEW k \in Index, Usable(k)
    PROVE  /\ k # 0
           /\ table[k] # Free
           /\ table[k].provider \in Map
           /\ table[k].handler \in Routine \ {"thread_exit"}
<1>1. k # 0
    BY DEF Index
<1>2. table[k] # Free /\ table[k] \in Interface
    BY DEF CallInv, TypeOK, Usable
<1>3. QED
    BY <1>1, <1>2 DEF Interface

LEMMA InterfaceKeeps ==
    ASSUME CallInv, NEW h \in DriverHandler,
           InterfaceToReturn(h) \/ \E target \in Index : InterfaceToPass(target, h)
    PROVE  CallInv'
<1>1. Running
    BY DEF InterfaceToReturn, InterfaceToPass, NewInterface
<1>2. Here \in Map /\ Frame.map \in Map
    BY <1>1, InRoutine DEF CallInv
<1>3. h \in Routine \ {"thread_exit"}
    BY CallAssumption DEF Routine
<1>4. CASE InterfaceToReturn(h)
    BY <1>2, <1>3, <1>4, NewKeeps DEF InterfaceToReturn, Caller
<1>5. CASE \E target \in Index : InterfaceToPass(target, h)
    <2>1. PICK target \in Index : InterfaceToPass(target, h)
        BY <1>5
    <2>2. QED
        BY <1>2, <1>3, <2>1, UsableEntry, NewKeeps DEF InterfaceToPass
<1>6. QED
    BY <1>4, <1>5

LEMMA DuplicateKeeps ==
    ASSUME CallInv, NEW i \in Index,
           DuplicateToReturn(i) \/ \E target \in Index : DuplicateToPass(target, i)
    PROVE  CallInv'
<1>1. Running
    BY DEF DuplicateToReturn, DuplicateToPass, NewInterface
<1>2. Frame.map \in Map
    BY <1>1, InRoutine DEF CallInv
<1>3. CASE DuplicateToReturn(i)
    BY <1>2, <1>3, UsableEntry, NewKeeps DEF DuplicateToReturn, Caller
<1>4. CASE \E target \in Index : DuplicateToPass(target, i)
    <2>1. PICK target \in Index : DuplicateToPass(target, i)
        BY <1>4
    <2>2. QED
        BY <2>1, UsableEntry, NewKeeps DEF DuplicateToPass
<1>5. QED
    BY <1>3, <1>4

LEMMA CreateKeeps ==
    ASSUME CallInv, NEW t \in Thread, CreateThread(t)
    PROVE  CallInv'
<1>1. /\ Running /\ Here = System
      /\ current_map[t] = 0
      /\ current_map' = [current_map EXCEPT ![t] = Frame.map]
      /\ pc' = [pc EXCEPT ![t] = "entry"]
      /\ stack_pointer' = [stack_pointer EXCEPT ![t] = StackSize - 1]
      /\ stack' = [stack EXCEPT ![t] = NewStack]
      /\ runnable' = t
      /\ ChangeMap(System, Frame.map)
      /\ UNCHANGED <<table, next, kernel_free_interface, known, offer, bsod>>
    BY DEF CreateThread, poolVars
<1>2. Frame.map \in Map /\ "entry" \in Routine
    BY <1>1, InRoutine DEF CallInv, Routine
<1>3. NewStack \in [0 .. StackSize - 1 -> [map : Map, pc : Routine]]
    BY Layout DEF NewStack, BottomFrame, Routine
<1>4. loaded_map' = Frame.map
    BY <1>1 DEF ChangeMap, CallInv, LoadedIsCurrent, Here
<1>5. offer[t].index = 0 /\ offer[t].to = 0
    BY <1>1 DEF CallInv, OfferInv
<1>6. TypeOK'
    <2>1. stack_pointer' \in [Thread -> 2 .. StackSize]
        BY <1>1, CallAssumption DEF CallInv, TypeOK
    <2>2. stack' \in [Thread -> [0 .. StackSize - 1 -> [map : Map, pc : Routine]]]
        BY <1>1, <1>3 DEF CallInv, TypeOK
    <2>3. QED
        BY <1>1, <1>2, <1>4, <2>1, <2>2 DEF CallInv, TypeOK
<1>7. LoadedIsCurrent'
    BY <1>1, <1>4 DEF CallInv, TypeOK, LoadedIsCurrent
<1>8. HandlesUsable' /\ PoolInv'
    BY <1>1 DEF CallInv, HandlesUsable, PoolInv
<1>9. OfferInv'
    <2>1. SUFFICES ASSUME NEW u \in Thread
                   PROVE  /\ offer[u].index = 0 => offer[u].to = 0
                          /\ offer[u].index # 0 => /\ current_map'[u] # 0
                                                   /\ table[offer[u].index] # Free
                          /\ offer[u].index # 0 /\ offer[u].to = 0 =>
                                table[offer[u].index].user = stack'[u][stack_pointer'[u]].map
                          /\ offer[u].to # 0 =>
                                /\ table[offer[u].to] # Free
                                /\ table[offer[u].index].user = table[offer[u].to].provider
        BY <1>1 DEF OfferInv
    <2>2. CASE u = t
        BY <1>5, <2>2
    <2>3. CASE u # t
        BY <1>1, <2>3 DEF CallInv, OfferInv, TypeOK
    <2>4. QED
        BY <2>2, <2>3
<1>10. StackInv'
    <2>1. SUFFICES ASSUME NEW u \in Thread
                   PROVE  /\ pc'[u] = "thread_exit" <=> stack_pointer'[u] = StackSize
                          /\ \A s \in stack_pointer'[u] .. StackSize - 1 :
                                stack'[u][s].pc = "thread_exit" <=> s = StackSize - 1
        BY DEF StackInv
    <2>2. CASE u # t
        BY <1>1, <2>2 DEF CallInv, StackInv, TypeOK
    <2>3. CASE u = t
        <3>1. pc'[u] = "entry" /\ stack_pointer'[u] = StackSize - 1
                 /\ stack'[u] = NewStack
            BY <1>1, <2>3 DEF CallInv, TypeOK
        <3>2. NewStack[StackSize - 1].pc = "thread_exit"
            BY CallAssumption DEF NewStack, BottomFrame
        <3>3. QED
            BY <3>1, <3>2, CallAssumption
    <2>4. QED
        BY <2>2, <2>3
<1>11. QED
    BY <1>6, <1>7, <1>8, <1>9, <1>10 DEF CallInv

-----------------------------------------------------------------------------
LEMMA StopKeeps ==
    ASSUME CallInv, BSOD \/ UNCHANGED vars
    PROVE  CallInv'
<1>1. /\ UNCHANGED <<table, next, kernel_free_interface, current_map, pc,
                     stack_pointer, stack, runnable, loaded_map, known, offer>>
      /\ bsod' \in {bsod, "stack", "pool", "interface", "exception"}
    BY DEF BSOD, vars, poolVars, threadVars
<1>2. TypeOK' /\ LoadedIsCurrent' /\ HandlesUsable' /\ PoolInv'
    BY <1>1 DEF CallInv, TypeOK, LoadedIsCurrent, HandlesUsable, PoolInv
<1>3. OfferInv' /\ StackInv'
    BY <1>1 DEF CallInv, OfferInv, StackInv
<1>4. QED
    BY <1>2, <1>3 DEF CallInv

(* The inductive invariant: the free part of the table, what threads are   *)
(* about to hand over, and the shape of the stacks.                        *)
THEOREM CallInvariant == Spec => []CallInv
<1>1. Init => CallInv
    BY InitCall
<1>2. CallInv /\ [Next]_vars => CallInv'
    <2> SUFFICES ASSUME CallInv, [Next]_vars PROVE CallInv'
        OBVIOUS
    <2>1. CASE \E t \in Thread : Switch(t) \/ CreateThread(t)
        BY <2>1, SwitchKeeps, CreateKeeps
    <2>2. CASE \E i \in Index : Call(i)
        BY <2>2, CallKeeps
    <2>3. CASE Return
        BY <2>3, ReturnKeeps
    <2>4. CASE \E i \in Index : \/ DuplicateToReturn(i)
                                \/ \E target \in Index : DuplicateToPass(target, i)
        BY <2>4, DuplicateKeeps
    <2>5. CASE \E h \in DriverHandler : \/ InterfaceToReturn(h)
                                        \/ \E target \in Index : InterfaceToPass(target, h)
        BY <2>5, InterfaceKeeps
    <2>6. CASE BSOD \/ Halted \/ UNCHANGED vars
        BY <2>6, StopKeeps DEF Halted
    <2>7. QED
        BY <2>1, <2>2, <2>3, <2>4, <2>5, <2>6 DEF Next
<1>3. QED
    BY <1>1, <1>2, PTL DEF Spec

(* Type correctness for any size of the table and of the stacks: no call   *)
(* chain leaves its stack and no interface is made outside the table.      *)
THEOREM CallsTypeOK == Spec => []TypeOK
<1>1. CallInv => TypeOK
    BY DEF CallInv
<1>2. QED
    BY <1>1, CallInvariant, PTL

(* A map can call whatever it was handed, and was handed nothing that      *)
(* belongs to another map, however interfaces are passed on.               *)
THEOREM CallsHandlesUsable == Spec => []HandlesUsable
<1>1. CallInv => HandlesUsable
    BY DEF CallInv
<1>2. QED
    BY <1>1, CallInvariant, PTL

(* CALL, RETURN, thread creation and thread switches load the map of the   *)
(* code that runs next.                                                    *)
THEOREM CallsLoadedIsCurrent == Spec => []LoadedIsCurrent
<1>1. CallInv => LoadedIsCurrent
    BY DEF CallInv
<1>2. QED
    BY <1>1, CallInvariant, PTL

-----------------------------------------------------------------------------
(* The refinement.  A thread's activations are its stack from the bottom   *)
(* up to the stack pointer, and the routine that it is in.                 *)

Act == [map : Map, at : Routine]

(* The length of the activations, and their elements. *)
LEMMA ActivationFacts ==
    ASSUME CallInv, NEW t \in Thread, current_map[t] # 0
    PROVE  /\ Activations(t) \in Seq(Act)
           /\ Len(Activations(t)) = StackSize - stack_pointer[t] + 1
           /\ \A k \in 1 .. StackSize - stack_pointer[t] + 1 :
                 Activations(t)[k] = Activation(t, k) /\ Activation(t, k) \in Act
<1> DEFINE n == StackSize - stack_pointer[t] + 1
<1>1. n \in Nat /\ stack_pointer[t] \in Nat /\ StackSize \in Nat
    BY CallAssumption DEF CallInv, TypeOK
<1>2. ASSUME NEW k \in 1 .. n PROVE Activation(t, k) \in Act
    <2>1. CASE k <= StackSize - stack_pointer[t]
        <3>1. StackSize - k \in 0 .. StackSize - 1
            BY <1>1, <2>1
        <3>2. stack[t] \in [0 .. StackSize - 1 -> [map : Map, pc : Routine]]
            BY DEF CallInv, TypeOK
        <3>3. stack[t][StackSize - k] \in [map : Map, pc : Routine]
            BY <3>1, <3>2
        <3>4. QED
            BY <2>1, <3>3 DEF Activation, Act
    <2>2. CASE ~(k <= StackSize - stack_pointer[t])
        BY <2>2 DEF Activation, Act, CallInv, TypeOK
    <2>3. QED
        BY <2>1, <2>2
<1>3. Activations(t) = [k \in 1 .. n |-> Activation(t, k)]
    BY DEF Activations
<1>4. Activations(t) \in [1 .. n -> Act]
    BY <1>2, <1>3
<1>5. Activations(t) \in Seq(Act)
    BY <1>1, <1>4, SeqDef
<1>6. Len(Activations(t)) = n
    <2>1. DOMAIN Activations(t) = 1 .. n
        BY <1>3
    <2>2. DOMAIN Activations(t) = 1 .. Len(Activations(t)) /\ Len(Activations(t)) \in Nat
        BY <1>5, LenProperties
    <2>3. QED
        BY <1>1, <2>1, <2>2
<1>7. QED
    BY <1>2, <1>3, <1>5, <1>6

(* The same of the state after a step. *)
ActivationsOK ==
    \A t \in Thread : current_map[t] # 0 =>
        /\ Activations(t) \in Seq(Act)
        /\ Len(Activations(t)) = StackSize - stack_pointer[t] + 1
        /\ \A k \in 1 .. StackSize - stack_pointer[t] + 1 :
              Activations(t)[k] = Activation(t, k) /\ Activation(t, k) \in Act

LEMMA ActivationsAfter == CallInv' => ActivationsOK'
<1>1. CallInv => ActivationsOK
    BY ActivationFacts DEF ActivationsOK
<1>2. QED
    BY <1>1, PTL

(* A step that leaves a thread where it is. *)
LEMMA ActivationsFrame ==
    ASSUME CallInv, NEW t \in Thread,
           UNCHANGED <<current_map[t], pc[t], stack_pointer[t], stack[t]>>
    PROVE  Activations(t)' = Activations(t)
<1>1. \A k : Activation(t, k)' = Activation(t, k)
    BY DEF Activation
<1>2. QED
    BY <1>1 DEF Activations

(* The thread that runs, in the terms of module Capabilities. *)
LEMMA RunnerFacts ==
    ASSUME CallInv, Running
    PROVE  /\ runnable \in Thread
           /\ Caps!Inside(runnable)
           /\ Caps!Top(runnable).map = Here
           /\ Caps!CallerMap(runnable) = Frame.map
<1> DEFINE t == runnable
           sp == stack_pointer[t]
           n == StackSize - sp + 1
<1>1. /\ t \in Thread /\ current_map[t] # 0 /\ Here = current_map[t]
      /\ sp \in 2 .. StackSize - 1 /\ Frame = stack[t][sp]
    BY InRoutine DEF CallInv, Running, Able, Here
<1>2. /\ Len(Activations(t)) = n
      /\ \A k \in 1 .. n : Activations(t)[k] = Activation(t, k)
    BY <1>1, ActivationFacts
<1>3. n \in Nat /\ n > 1 /\ n \in 1 .. n /\ n - 1 \in 1 .. n
      /\ ~(n <= StackSize - sp) /\ n - 1 <= StackSize - sp /\ StackSize - (n - 1) = sp
    BY <1>1, CallAssumption
<1>4. Activation(t, n) = [map |-> current_map[t], at |-> pc[t]]
    BY <1>3 DEF Activation
<1>5. Activation(t, n - 1) = [map |-> Frame.map, at |-> Frame.pc]
    BY <1>1, <1>3 DEF Activation
<1>6. [u \in Thread |-> Activations(u)][t] = Activations(t)
    BY <1>1
<1> HIDE DEF n
<1>7. Caps!Inside(t)
    BY <1>2, <1>3, <1>6 DEF Caps!Inside
<1>8. Caps!Top(t).map = Here
    BY <1>1, <1>2, <1>3, <1>4, <1>6 DEF Caps!Top
<1>9. Caps!CallerMap(t) = Frame.map
    BY <1>1, <1>2, <1>3, <1>5, <1>6 DEF Caps!CallerMap
<1>10. QED
    BY <1>1, <1>7, <1>8, <1>9

(* ISAMBARD_CALL is a call of something granted to the map it comes from. *)
LEMMA CallRefines ==
    ASSUME CallInv, CallInv', NEW i \in Index, Call(i)
    PROVE  Caps!CallGranted(runnable)
<1>0. PICK t \in Thread : t = runnable
    BY DEF CallInv, TypeOK
<1>a. PICK e : e = table[i]
    OBVIOUS
<1>b. PICK sp : sp = stack_pointer[t] - 1
    OBVIOUS
<1> DEFINE new == [map |-> e.provider, at |-> e.handler]
           n == StackSize - sp
<1>1. /\ Running /\ Usable(i)
      /\ stack_pointer' = [stack_pointer EXCEPT ![t] = sp]
      /\ stack' = [stack EXCEPT ![t] = [@ EXCEPT ![sp] = [map |-> Here, pc |-> pc[t]]]]
      /\ current_map' = [current_map EXCEPT ![t] = e.provider]
      /\ pc' = [pc EXCEPT ![t] = e.handler]
      /\ UNCHANGED <<table, runnable>>
    BY <1>0, <1>a, <1>b DEF Call, Saved, poolVars
<1>2. /\ current_map[t] # 0 /\ Here = current_map[t]
      /\ stack_pointer[t] \in 2 .. StackSize - 1
    BY <1>0, <1>1, InRoutine DEF CallInv, Running, Able, Here
<1>3. sp \in 1 .. StackSize - 1 /\ sp \in Nat /\ StackSize \in Nat
    BY <1>2, <1>b, CallAssumption
<1>4. /\ current_map'[t] = e.provider /\ pc'[t] = e.handler /\ stack_pointer'[t] = sp
      /\ stack'[t][sp] = [map |-> Here, pc |-> pc[t]]
      /\ \A s \in 0 .. StackSize - 1 : s # sp => stack'[t][s] = stack[t][s]
    BY <1>1, <1>3 DEF CallInv, TypeOK
<1>5. \A u \in Thread : u # t => Activations(u)' = Activations(u)
    BY <1>1, ActivationsFrame DEF CallInv, TypeOK
<1>6. e \in Granted /\ e.user = Here /\ e.provider # 0 /\ new \in Act
    BY <1>1, <1>a, Layout DEF Usable, Granted, CallInv, TypeOK, Interface, Act
<1>7. /\ Activations(t) \in Seq(Act) /\ Len(Activations(t)) = n
      /\ \A k \in 1 .. n : Activations(t)[k] = Activation(t, k)
      /\ n = StackSize - stack_pointer[t] + 1 /\ n \in Nat
    BY <1>2, <1>3, <1>b, ActivationFacts
<1>8. /\ Activations(t)' \in Seq(Act) /\ Len(Activations(t)') = n + 1
      /\ \A k \in 1 .. n + 1 : Activations(t)'[k] = Activation(t, k)'
    <2>1. current_map'[t] # 0
        BY <1>4, <1>6
    <2>2. /\ Activations(t)' \in Seq(Act)
          /\ Len(Activations(t)') = StackSize - stack_pointer'[t] + 1
          /\ \A k \in 1 .. StackSize - stack_pointer'[t] + 1 :
                Activations(t)'[k] = Activation(t, k)'
        BY <2>1, ActivationsAfter DEF ActivationsOK
    <2>3. QED
        BY <1>4, <2>2
<1>9. ASSUME NEW k \in 1 .. n PROVE Activation(t, k)' = Activation(t, k)
    <2>1. k <= StackSize - stack_pointer'[t] /\ k \in Nat
        BY <1>3, <1>4
    <2>2. CASE k = n
        <3>1. StackSize - k = sp /\ ~(k <= StackSize - stack_pointer[t])
            BY <1>2, <1>3, <1>b, <2>2
        <3>2. QED
            BY <1>2, <1>4, <2>1, <3>1 DEF Activation
    <2>3. CASE k # n
        <3>1. /\ k <= StackSize - stack_pointer[t] /\ StackSize - k # sp
              /\ StackSize - k \in 0 .. StackSize - 1
            BY <1>2, <1>3, <1>b, <2>1, <2>3
        <3>2. QED
            BY <1>4, <2>1, <3>1 DEF Activation
    <2>4. QED
        BY <2>2, <2>3
<1>10. Activation(t, n + 1)' = new
    <2>1. ~(n + 1 <= StackSize - stack_pointer'[t])
        BY <1>3, <1>4
    <2>2. QED
        BY <1>4, <2>1 DEF Activation
<1>11. Activations(t)' = Append(Activations(t), new)
    <2> HIDE DEF n, new
    <2> DEFINE b == Append(Activations(t), new)
    <2>1. /\ b \in Seq(Act) /\ Len(b) = n + 1
          /\ \A k \in 1 .. n : b[k] = Activations(t)[k]
          /\ b[n + 1] = new
        BY <1>6, <1>7, AppendProperties
    <2>2. ASSUME NEW k \in 1 .. n + 1 PROVE Activations(t)'[k] = b[k]
        <3>1. k \in 1 .. n \/ k = n + 1
            BY <1>7
        <3>2. QED
            BY <1>7, <1>8, <1>9, <1>10, <2>1, <3>1
    <2> HIDE DEF b
    <2>3. Activations(t)' = b
        BY <1>8, <2>1, <2>2, SeqEqual
    <2>4. QED
        BY <2>3 DEF b
<1>12. Caps!Inside(t) /\ Caps!Top(t).map = Here
    BY <1>0, <1>1, RunnerFacts
<1>13. e \in Caps!GrantedTo(Caps!Top(t).map)
    BY <1>6, <1>12 DEF Caps!GrantedTo
<1> HIDE DEF new
<1>14. [u \in Thread |-> Activations(u)]' =
          [[u \in Thread |-> Activations(u)] EXCEPT ![t] = Append(@, new)]
    BY <1>5, <1>11
<1>15. Granted' = Granted
    BY <1>1 DEF Granted
<1>16. QED
    BY <1>0, <1>12, <1>13, <1>14, <1>15 DEF Caps!CallGranted, new

(* ISAMBARD_RETURN goes back to the caller. *)
LEMMA ReturnRefines ==
    ASSUME CallInv, CallInv', Return
    PROVE  Caps!ReturnToCaller(runnable)
<1>0. PICK t \in Thread : t = runnable
    BY DEF CallInv, TypeOK
<1>a. PICK sp : sp = stack_pointer[t]
    OBVIOUS
<1> DEFINE n == StackSize - sp
<1>1. /\ Running
      /\ current_map' = [current_map EXCEPT ![t] = Frame.map]
      /\ pc' = [pc EXCEPT ![t] = Frame.pc]
      /\ stack_pointer' = [stack_pointer EXCEPT ![t] = sp + 1]
      /\ UNCHANGED <<table, stack, runnable>>
    BY <1>0, <1>a DEF Return, poolVars
<1>2. /\ current_map[t] # 0 /\ sp \in 2 .. StackSize - 1 /\ Frame.map \in Map
      /\ Frame = stack[t][sp]
    BY <1>0, <1>1, <1>a, InRoutine DEF CallInv, Running, Able, Here
<1>3. /\ current_map'[t] = Frame.map /\ pc'[t] = Frame.pc /\ stack_pointer'[t] = sp + 1
      /\ sp \in Nat /\ StackSize \in Nat /\ n \in Nat /\ n >= 1
    BY <1>1, <1>2, CallAssumption DEF CallInv, TypeOK
<1>4. \A u \in Thread : u # t => Activations(u)' = Activations(u)
    BY <1>1, ActivationsFrame DEF CallInv, TypeOK
<1>5. /\ Activations(t) \in Seq(Act) /\ Len(Activations(t)) = n + 1
      /\ \A k \in 1 .. n + 1 : Activations(t)[k] = Activation(t, k) /\ Activation(t, k) \in Act
    BY <1>2, <1>a, ActivationFacts
<1>6. /\ Activations(t)' \in Seq(Act) /\ Len(Activations(t)') = n
      /\ \A k \in 1 .. n : Activations(t)'[k] = Activation(t, k)'
    <2>1. current_map'[t] # 0
        BY <1>2, <1>3, Layout
    <2>2. /\ Activations(t)' \in Seq(Act)
          /\ Len(Activations(t)') = StackSize - stack_pointer'[t] + 1
          /\ \A k \in 1 .. StackSize - stack_pointer'[t] + 1 :
                Activations(t)'[k] = Activation(t, k)'
        BY <2>1, ActivationsAfter DEF ActivationsOK
    <2>3. StackSize - stack_pointer'[t] + 1 = n
        BY <1>3
    <2>4. QED
        BY <2>2, <2>3
<1>7. ASSUME NEW k \in 1 .. n PROVE Activation(t, k)' = Activation(t, k)
    <2>1. k <= StackSize - sp /\ k \in Nat
        BY <1>3
    <2>2. CASE k = n
        <3>1. StackSize - k = sp /\ ~(k <= StackSize - stack_pointer'[t])
            BY <1>3, <2>2
        <3>2. QED
            BY <1>2, <1>3, <1>a, <2>1, <3>1 DEF Activation
    <2>3. CASE k # n
        <3>1. k <= StackSize - stack_pointer'[t]
            BY <1>3, <2>1, <2>3
        <3>2. QED
            BY <1>1, <1>a, <2>1, <3>1 DEF Activation
    <2>4. QED
        BY <2>2, <2>3
<1>8. Activations(t)' = SubSeq(Activations(t), 1, Len(Activations(t)) - 1)
    <2> HIDE DEF n
    <2> DEFINE b == SubSeq(Activations(t), 1, n)
    <2>1. /\ b \in Seq(Act) /\ Len(b) = n
          /\ \A k \in 1 .. n : b[k] = Activations(t)[k]
        <3>1. 1 \in Int /\ n \in Int /\ \A k \in 1 .. n : Activations(t)[k] \in Act
            BY <1>3, <1>5
        <3>2. /\ b \in Seq(Act) /\ Len(b) = IF 1 <= n THEN n - 1 + 1 ELSE 0
              /\ \A k \in 1 .. n - 1 + 1 : b[k] = Activations(t)[1 + k - 1]
            BY <3>1, SubSeqProperties
        <3>3. QED
            BY <1>3, <3>2
    <2>2. ASSUME NEW k \in 1 .. n PROVE Activations(t)'[k] = b[k]
        <3>1. k \in 1 .. n + 1
            BY <1>3
        <3>2. QED
            BY <1>5, <1>6, <1>7, <2>1, <3>1
    <2> HIDE DEF b
    <2>3. Activations(t)' = b
        BY <1>6, <2>1, <2>2, SeqEqual
    <2>4. Len(Activations(t)) - 1 = n
        BY <1>3, <1>5
    <2>5. QED
        BY <2>3, <2>4 DEF b
<1>9. Caps!Inside(t)
    BY <1>0, <1>1, RunnerFacts
<1>10. [u \in Thread |-> Activations(u)]' =
          [[u \in Thread |-> Activations(u)] EXCEPT ![t] = SubSeq(@, 1, Len(@) - 1)]
    BY <1>4, <1>8
<1>11. Granted' = Granted
    BY <1>1 DEF Granted
<1>12. QED
    BY <1>0, <1>9, <1>10, <1>11 DEF Caps!ReturnToCaller

(* A new interface is a grant, if it is of the right kind. *)
LEMMA NewRefines ==
    ASSUME CallInv, NEW user \in Map, NEW provider, NEW handler, NEW to,
           NewInterface(user, provider, handler, to),
           \/ provider = Here /\ handler \in Routine
           \/ \E own \in Caps!GrantedTo(Here) :
                 provider = own.provider /\ handler = own.handler,
           \/ user = Frame.map
           \/ \E target \in Caps!GrantedTo(Here) : user = target.provider
    PROVE  Caps!Grant(runnable)
<1> DEFINE i == kernel_free_interface
           new == [user |-> user, provider |-> provider, handler |-> handler]
<1>1. /\ Running /\ table' = [table EXCEPT ![i] = new]
      /\ UNCHANGED <<current_map, pc, stack_pointer, stack>>
    BY DEF NewInterface, threadVars
<1>2. i \in Index /\ table[i] = Free
    BY Layout, CallAssumption DEF CallInv, PoolInv, TypeOK
<1>3. \A u \in Thread : Activations(u)' = Activations(u)
    BY <1>1, ActivationsFrame
<1>4. Granted' \subseteq Granted \union {new} /\ Granted \subseteq Granted'
    <2>1. \A j \in Index : j # i => table'[j] = table[j]
        BY <1>1 DEF CallInv, TypeOK
    <2>2. table'[i] = new
        BY <1>1, <1>2 DEF CallInv, TypeOK
    <2>3. QED
        BY <1>2, <2>1, <2>2 DEF Granted
<1>5. /\ runnable \in Thread /\ Caps!Inside(runnable)
      /\ Caps!Top(runnable).map = Here /\ Caps!CallerMap(runnable) = Frame.map
    BY <1>1, RunnerFacts
<1>6. Caps!MayGive(runnable, new) /\ Caps!MayGiveTo(runnable, new.user)
    BY <1>5 DEF Caps!MayGive, Caps!MayGiveTo
<1>7. [u \in Thread |-> Activations(u)]' = [u \in Thread |-> Activations(u)]
    BY <1>3
<1> HIDE DEF new
<1>8. \A g \in Granted' \ Granted : Caps!MayGive(runnable, g) /\ Caps!MayGiveTo(runnable, g.user)
    BY <1>4, <1>6
<1>9. QED
    BY <1>4, <1>5, <1>7, <1>8 DEF Caps!Grant

(* What a thread can use in its map was granted to that map. *)
LEMMA UsableGranted ==
    ASSUME CallInv, NEW k \in Index, Usable(k)
    PROVE  table[k] \in Caps!GrantedTo(Here)
BY DEF Usable, Caps!GrantedTo, Granted

LEMMA InterfaceRefines ==
    ASSUME CallInv, NEW h \in DriverHandler,
           InterfaceToReturn(h) \/ \E target \in Index : InterfaceToPass(target, h)
    PROVE  Caps!Grant(runnable)
<1>1. Running
    BY DEF InterfaceToReturn, InterfaceToPass, NewInterface
<1>2. Here \in Map /\ Frame.map \in Map /\ h \in Routine
    BY <1>1, InRoutine DEF CallInv, Routine
<1>3. CASE InterfaceToReturn(h)
    BY <1>2, <1>3, NewRefines DEF InterfaceToReturn, Caller
<1>4. CASE \E target \in Index : InterfaceToPass(target, h)
    <2>1. PICK target \in Index : InterfaceToPass(target, h)
        BY <1>4
    <2>2. /\ Usable(target) /\ NewInterface(table[target].provider, Here, h, target)
        BY <2>1 DEF InterfaceToPass
    <2>3. table[target] \in Caps!GrantedTo(Here) /\ table[target].provider \in Map
        BY <2>2, UsableGranted, UsableEntry
    <2>4. QED
        BY <1>2, <2>2, <2>3, NewRefines
<1>5. QED
    BY <1>3, <1>4

LEMMA DuplicateRefines ==
    ASSUME CallInv, NEW i \in Index,
           DuplicateToReturn(i) \/ \E target \in Index : DuplicateToPass(target, i)
    PROVE  Caps!Grant(runnable)
<1>1. Running /\ Usable(i)
    BY DEF DuplicateToReturn, DuplicateToPass, NewInterface
<1>2. Frame.map \in Map /\ table[i] \in Caps!GrantedTo(Here)
    BY <1>1, InRoutine, UsableGranted DEF CallInv
<1>3. CASE DuplicateToReturn(i)
    <2>1. NewInterface(Frame.map, table[i].provider, table[i].handler, 0)
        BY <1>3 DEF DuplicateToReturn, Caller
    <2>2. QED
        BY <1>2, <2>1, NewRefines
<1>4. CASE \E target \in Index : DuplicateToPass(target, i)
    <2>1. PICK target \in Index : DuplicateToPass(target, i)
        BY <1>4
    <2>2. /\ Usable(target)
          /\ NewInterface(table[target].provider, table[i].provider, table[i].handler, target)
        BY <2>1 DEF DuplicateToPass
    <2>3. table[target] \in Caps!GrantedTo(Here) /\ table[target].provider \in Map
        BY <2>2, UsableGranted, UsableEntry
    <2>4. QED
        BY <1>2, <2>2, <2>3, NewRefines
<1>5. QED
    BY <1>3, <1>4

(* The activations of a thread that has just been created. *)
LEMMA TwoActivations ==
    ASSUME NEW f, NEW a, NEW b, f = [k \in 1 .. 2 |-> IF k <= 1 THEN a ELSE b]
    PROVE  f = <<a, b>>
OBVIOUS

LEMMA CreateRefines ==
    ASSUME CallInv, CallInv', NEW u \in Thread, CreateThread(u)
    PROVE  Caps!Create(runnable, u)
<1>1. /\ Running /\ Here = System /\ current_map[u] = 0
      /\ current_map' = [current_map EXCEPT ![u] = Frame.map]
      /\ pc' = [pc EXCEPT ![u] = "entry"]
      /\ stack_pointer' = [stack_pointer EXCEPT ![u] = StackSize - 1]
      /\ stack' = [stack EXCEPT ![u] = NewStack]
      /\ UNCHANGED table
    BY DEF CreateThread, poolVars
<1>2. Frame.map \in Map
    BY <1>1, InRoutine DEF CallInv
<1>3. /\ current_map'[u] = Frame.map /\ pc'[u] = "entry"
      /\ stack_pointer'[u] = StackSize - 1 /\ stack'[u] = NewStack
    BY <1>1 DEF CallInv, TypeOK
<1>4. NewStack[StackSize - 1] = [map |-> System, pc |-> "thread_exit"]
    BY CallAssumption DEF NewStack, BottomFrame
<1> DEFINE a == [map |-> System, at |-> "thread_exit"]
           b == [map |-> Frame.map, at |-> "entry"]
<1>5. \A k \in 1 .. 2 : Activation(u, k)' = IF k <= 1 THEN a ELSE b
    <2>1. StackSize - (StackSize - 1) = 1
        BY CallAssumption
    <2>2. Activation(u, 1)' = a
        BY <1>3, <1>4, <2>1 DEF Activation
    <2>3. Activation(u, 2)' = b
        BY <1>3, <2>1 DEF Activation
    <2>4. QED
        BY <2>2, <2>3
<1>6. Activations(u)' = <<a, b>>
    <2>1. Activations(u)' = [k \in 1 .. 2 |-> Activation(u, k)']
        <3>1. StackSize - (StackSize - 1) + 1 = 2 /\ current_map'[u] # 0
            BY <1>2, <1>3, Layout, CallAssumption
        <3>2. QED
            BY <1>3, <3>1 DEF Activations
    <2> HIDE DEF a, b
    <2>2. Activations(u)' = [k \in 1 .. 2 |-> IF k <= 1 THEN a ELSE b]
        BY <1>5, <2>1
    <2>3. QED
        BY <2>2, TwoActivations
<1>7. \A t \in Thread : t # u => Activations(t)' = Activations(t)
    BY <1>1, ActivationsFrame DEF CallInv, TypeOK
<1>8. /\ runnable \in Thread /\ Caps!Inside(runnable)
      /\ Caps!Top(runnable).map = System /\ Caps!CallerMap(runnable) = Frame.map
    BY <1>1, RunnerFacts
<1>9. Activations(u) = << >>
    BY <1>1 DEF Activations
<1> HIDE DEF a, b
<1>10. [t \in Thread |-> Activations(t)]' =
          [[t \in Thread |-> Activations(t)] EXCEPT ![u] = <<a, b>>]
    BY <1>6, <1>7
<1>11. Granted' = Granted
    BY <1>1 DEF Granted
<1>12. QED
    BY <1>8, <1>9, <1>10, <1>11 DEF Caps!Create, Caps!Exit, a, b

(* The threads and interfaces made at boot are those of CapInit. *)
LEMMA InitRefines == Init => Caps!CapInit
<1> SUFFICES ASSUME Init PROVE Caps!CapInit
    OBVIOUS
<1>1. CallInv
    BY InitCall
<1>2. Granted = {BootInterface(i) : i \in 1 .. FirstNew - 1}
    <2>1. \A i \in Index : table[i] # Free <=> i < FirstNew
        BY <1>1, Layout DEF Init, CallInv, PoolInv, Index
    <2>2. \A i \in 1 .. FirstNew - 1 : i \in Index /\ i < FirstNew
        BY Layout, CallAssumption DEF Index
    <2>3. \A i \in Index : i < FirstNew => table[i] = BootInterface(i) /\ i \in 1 .. FirstNew - 1
        BY Layout DEF Init, InitTable, Index
    <2>4. QED
        BY <2>1, <2>2, <2>3 DEF Granted
<1>3. ASSUME NEW t \in Thread PROVE Activations(t) = BootStack[t]
    <2> DEFINE a == [map |-> System, at |-> "thread_exit"]
               b == [map |-> BootMap[t], at |-> "entry"]
    <2>1. /\ current_map[t] = BootMap[t] /\ pc[t] = "entry"
          /\ stack_pointer[t] = StackSize - 1 /\ stack[t] = NewStack
        BY DEF Init
    <2>2. CASE BootMap[t] = 0
        BY <2>1, <2>2 DEF Activations, BootStack
    <2>3. CASE BootMap[t] # 0
        <3>1. NewStack[StackSize - 1] = [map |-> System, pc |-> "thread_exit"]
            BY CallAssumption DEF NewStack, BottomFrame
        <3>2. StackSize - (StackSize - 1) = 1 /\ StackSize - (StackSize - 1) + 1 = 2
            BY CallAssumption
        <3>3. Activation(t, 1) = a
            BY <2>1, <3>1, <3>2 DEF Activation
        <3>4. Activation(t, 2) = b
            BY <2>1, <3>2 DEF Activation
        <3>5. Activations(t) = [k \in 1 .. 2 |-> Activation(t, k)]
            BY <2>1, <2>3, <3>2 DEF Activations
        <3>6. BootStack[t] = <<a, b>>
            BY <2>3 DEF BootStack
        <3> HIDE DEF a, b
        <3>7. \A k \in 1 .. 2 : Activation(t, k) = IF k <= 1 THEN a ELSE b
            BY <3>3, <3>4
        <3>8. Activations(t) = [k \in 1 .. 2 |-> IF k <= 1 THEN a ELSE b]
            BY <3>5, <3>7
        <3>9. QED
            BY <3>6, <3>8, TwoActivations
    <2>4. QED
        BY <2>2, <2>3
<1>4. [t \in Thread |-> Activations(t)] = BootStack
    BY <1>3 DEF BootStack
<1>5. QED
    BY <1>2, <1>4 DEF Caps!CapInit

(* The interface table, the stacks and the loaded maps implement calls of  *)
(* granted interfaces: a return ends where the call came from, and a map   *)
(* reaches only what its provider made and a thread inside handed on.      *)
THEOREM CallsImplement == Spec => CallsImplemented
<1>1. Init => Caps!CapInit
    BY InitRefines
<1>2. CallInv /\ CallInv' /\ [Next]_vars => [Caps!CapNext]_(Caps!capVars)
    <2> SUFFICES ASSUME CallInv, CallInv', [Next]_vars
                 PROVE  Caps!CapNext \/ UNCHANGED Caps!capVars
        OBVIOUS
    <2> USE DEF Caps!CapNext
    <2>0. runnable \in Thread
        BY DEF CallInv, TypeOK
    <2>1. CASE UNCHANGED <<table, current_map, pc, stack_pointer, stack>>
        <3>1. \A t \in Thread : Activations(t)' = Activations(t)
            BY <2>1, ActivationsFrame
        <3>2. Granted' = Granted
            BY <2>1 DEF Granted
        <3>3. QED
            BY <3>1, <3>2 DEF Caps!capVars
    <2>2. CASE \E t \in Thread : CreateThread(t)
        BY <2>0, <2>2, CreateRefines
    <2>3. CASE \E i \in Index : Call(i)
        BY <2>0, <2>3, CallRefines
    <2>4. CASE Return
        BY <2>0, <2>4, ReturnRefines
    <2>5. CASE \E i \in Index : \/ DuplicateToReturn(i)
                                \/ \E target \in Index : DuplicateToPass(target, i)
        BY <2>0, <2>5, DuplicateRefines
    <2>6. CASE \E h \in DriverHandler : \/ InterfaceToReturn(h)
                                        \/ \E target \in Index : InterfaceToPass(target, h)
        BY <2>0, <2>6, InterfaceRefines
    <2>7. ASSUME BSOD \/ Halted \/ UNCHANGED vars \/ \E t \in Thread : Switch(t)
          PROVE  UNCHANGED <<table, current_map, pc, stack_pointer, stack>>
        BY <2>7 DEF BSOD, Halted, Switch, vars, poolVars, threadVars
    <2>8. QED
        BY <2>1, <2>2, <2>3, <2>4, <2>5, <2>6, <2>7 DEF Next
<1>3. QED
    BY <1>1, <1>2, CallInvariant, PTL DEF Spec, CallsImplemented, Caps!CapSpec
=============================================================================
