--------------------------- MODULE FujiNet_proofs ----------------------------
(***************************************************************************)
(* The FujiNet cartridge, for any number of pushes, frames and             *)
(* transactions: what the console reads from it (core/coleco/              *)
(* fujinet_cart.c), whose reply a transaction gets and what the trace tap  *)
(* reports (fujitcp_win32.c), and what the debugger's window shows of the  *)
(* trace (core/debugger/fujitrace.c).  And the runtime it is a part of,    *)
(* for any number of threads (fujinet_desktop_entry.cpp).                  *)
(***************************************************************************)
EXTENDS FujiCart, FujiLink, FujiTap, RuntimeEntry, FiniteSetTheorems, SequenceTheorems, TLAPS

-----------------------------------------------------------------------------
(* What the console reads.                                                 *)

\* A plan and where it is served from agree, and an image of its own is there
\* exactly for the kinds that need one.
ServingInv ==
  /\ base = IF ServesWindow(serve) THEN "window" ELSE "image"
  /\ image = None <=> ServesWindow(serve)
  /\ mailbox_live <=> serve.mailbox_ok
  /\ window.push = rom
  /\ image # None => image.push = rom

\* The same of what is staged, for as long as it is.
StagingInv ==
  /\ swap_armed => have_staged
  /\ staged_claims <=> staged_plan.mailbox_ok
  /\ have_staged => (staged_image = None <=> ServesWindow(staged_plan))
  /\ have_staged /\ staged_image # None => staged_image.push = staged.push

\* The pages: the published one in every copy that the mailbox reaches, the
\* image's own where there is no mailbox.
PageInv ==
  /\ window.page = IF mailbox_live THEN pub ELSE Own
  /\ image # None => image.page = window.page
  /\ have_staged /\ ~staged_claims =>
       staged.page = Own /\ (staged_image # None => staged_image.page = Own)
  /\ have_staged /\ staged_claims /\ pubStaged =>
       staged.page = pub /\ (staged_image # None => staged_image.page = pub)

IInv ==
  /\ TypeOK
  /\ ServingInv
  /\ StagingInv
  /\ PageInv
  /\ HintIsForTheNextRom

\* The parts of TypeOK that a solver and a prover without numbers each prove.
Flags ==
  /\ staged_claims \in BOOLEAN /\ have_staged \in BOOLEAN
  /\ swap_armed \in BOOLEAN /\ mailbox_live \in BOOLEAN
  /\ pubStaged \in BOOLEAN /\ hinted \in BOOLEAN

Stores ==
  /\ window \in Buffer /\ staged \in Buffer
  /\ image \in Buffer \cup {None} /\ staged_image \in Buffer \cup {None}
  /\ serve \in Plan /\ base \in {"window", "image"}
  /\ staged_plan \in Plan
  /\ rx \in {"closed", "open", "refused"}
  /\ pending_hint \in {"auto", "named"}
  /\ pub \in Page /\ pushes \in 0..MaxPush /\ rom \in 0..MaxPush

LEMMA TypeParts == TypeOK <=> Flags /\ Stores
BY DEF TypeOK, Flags, Stores

USE DEF buffers, serving, staging, stream, history

-----------------------------------------------------------------------------
(* The buffers.                                                            *)

LEMMA BufferFacts ==
  /\ None \notin Buffer
  /\ \A n \in 0..MaxPush :
       Fresh(n) \in Buffer /\ Fresh(n).push = n /\ Fresh(n).page = Own
  /\ \A b \in Buffer, v \in Page :
       Poked(b, v) \in Buffer /\ Poked(b, v).push = b.push /\ Poked(b, v).page = v
  /\ Status \subseteq Page /\ Cleared \in Page
BY CartAssumption DEF Buffer, Fresh, Poked, Page

LEMMA PlanFacts ==
  /\ PlainPlan \in Plan
  /\ \A plan \in Plan :
       /\ plan.mailbox_ok \in BOOLEAN
       /\ plan.kind \in {"flat", "appbank", "banked"}
       /\ plan.mailbox_ok => plan.kind # "banked"
       /\ plan.kind = "appbank" => plan.mailbox_ok
BY DEF Plan, PlainPlan

LEMMA InitIInv == Init => IInv
<1> SUFFICES ASSUME Init PROVE IInv
  OBVIOUS
<1>1. PICK plan \in Plan :
        LET page == IF plan.mailbox_ok THEN Cleared ELSE Own
        IN  /\ window = [push |-> 0, page |-> page]
            /\ image = IF ServesWindow(plan) THEN None ELSE [push |-> 0, page |-> page]
            /\ serve = plan
            /\ base = IF ServesWindow(plan) THEN "window" ELSE "image"
            /\ mailbox_live = plan.mailbox_ok
            /\ pub = page
  BY DEF Init
<1>2. PICK page \in Page : page = (IF plan.mailbox_ok THEN Cleared ELSE Own)
  BY CartAssumption DEF Page
<1>3. [push |-> 0, page |-> page] \in Buffer
  BY CartAssumption DEF Buffer
<1>4. Flags
  BY <1>1, PlanFacts, Zenon DEF Init, Flags
<1>5. Stores
  BY <1>1, <1>2, <1>3, BufferFacts, PlanFacts, CartAssumption DEF Init, Stores
<1>6. ServingInv
  BY <1>1, <1>2, <1>3, BufferFacts DEF Init, ServingInv
<1>7. StagingInv
  BY DEF Init, StagingInv, PlainPlan
<1>8. PageInv
  BY <1>1, <1>2 DEF Init, PageInv
<1>9. HintIsForTheNextRom
  BY DEF Init, HintIsForTheNextRom
<1> QED  BY <1>4, <1>5, <1>6, <1>7, <1>8, <1>9, TypeParts DEF IInv

-----------------------------------------------------------------------------
(* One step each.                                                          *)

LEMMA PublishStep == ASSUME NEW v \in Status PROVE IInv /\ Publish(v) => IInv'
<1> SUFFICES ASSUME IInv, Publish(v) PROVE IInv'
  OBVIOUS
<1>t. TypeOK /\ Flags /\ Stores
  BY TypeParts DEF IInv
<1>v. v \in Page
  BY BufferFacts
<1>1. /\ window' = Poked(window, v)
      /\ image' = (IF serve.kind = "appbank" /\ image # None THEN Poked(image, v) ELSE image)
      /\ staged_image' = (IF have_staged /\ staged_claims /\ staged_plan.kind = "appbank"
                             /\ staged_image # None
                          THEN Poked(staged_image, v) ELSE staged_image)
      /\ staged' = (IF have_staged /\ staged_claims THEN Poked(staged, v) ELSE staged)
      /\ mailbox_live /\ pub' = v /\ pubStaged' = have_staged
      /\ UNCHANGED <<serving, staging, stream, hinted, pushes, rom>>
  BY DEF Publish, c_poke
<1>2. Flags'
  BY <1>1, <1>t, Zenon DEF Flags
<1>3. Stores'
  BY <1>1, <1>t, <1>v, BufferFacts DEF Stores
<1>4. ServingInv'
  <2>1. window'.push = window.push
    BY <1>1, <1>t, <1>v, BufferFacts DEF Stores
  <2>2. (image' = None <=> image = None) /\ (image # None => image'.push = image.push)
    <3>1. CASE image' = image
      BY <3>1
    <3>2. CASE image # None /\ image' = Poked(image, v)
      BY <3>2, <1>t, <1>v, BufferFacts DEF Stores
    <3> QED  BY <1>1, <3>1, <3>2
  <2>3. UNCHANGED <<serve, base, mailbox_live, rom>>
    BY <1>1
  <2> QED  BY <2>1, <2>2, <2>3 DEF IInv, ServingInv, ServesWindow
<1>5. StagingInv'
  <2>1. staged'.push = staged.push
    BY <1>1, <1>t, <1>v, BufferFacts DEF Stores
  <2>2. (staged_image' = None <=> staged_image = None)
        /\ (staged_image # None => staged_image'.push = staged_image.push)
    <3>1. CASE staged_image' = staged_image
      BY <3>1
    <3>2. CASE staged_image # None /\ staged_image' = Poked(staged_image, v)
      BY <3>2, <1>t, <1>v, BufferFacts DEF Stores
    <3> QED  BY <1>1, <3>1, <3>2
  <2>3. UNCHANGED <<swap_armed, have_staged, staged_claims, staged_plan>>
    BY <1>1
  <2> QED  BY <2>1, <2>2, <2>3 DEF IInv, StagingInv
<1>6. PageInv'
  <2>1. window'.page = v /\ (image' # None => image'.page = v)
    BY <1>1, <1>t, <1>v, BufferFacts, PlanFacts DEF IInv, ServingInv, Stores, ServesWindow
  <2>2. have_staged /\ ~staged_claims =>
          staged'.page = Own /\ (staged_image' # None => staged_image'.page = Own)
    BY <1>1 DEF IInv, PageInv
  <2>3. have_staged /\ staged_claims =>
          staged'.page = v /\ (staged_image' # None => staged_image'.page = v)
    BY <1>1, <1>t, <1>v, BufferFacts, PlanFacts DEF IInv, StagingInv, Stores, ServesWindow
  <2> QED  BY <1>1, <2>1, <2>2, <2>3 DEF PageInv
<1>7. HintIsForTheNextRom'
  BY <1>1 DEF IInv, HintIsForTheNextRom
<1> QED  BY <1>2, <1>3, <1>4, <1>5, <1>6, <1>7, TypeParts DEF IInv, TypeOK, Flags, Stores

\* The mapper hint and the ROM stream, of which the images know nothing.
LEMMA StreamStep ==
  ASSUME IInv,
         \/ \E mapper \in {"none", "known", "unknown"} : CloseCfg(mapper)
         \/ \E accepted \in BOOLEAN : OpenRom(accepted)
         \/ CloseRomRefused
  PROVE  IInv'
<1> DEFINE SameServed ==
      /\ UNCHANGED <<buffers, serving, staging, pub, pubStaged, rom>>
      /\ hinted' \in BOOLEAN /\ pushes' \in 0..MaxPush
      /\ rx' \in {"closed", "open", "refused"} /\ pending_hint' \in {"auto", "named"}
      /\ pending_hint' # "auto" => hinted'
<1>1. SameServed
  <2>1. ASSUME NEW mapper \in {"none", "known", "unknown"}, CloseCfg(mapper) PROVE SameServed
    BY <2>1 DEF CloseCfg, Named, IInv, TypeOK
  <2>2. ASSUME NEW accepted \in BOOLEAN, OpenRom(accepted) PROVE SameServed
    BY <2>2, CartAssumption DEF OpenRom, IInv, TypeOK, HintIsForTheNextRom
  <2>3. CASE CloseRomRefused
    BY <2>3 DEF CloseRomRefused, IInv, TypeOK
  <2> QED  BY <2>1, <2>2, <2>3
<1>2. ServingInv' /\ StagingInv' /\ PageInv' /\ HintIsForTheNextRom'
  BY <1>1 DEF IInv, ServingInv, StagingInv, PageInv, HintIsForTheNextRom
<1>3. Flags' /\ Stores'
  BY <1>1, TypeParts DEF IInv, Flags, Stores
<1> QED  BY <1>2, <1>3, TypeParts DEF IInv, TypeOK, Flags, Stores

LEMMA CloseRomStep == ASSUME NEW plan \in Plan PROVE IInv /\ CloseRom(plan) => IInv'
<1> SUFFICES ASSUME IInv, CloseRom(plan) PROVE IInv'
  OBVIOUS
<1>t. TypeOK /\ Flags /\ Stores
  BY TypeParts DEF IInv
<1>1. Fresh(pushes) \in Buffer /\ Fresh(pushes) # None
      /\ Fresh(pushes).push = pushes /\ Fresh(pushes).page = Own
  BY <1>t, BufferFacts DEF Stores
<1>2. Flags'
  BY <1>t, PlanFacts, Zenon DEF Flags, CloseRom
<1>3. Stores'
  BY <1>t, <1>1 DEF Stores, CloseRom
<1>4. ServingInv' /\ PageInv' /\ HintIsForTheNextRom'
  BY <1>1 DEF IInv, ServingInv, PageInv, HintIsForTheNextRom, CloseRom
<1>5. StagingInv'
  BY <1>1, PlanFacts DEF StagingInv, CloseRom
<1> QED  BY <1>2, <1>3, <1>4, <1>5, TypeParts DEF IInv, TypeOK, Flags, Stores

LEMMA ArmStep == IInv /\ c_arm_swap => IInv'
<1> SUFFICES ASSUME IInv, c_arm_swap PROVE IInv'
  OBVIOUS
<1>1. Flags' /\ Stores'
  BY TypeParts DEF IInv, Flags, Stores, c_arm_swap
<1>2. ServingInv' /\ StagingInv' /\ PageInv' /\ HintIsForTheNextRom'
  BY DEF IInv, ServingInv, StagingInv, PageInv, HintIsForTheNextRom, c_arm_swap
<1> QED  BY <1>1, <1>2, TypeParts DEF IInv, TypeOK, Flags, Stores

LEMMA SwapStep == IInv /\ do_swap => IInv'
<1> SUFFICES ASSUME IInv, do_swap PROVE IInv'
  OBVIOUS
<1>t. TypeOK /\ Flags /\ Stores
  BY TypeParts DEF IInv
<1>1. have_staged /\ (staged_image = None <=> ServesWindow(staged_plan))
      /\ (staged_claims <=> staged_plan.mailbox_ok)
  BY DEF IInv, StagingInv, do_swap
<1>2. window' \in Buffer /\ window'.push = staged.push
      /\ window'.page = (IF staged_claims THEN Cleared ELSE Own)
  BY <1>1, <1>t, BufferFacts DEF do_swap, Stores, IInv, PageInv
<1>3. image' = None <=> ServesWindow(staged_plan)
  BY <1>1, <1>t, BufferFacts DEF do_swap, Stores, ServesWindow
<1>4. image' # None =>
        /\ image' \in Buffer /\ image'.push = staged.push
        /\ image'.page = (IF staged_claims THEN Cleared ELSE Own)
  BY <1>1, <1>3, <1>t, BufferFacts, PlanFacts
     DEF do_swap, Stores, ServesWindow, IInv, PageInv, StagingInv
<1>5. Flags'
  BY <1>t, Zenon DEF Flags, do_swap
<1>6. pub' = (IF staged_claims THEN Cleared ELSE pub) /\ pub' \in Page
  BY <1>t, BufferFacts DEF do_swap, Stores
<1>7. Stores'
  <2>1. base' \in {"window", "image"} /\ serve' = staged_plan
    BY DEF do_swap, ApplyServing
  <2>2. rom' \in 0..MaxPush
    BY <1>t DEF do_swap, Stores, Buffer
  <2> QED  BY <1>2, <1>4, <1>6, <1>t, <2>1, <2>2 DEF do_swap, Stores
<1>8. ServingInv'
  BY <1>1, <1>2, <1>3, <1>4 DEF ServingInv, do_swap, ApplyServing
<1>9. StagingInv' /\ PageInv' /\ HintIsForTheNextRom'
  BY <1>1, <1>2, <1>4, <1>6 DEF IInv, StagingInv, PageInv, HintIsForTheNextRom, do_swap
<1> QED  BY <1>5, <1>7, <1>8, <1>9, TypeParts DEF IInv, TypeOK, Flags, Stores

LEMMA NextIInv == IInv /\ [Next]_vars => IInv'
<1>1. IInv /\ UNCHANGED vars => IInv'
  <2> SUFFICES ASSUME IInv, UNCHANGED vars PROVE IInv'
    OBVIOUS
  <2>1. Flags' /\ Stores'
    BY TypeParts DEF vars, IInv, Flags, Stores
  <2>2. ServingInv' /\ StagingInv' /\ PageInv' /\ HintIsForTheNextRom'
    BY DEF vars, IInv, ServingInv, StagingInv, PageInv, HintIsForTheNextRom
  <2> QED  BY <2>1, <2>2, TypeParts DEF IInv, TypeOK, Flags, Stores
<1> QED
  BY <1>1, PublishStep, StreamStep, CloseRomStep, ArmStep, SwapStep DEF Next

LEMMA Invariance == Spec => []IInv
BY InitIInv, NextIInv, PTL DEF Spec

\* The variables of the cartridge keep to their types.
THEOREM TypeCorrect == Spec => []TypeOK
BY Invariance, PTL DEF IInv

-----------------------------------------------------------------------------

\* fujinet_cart.c, do_swap and c_stream_close: the console reads one whole image,
\* of the push that was swapped in last, however many were staged over one
\* another, refused or aborted; and no ROM inherits another's mapper.
THEOREM ConsoleReadsOneImage == Spec => []OneWholeImage
<1>1. IInv => OneWholeImage
  BY BufferFacts DEF IInv, TypeOK, ServingInv, OneWholeImage, Served
<1> QED  BY <1>1, Invariance, PTL

\* fujinet_cart.c, c_poke: the status page is the one published last wherever
\* the console, the debugger or the next swap reads it.
THEOREM StatusPageIsCurrent == Spec => []PageIsCurrent
<1>1. IInv => PageIsCurrent
  <2> SUFFICES ASSUME IInv PROVE PageIsCurrent
    OBVIOUS
  <2>1. Served.page = window.page
    BY DEF IInv, ServingInv, PageInv, Served
  <2>2. window.page = IF mailbox_live THEN pub ELSE Own
    BY DEF IInv, PageInv
  <2>3. have_staged /\ staged_claims /\ pubStaged =>
          staged.page = pub /\ (staged_plan.kind = "appbank" => staged_image.page = pub)
    BY DEF IInv, PageInv, StagingInv, ServesWindow
  <2> QED  BY <2>1, <2>2, <2>3 DEF PageIsCurrent
<1> QED  BY <1>1, Invariance, PTL

-----------------------------------------------------------------------------
(* Induction, recursion and sums: what the steps of the trace rest on.     *)

\* A set of numbers has a least one.
LEMMA LeastNat ==
  ASSUME NEW T, T \subseteq Nat, T # {}
  PROVE  \E n \in T : \A m \in T : ~(m < n)
<1>1. \E n \in T : \A m \in T : <<m, n>> \notin OpToRel(<, Nat)
  BY WFMin, NatLessThanWellFounded
<1>2. ASSUME NEW m \in Nat, NEW n \in Nat, m < n PROVE <<m, n>> \in OpToRel(<, Nat)
  BY <1>2 DEF OpToRel
<1>3. QED BY <1>1, <1>2

\* Induction on Nat, as a fact about a set.
LEMMA EveryNat ==
  ASSUME NEW P, 0 \in P, \A n \in Nat : n \in P => n + 1 \in P
  PROVE  Nat \subseteq P
<1> DEFINE T == {n \in Nat : n \notin P}
<1>1. SUFFICES ASSUME T # {} PROVE FALSE
  OBVIOUS
<1>2. PICK n \in T : \A m \in T : ~(m < n)
  BY <1>1, LeastNat
<1>3. n \in Nat /\ n # 0 /\ n \notin P
  BY <1>2
<1>4. n - 1 \in Nat /\ n - 1 < n /\ (n - 1) + 1 = n
  BY <1>3
<1>5. n - 1 \in P
  BY <1>2, <1>3, <1>4
<1>6. QED BY <1>3, <1>4, <1>5

Recursive(D, V, rank, pred, first, step) ==
  /\ rank \in [D -> Nat] /\ pred \in [D -> D]
  /\ \A x \in D : rank[x] > 0 => rank[pred[x]] < rank[x]
  /\ first \in [D -> V] /\ step \in [D \X V -> V]
  /\ \E N \in Nat : \A x \in D : rank[x] <= N

\* A function defined by recursion on a bounded rank exists.
LEMMA Recursion ==
  ASSUME NEW D, NEW V, NEW rank, NEW pred, NEW first, NEW step,
         Recursive(D, V, rank, pred, first, step)
  PROVE  \E g \in [D -> V] :
           \A x \in D : g[x] = IF rank[x] = 0 THEN first[x] ELSE step[<<x, g[pred[x]]>>]
<1> USE DEF Recursive
<1> PICK N \in Nat : \A x \in D : rank[x] <= N OBVIOUS
<1> DEFINE Eqn(g, x) == g[x] = IF rank[x] = 0 THEN first[x] ELSE step[<<x, g[pred[x]]>>]
           P == {n \in Nat : \E g \in [D -> V] : \A x \in D : rank[x] <= n => Eqn(g, x)}
<1>1. 0 \in P
  <2>1. \A x \in D : rank[x] <= 0 => Eqn(first, x) OBVIOUS
  <2>2. QED BY <2>1
<1>2. ASSUME NEW n \in Nat, n \in P PROVE n + 1 \in P
  <2>1. PICK g \in [D -> V] : \A x \in D : rank[x] <= n => Eqn(g, x)
    BY <1>2
  <2> DEFINE h == [x \in D |-> IF rank[x] = n + 1 THEN step[<<x, g[pred[x]]>>] ELSE g[x]]
  <2>2. h \in [D -> V]
    OBVIOUS
  <2>3. ASSUME NEW x \in D, rank[x] <= n + 1 PROVE Eqn(h, x)
    <3>1. rank[x] \in Nat /\ pred[x] \in D /\ rank[pred[x]] \in Nat OBVIOUS
    <3>2. rank[x] > 0 => rank[pred[x]] # n + 1
      BY <2>3, <3>1
    <3>3. rank[x] > 0 => h[pred[x]] = g[pred[x]]
      BY <3>1, <3>2
    <3>4. CASE rank[x] = n + 1
      BY <3>1, <3>3, <3>4
    <3>5. CASE rank[x] # n + 1
      <4>1. rank[x] <= n BY <2>3, <3>1, <3>5
      <4>2. h[x] = g[x] BY <3>5
      <4>3. Eqn(g, x) BY <2>1, <4>1
      <4>4. QED BY <3>1, <3>3, <4>2, <4>3
    <3>6. QED BY <3>4, <3>5
  <2>4. \E f \in [D -> V] : \A x \in D : rank[x] <= n + 1 => Eqn(f, x)
    <3> HIDE DEF h
    <3>1. QED BY <2>2, <2>3
  <2>5. QED BY <2>4
<1>3. N \in P
  <2> HIDE DEF P
  <2>1. QED BY <1>1, <1>2, EveryNat
<1>4. QED BY <1>3

Chosen(s) == CHOOSE x \in s : TRUE
IsSum(f, g, S) ==
  f = [s \in SUBSET S |-> IF s = {} THEN 0 ELSE g[Chosen(s)] + f[s \ {Chosen(s)}]]

\* The library's sum of a function over a set, as the recursion it unfolds to.
LEMMA SumIs == \A g, S : SumFunctionOnSet(g, S) = (CHOOSE f : IsSum(f, g, S))[S]
BY DEF SumFunctionOnSet, FoldFunctionOnSet, MapThenFoldSet, IsSum, Chosen

\* The element CHOOSE takes first leaves a set with one less.
LEMMA Picked ==
  ASSUME NEW S, IsFiniteSet(S), S # {}
  PROVE  /\ Chosen(S) \in S /\ IsFiniteSet(S \ {Chosen(S)})
         /\ Cardinality(S) \in Nat /\ Cardinality(S) > 0
         /\ Cardinality(S \ {Chosen(S)}) = Cardinality(S) - 1
<1>1. Chosen(S) \in S BY DEF Chosen
<1>2. QED BY <1>1, FS_RemoveElement, FS_CardinalityType, FS_EmptySet

\* The sum of a finite set's values exists, as a function of its subsets.
LEMMA SumExists ==
  ASSUME NEW S, IsFiniteSet(S), NEW g, \A x \in S : g[x] \in Nat
  PROVE  \E f \in [SUBSET S -> Nat] : IsSum(f, g, S)
<1> DEFINE D == SUBSET S
           rank == [s \in D |-> Cardinality(s)]
           pred == [s \in D |-> s \ {Chosen(s)}]
           first == [s \in D |-> 0]
           step == [x \in D \X Nat |-> IF x[1] = {} THEN 0 ELSE g[Chosen(x[1])] + x[2]]
<1>0. \A s \in D : IsFiniteSet(s) /\ Cardinality(s) \in Nat /\ Cardinality(s) <= Cardinality(S)
  BY FS_Subset, FS_CardinalityType
<1>1. rank \in [D -> Nat] BY <1>0
<1>2. pred \in [D -> D] OBVIOUS
<1>3. \A s \in D : rank[s] > 0 => rank[pred[s]] < rank[s]
  <2>1. SUFFICES ASSUME NEW s \in D, rank[s] > 0 PROVE rank[pred[s]] < rank[s] OBVIOUS
  <2>2. s # {} BY <2>1, FS_EmptySet
  <2>3. QED BY <2>2, <1>0, Picked
<1>4. first \in [D -> Nat] OBVIOUS
<1>5. step \in [D \X Nat -> Nat]
  <2>1. ASSUME NEW s \in D, NEW n \in Nat PROVE (IF s = {} THEN 0 ELSE g[Chosen(s)] + n) \in Nat
    BY DEF Chosen
  <2>2. QED BY <2>1
<1>6. Cardinality(S) \in Nat /\ \A s \in D : rank[s] <= Cardinality(S)
  BY <1>0, FS_CardinalityType
<1>7. PICK f \in [D -> Nat] :
        \A s \in D : f[s] = IF rank[s] = 0 THEN first[s] ELSE step[<<s, f[pred[s]]>>]
  <2>1. Recursive(D, Nat, rank, pred, first, step)
    <3> HIDE DEF D, rank, pred, first, step
    <3> QED BY <1>1, <1>2, <1>3, <1>4, <1>5, <1>6 DEF Recursive
  <2> HIDE DEF D, rank, pred, first, step
  <2> QED BY <2>1, Recursion
<1>8. ASSUME NEW s \in D PROVE f[s] = IF s = {} THEN 0 ELSE g[Chosen(s)] + f[s \ {Chosen(s)}]
  <2>1. rank[s] = 0 <=> s = {} BY <1>0, FS_EmptySet
  <2>2. s \ {Chosen(s)} \in D /\ f[s \ {Chosen(s)}] \in Nat BY <1>7
  <2>3. QED BY <1>7, <2>1, <2>2
<1>9. f = [s \in D |-> IF s = {} THEN 0 ELSE g[Chosen(s)] + f[s \ {Chosen(s)}]]
  BY <1>7, <1>8, Zenon
<1>10. QED BY <1>7, <1>9 DEF IsSum

\* Two sums agree on the sets they both know, if the functions do.
LEMMA SumUnique ==
  ASSUME NEW S, NEW T, NEW g, NEW h, NEW e, NEW f, IsSum(e, g, S), IsSum(f, h, T)
  PROVE  \A U \in (SUBSET S) \cap (SUBSET T) :
           IsFiniteSet(U) /\ (\A x \in U : g[x] = h[x]) => e[U] = f[U]
<1> DEFINE Q(U) == IsFiniteSet(U) /\ (\A x \in U : g[x] = h[x])
           P == {n \in Nat : \A U \in (SUBSET S) \cap (SUBSET T) : Q(U) /\ Cardinality(U) = n => e[U] = f[U]}
<1>1. ASSUME NEW U \in (SUBSET S) \cap (SUBSET T)
      PROVE  /\ e[U] = IF U = {} THEN 0 ELSE g[Chosen(U)] + e[U \ {Chosen(U)}]
             /\ f[U] = IF U = {} THEN 0 ELSE h[Chosen(U)] + f[U \ {Chosen(U)}]
  <2>1. e = [s \in SUBSET S |-> IF s = {} THEN 0 ELSE g[Chosen(s)] + e[s \ {Chosen(s)}]]
    BY DEF IsSum
  <2>2. f = [s \in SUBSET T |-> IF s = {} THEN 0 ELSE h[Chosen(s)] + f[s \ {Chosen(s)}]]
    BY DEF IsSum
  <2> QED BY <2>1, <2>2, Zenon
<1>2. 0 \in P
  BY <1>1, FS_EmptySet
<1>3. ASSUME NEW n \in Nat, n \in P PROVE n + 1 \in P
  <2>1. SUFFICES ASSUME NEW U \in (SUBSET S) \cap (SUBSET T), Q(U), Cardinality(U) = n + 1
                 PROVE  e[U] = f[U]
    OBVIOUS
  <2>2. U # {} BY <2>1, FS_EmptySet
  <2>3. Q(U \ {Chosen(U)}) /\ Cardinality(U \ {Chosen(U)}) = n /\ Chosen(U) \in U
    BY <2>1, <2>2, Picked
  <2>4. e[U \ {Chosen(U)}] = f[U \ {Chosen(U)}]
    BY <2>3, <1>3
  <2>5. QED BY <1>1, <2>1, <2>2, <2>3, <2>4
<1>4. Nat \subseteq P
  <2> HIDE DEF P
  <2>1. QED BY <1>2, <1>3, EveryNat
<1>5. QED BY <1>4, FS_CardinalityType

\* The sum of no values.
LEMMA SumEmpty == ASSUME NEW g PROVE SumFunctionOnSet(g, {}) = 0
<1>1. PICK f \in [SUBSET {} -> Nat] : IsSum(f, g, {})
  BY SumExists, FS_EmptySet
<1>2. IsSum(CHOOSE e : IsSum(e, g, {}), g, {})
  BY <1>1
<1>3. \A e : IsSum(e, g, {}) => e[{}] = 0
  BY DEF IsSum
<1>4. QED BY <1>2, <1>3, SumIs

\* The sum as CHOOSE takes it, and its equation.
LEMMA SumPick ==
  ASSUME NEW S, IsFiniteSet(S), S # {}, NEW g, \A x \in S : g[x] \in Nat
  PROVE  SumFunctionOnSet(g, S) = g[Chosen(S)] + SumFunctionOnSet(g, S \ {Chosen(S)})
<1> DEFINE R == S \ {Chosen(S)}
           e == CHOOSE f : IsSum(f, g, S)
           f == CHOOSE f : IsSum(f, g, R)
<1>1. Chosen(S) \in S /\ IsFiniteSet(R) BY Picked
<1>2. IsSum(e, g, S) BY SumExists
<1>3. IsSum(f, g, R) BY <1>1, SumExists
<1>4. e[S] = g[Chosen(S)] + e[R]
  <2>1. e = [s \in SUBSET S |-> IF s = {} THEN 0 ELSE g[Chosen(s)] + e[s \ {Chosen(s)}]]
    BY <1>2 DEF IsSum
  <2> HIDE DEF e
  <2> QED BY <2>1
<1>5. e[R] = f[R]
  <2> HIDE DEF e, f
  <2>1. R \in (SUBSET S) \cap (SUBSET R) OBVIOUS
  <2> QED BY <2>1, <1>1, <1>2, <1>3, SumUnique
<1>6. SumFunctionOnSet(g, S) = e[S] /\ SumFunctionOnSet(g, R) = f[R]
  BY SumIs
<1>7. QED BY <1>4, <1>5, <1>6

\* Functions that agree on a set have the same sum.
LEMMA SumAgrees ==
  ASSUME NEW S, IsFiniteSet(S), NEW g, NEW h, \A x \in S : g[x] \in Nat /\ h[x] = g[x]
  PROVE  SumFunctionOnSet(g, S) = SumFunctionOnSet(h, S)
<1> DEFINE e == CHOOSE f : IsSum(f, g, S)
           f == CHOOSE f : IsSum(f, h, S)
<1>1. IsSum(e, g, S) BY SumExists
<1>2. IsSum(f, h, S) BY SumExists
<1>3. e[S] = f[S]
  <2> HIDE DEF e, f
  <2> QED BY <1>1, <1>2, SumUnique
<1>4. QED BY <1>3, SumIs

\* A sum of numbers is a number.
LEMMA SumType ==
  ASSUME NEW S, IsFiniteSet(S), NEW g, \A x \in S : g[x] \in Nat
  PROVE  SumFunctionOnSet(g, S) \in Nat
<1>1. PICK f \in [SUBSET S -> Nat] : IsSum(f, g, S) BY SumExists
<1> DEFINE e == CHOOSE f_ : IsSum(f_, g, S)
<1>2. IsSum(e, g, S) BY <1>1
<1>3. e[S] = f[S]
  <2> HIDE DEF e
  <2> QED BY <1>1, <1>2, SumUnique
<1>4. QED BY <1>1, <1>3, SumIs

\* Whichever is taken first.
LEMMA SumTakes ==
  ASSUME NEW g, NEW S0, \A x \in S0 : g[x] \in Nat
  PROVE  \A S \in SUBSET S0 : \A x \in S : IsFiniteSet(S) =>
           SumFunctionOnSet(g, S) = g[x] + SumFunctionOnSet(g, S \ {x})
<1> DEFINE Sum(S) == SumFunctionOnSet(g, S)
           P == {n \in Nat : \A S \in SUBSET S0 : \A x \in S :
                   IsFiniteSet(S) /\ Cardinality(S) = n => Sum(S) = g[x] + Sum(S \ {x})}
<1>1. 0 \in P BY FS_EmptySet
<1>2. ASSUME NEW n \in Nat, n \in P PROVE n + 1 \in P
  <2>1. SUFFICES ASSUME NEW S \in SUBSET S0, NEW x \in S, IsFiniteSet(S), Cardinality(S) = n + 1
                 PROVE  Sum(S) = g[x] + Sum(S \ {x})
    OBVIOUS
  <2> DEFINE c == Chosen(S)
             R == S \ {c}
             Q == S \ {x}
  <2>2. c \in S /\ IsFiniteSet(R) /\ Cardinality(R) = n BY <2>1, Picked
  <2>3. IsFiniteSet(Q) /\ Cardinality(Q) = n
    <3>1. IsFiniteSet(S \ {x}) /\ Cardinality(S \ {x}) = Cardinality(S) - 1
      BY <2>1, FS_RemoveElement, Zenon
    <3>2. QED BY <2>1, <3>1
  <2>4. Sum(S) = g[c] + Sum(R) BY <2>1, SumPick
  <2>5. CASE x = c BY <2>4, <2>5
  <2>6. CASE x # c
    <3> HIDE DEF c
    <3>1. x \in R /\ c \in Q /\ R \in SUBSET S0 /\ Q \in SUBSET S0 /\ R \ {x} = Q \ {c}
      BY <2>2, <2>6
    <3>2. Sum(R) = g[x] + Sum(R \ {x}) BY <1>2, <2>2, <3>1
    <3>3. Sum(Q) = g[c] + Sum(Q \ {c}) BY <1>2, <2>3, <3>1
    <3>4. IsFiniteSet(R \ {x}) /\ \A y \in R \ {x} : g[y] \in Nat BY <2>2, FS_RemoveElement
    <3>5. Sum(R \ {x}) \in Nat BY <3>4, SumType
    <3>6. g[x] \in Nat /\ g[c] \in Nat BY <2>2
    <3>7. Sum(S) = g[x] + Sum(Q)
      <4>1. Sum(Q) = g[c] + Sum(R \ {x}) BY <3>1, <3>3, Zenon
      <4>2. Sum(S) = g[c] + (g[x] + Sum(R \ {x})) BY <2>4, <3>2, Zenon
      <4> HIDE DEF R, Q, Sum
      <4> QED BY <3>5, <3>6, <4>1, <4>2
    <3>8. QED BY <3>7
  <2>7. QED BY <2>5, <2>6
<1>3. Nat \subseteq P
  <2> HIDE DEF P
  <2>1. QED BY <1>1, <1>2, EveryNat
<1>4. QED BY <1>3, FS_CardinalityType

\* A value added, and one the function changes.
LEMMA SumAdds ==
  ASSUME NEW g, NEW S, IsFiniteSet(S), NEW x \in S, \A y \in S : g[y] \in Nat
  PROVE  SumFunctionOnSet(g, S) = g[x] + SumFunctionOnSet(g, S \ {x})
<1>1. \A T \in SUBSET S : \A y \in T : IsFiniteSet(T) =>
        SumFunctionOnSet(g, T) = g[y] + SumFunctionOnSet(g, T \ {y})
  BY SumTakes
<1>2. QED BY <1>1

\* A sum grows by what one value grows by.
LEMMA SumChanges ==
  ASSUME NEW g, NEW h, NEW S, IsFiniteSet(S), NEW x \in S, NEW d \in Nat,
         \A y \in S : g[y] \in Nat, \A y \in S : y # x => h[y] = g[y], h[x] = g[x] + d
  PROVE  SumFunctionOnSet(h, S) = SumFunctionOnSet(g, S) + d
<1> DEFINE R == S \ {x}
<1>1. IsFiniteSet(R) BY FS_RemoveElement
<1>2. SumFunctionOnSet(g, R) = SumFunctionOnSet(h, R)
  <2>1. \A y \in R : g[y] \in Nat /\ h[y] = g[y] OBVIOUS
  <2>2. QED BY <1>1, <2>1, SumAgrees
<1>3. SumFunctionOnSet(g, S) = g[x] + SumFunctionOnSet(g, R) BY SumAdds
<1>4. SumFunctionOnSet(h, S) = h[x] + SumFunctionOnSet(h, R)
  <2>1. \A y \in S : h[y] \in Nat OBVIOUS
  <2>2. QED BY <2>1, SumAdds
<1>5. SumFunctionOnSet(g, R) \in Nat BY <1>1, SumType
<1>6. g[x] \in Nat /\ h[x] = g[x] + d OBVIOUS
<1>7. QED
  <2> HIDE DEF R
  <2> QED BY <1>2, <1>3, <1>4, <1>5, <1>6

\* A sum of zeros is zero.
LEMMA SumOfNone ==
  ASSUME NEW S, IsFiniteSet(S), NEW g, \A x \in S : g[x] = 0
  PROVE  SumFunctionOnSet(g, S) = 0
<1> DEFINE P == {n \in Nat : \A T \in SUBSET S : IsFiniteSet(T) /\ Cardinality(T) = n => SumFunctionOnSet(g, T) = 0}
<1>1. 0 \in P BY SumEmpty, FS_EmptySet
<1>2. ASSUME NEW n \in Nat, n \in P PROVE n + 1 \in P
  <2>1. SUFFICES ASSUME NEW T \in SUBSET S, IsFiniteSet(T), Cardinality(T) = n + 1
                 PROVE  SumFunctionOnSet(g, T) = 0
    OBVIOUS
  <2>2. T # {} BY <2>1, FS_EmptySet
  <2> DEFINE R == T \ {Chosen(T)}
  <2>3. Chosen(T) \in T /\ IsFiniteSet(R) /\ Cardinality(R) = n BY <2>1, <2>2, Picked
  <2>4. SumFunctionOnSet(g, R) = 0 BY <1>2, <2>3
  <2>5. \A x \in T : g[x] \in Nat OBVIOUS
  <2>6. SumFunctionOnSet(g, T) = g[Chosen(T)] + SumFunctionOnSet(g, R)
    BY <2>1, <2>2, <2>5, SumPick, Zenon
  <2>7. QED BY <2>3, <2>4, <2>6
<1>3. Nat \subseteq P
  <2> HIDE DEF P
  <2>1. QED BY <1>1, <1>2, EveryNat
<1>4. QED BY <1>3, FS_CardinalityType

\* The same values under other indices.
Moves(m, g, S, h, T) ==
  /\ IsFiniteSet(S) /\ T = {m[x] : x \in S}
  /\ \A x \in S : g[x] \in Nat /\ h[m[x]] = g[x]
  /\ \A x, y \in S : m[x] = m[y] => x = y

\* A sum over the same values under other indices.
LEMMA SumMoves ==
  ASSUME NEW S, NEW g, NEW h, NEW m, NEW T, Moves(m, g, S, h, T)
  PROVE  SumFunctionOnSet(h, T) = SumFunctionOnSet(g, S)
<1> USE DEF Moves
<1> DEFINE Img(U) == {m[x] : x \in U}
           P == {n \in Nat : \A U \in SUBSET S : IsFiniteSet(U) /\ Cardinality(U) = n =>
                   IsFiniteSet(Img(U)) /\ SumFunctionOnSet(h, Img(U)) = SumFunctionOnSet(g, U)}
<1>1. 0 \in P
  <2>1. Img({}) = {} OBVIOUS
  <2>2. QED BY <2>1, SumEmpty, FS_EmptySet
<1>2. ASSUME NEW n \in Nat, n \in P PROVE n + 1 \in P
  <2>1. SUFFICES ASSUME NEW U \in SUBSET S, IsFiniteSet(U), Cardinality(U) = n + 1
                 PROVE  IsFiniteSet(Img(U)) /\ SumFunctionOnSet(h, Img(U)) = SumFunctionOnSet(g, U)
    OBVIOUS
  <2>2. U # {} BY <2>1, FS_EmptySet
  <2> DEFINE c == Chosen(U)
             R == U \ {c}
  <2>3. c \in U /\ IsFiniteSet(R) /\ Cardinality(R) = n
    <3>1. c \in U /\ IsFiniteSet(R) /\ Cardinality(R) = Cardinality(U) - 1
      BY <2>1, <2>2, Picked, Zenon
    <3>2. QED BY <2>1, <3>1
  <2>4. IsFiniteSet(Img(R)) /\ SumFunctionOnSet(h, Img(R)) = SumFunctionOnSet(g, R)
    BY <1>2, <2>3
  <2>5. SumFunctionOnSet(g, U) = g[c] + SumFunctionOnSet(g, R) BY <2>1, <2>2, SumPick
  <2> HIDE DEF c
  <2>6. Img(U) = Img(R) \cup {m[c]} /\ Img(R) = Img(U) \ {m[c]} BY <2>3
  <2>7. IsFiniteSet(Img(U))
    <3>1. IsFiniteSet(Img(R) \cup {m[c]}) BY <2>4, FS_AddElement, Zenon
    <3>2. QED BY <2>6, <3>1, Zenon
  <2>8. m[c] \in Img(U) /\ \A y \in Img(U) : h[y] \in Nat BY <2>3
  <2>9. SumFunctionOnSet(h, Img(U)) = h[m[c]] + SumFunctionOnSet(h, Img(U) \ {m[c]})
    <3> HIDE DEF Img
    <3> QED BY <2>7, <2>8, SumAdds
  <2>10. h[m[c]] = g[c] BY <2>3
  <2>11. SumFunctionOnSet(h, Img(U)) = h[m[c]] + SumFunctionOnSet(h, Img(R))
    <3> HIDE DEF Img, R
    <3> QED BY <2>6, <2>9
  <2>12. QED
    <3> HIDE DEF Img, R
    <3> QED BY <2>4, <2>5, <2>7, <2>10, <2>11
<1>3. Nat \subseteq P
  <2> HIDE DEF P
  <2>1. QED BY <1>1, <1>2, EveryNat
<1>4. SumFunctionOnSet(h, Img(S)) = SumFunctionOnSet(g, S) BY <1>3, FS_CardinalityType
<1>5. QED BY <1>4

\* Induction on sequences: grown byte by byte, they are all there.
LEMMA EverySeq ==
  ASSUME NEW S, NEW P, <<>> \in P, \A s \in Seq(S) : s \in P => \A b \in S : Append(s, b) \in P
  PROVE  Seq(S) \subseteq P
<1> DEFINE Q == {n \in Nat : \A s \in Seq(S) : Len(s) = n => s \in P}
<1>1. 0 \in Q BY EmptySeq
<1>2. ASSUME NEW n \in Nat, n \in Q PROVE n + 1 \in Q
  <2>1. SUFFICES ASSUME NEW s \in Seq(S), Len(s) = n + 1 PROVE s \in P OBVIOUS
  <2> DEFINE t == SubSeq(s, 1, n)
  <2>2. t \in Seq(S) /\ Len(t) = n /\ s[n + 1] \in S /\ s = Append(t, s[n + 1])
    BY <2>1
  <2>3. t \in P
    <3> HIDE DEF t
    <3> QED BY <1>2, <2>2
  <2>4. QED
    <3> HIDE DEF t
    <3> QED BY <2>2, <2>3
<1>3. Nat \subseteq Q
  <2> HIDE DEF Q
  <2>1. QED BY <1>1, <1>2, EveryNat
<1>4. QED BY <1>3

\* The largest of the first numbers, and of some of them.
LEMMA MaxUpTo == ASSUME NEW n \in Nat PROVE Max(1..(n + 1)) = n + 1
BY DEF Max
LEMMA MaxIn ==
  ASSUME NEW n \in Nat, NEW I \in SUBSET (1..n), I # {}
  PROVE  Max(I) \in I
<1> DEFINE Q == {k \in Nat : \A J \in SUBSET (1..k) : J # {} => \E x \in J : \A y \in J : x >= y}
<1>1. 0 \in Q
  <2>1. 1..0 = {} OBVIOUS
  <2>2. QED BY <2>1
<1>2. ASSUME NEW k \in Nat, k \in Q PROVE k + 1 \in Q
  <2>1. SUFFICES ASSUME NEW J \in SUBSET (1..(k + 1)), J # {}
        PROVE  \E x \in J : \A y \in J : x >= y
    OBVIOUS
  <2>2. CASE k + 1 \in J BY <2>1, <2>2
  <2>3. CASE k + 1 \notin J
    <3>1. J \in SUBSET (1..k) BY <2>1, <2>3
    <3>2. QED BY <3>1, <2>1, <1>2
  <2>4. QED BY <2>2, <2>3
<1>3. Nat \subseteq Q
  <2> HIDE DEF Q
  <2>1. QED BY <1>1, <1>2, EveryNat
<1>4. \E x \in I : \A y \in I : x >= y BY <1>3
<1>5. QED BY <1>4 DEF Max

IsFlat(f, ss) == f = [i \in 1..Len(ss) |-> IF i = 1 THEN ss[i] ELSE f[i - 1] \o ss[i]]

\* The library's joining of sequences, as the recursion it unfolds to.
LEMMA FlatIs == \A ss : Len(ss) # 0 => FlattenSeq(ss) = (CHOOSE f : IsFlat(f, ss))[Len(ss)]
BY DEF FlattenSeq, IsFlat

\* The joined sequence exists, for each number of sequences.
LEMMA FlatExists ==
  ASSUME NEW V, NEW ss \in Seq(Seq(V))
  PROVE  \E f \in [1..Len(ss) -> Seq(V)] : IsFlat(f, ss)
<1> DEFINE D == 1..Len(ss)
           rank == [i \in D |-> i - 1]
           pred == [i \in D |-> IF i = 1 THEN 1 ELSE i - 1]
           first == [i \in D |-> ss[i]]
           step == [x \in D \X Seq(V) |-> x[2] \o ss[x[1]]]
<1>1. Len(ss) \in Nat /\ \A i \in D : ss[i] \in Seq(V)
  OBVIOUS
<1>2. rank \in [D -> Nat] /\ pred \in [D -> D] /\ first \in [D -> Seq(V)]
  BY <1>1
<1>3. \A i \in D : rank[i] > 0 => rank[pred[i]] < rank[i]
  BY <1>1
<1>4. step \in [D \X Seq(V) -> Seq(V)]
  <2>1. ASSUME NEW i \in D, NEW x \in Seq(V) PROVE x \o ss[i] \in Seq(V)
    BY <1>1, ConcatProperties
  <2>2. QED BY <2>1
<1>5. \E N \in Nat : \A i \in D : rank[i] <= N
  <2>1. \A i \in D : rank[i] <= Len(ss) OBVIOUS
  <2>2. QED BY <1>1, <2>1
<1>6. PICK f \in [D -> Seq(V)] :
        \A i \in D : f[i] = IF rank[i] = 0 THEN first[i] ELSE step[<<i, f[pred[i]]>>]
  <2>1. Recursive(D, Seq(V), rank, pred, first, step)
    <3> HIDE DEF D, rank, pred, first, step
    <3> QED BY <1>2, <1>3, <1>4, <1>5 DEF Recursive
  <2> HIDE DEF D, rank, pred, first, step
  <2> QED BY <2>1, Recursion
<1>7. ASSUME NEW i \in D PROVE f[i] = IF i = 1 THEN ss[i] ELSE f[i - 1] \o ss[i]
  <2>1. CASE i = 1
    <3>1. rank[i] = 0 /\ first[i] = ss[i] BY <2>1
    <3>2. QED BY <1>6, <2>1, <3>1
  <2>2. CASE i # 1
    <3>1. rank[i] # 0 /\ pred[i] = i - 1 /\ i - 1 \in D BY <2>2
    <3>2. f[i - 1] \in Seq(V) BY <1>6, <3>1
    <3>3. step[<<i, f[i - 1]>>] = f[i - 1] \o ss[i] BY <3>2
    <3>4. f[i] = step[<<i, f[pred[i]]>>]
      <4> HIDE DEF rank, step, pred
      <4> QED BY <1>6, <3>1
    <3>5. QED
      <4> HIDE DEF rank, step, pred
      <4> QED BY <2>2, <3>1, <3>3, <3>4
  <2>3. QED BY <2>1, <2>2
<1>8. f = [i \in D |-> IF i = 1 THEN ss[i] ELSE f[i - 1] \o ss[i]]
  BY <1>6, <1>7, Zenon
<1>9. QED BY <1>6, <1>8 DEF IsFlat

\* Two joined sequences agree for as long as their parts do.
LEMMA FlatUnique ==
  ASSUME NEW ss, NEW tt, NEW e, NEW f, NEW m \in Nat, NEW n \in Nat,
         Len(ss) = m, Len(tt) = n, IsFlat(e, ss), IsFlat(f, tt)
  PROVE  \A k \in Nat : k > 0 /\ k <= m /\ k <= n /\ (\A i \in 1..k : ss[i] = tt[i]) => e[k] = f[k]
<1> DEFINE P == {k \in Nat : k > 0 /\ k <= m /\ k <= n /\ (\A i \in 1..k : ss[i] = tt[i]) => e[k] = f[k]}
<1>0. /\ \A i \in 1..m : e[i] = IF i = 1 THEN ss[i] ELSE e[i - 1] \o ss[i]
      /\ \A i \in 1..n : f[i] = IF i = 1 THEN tt[i] ELSE f[i - 1] \o tt[i]
  <2>1. e = [i \in 1..m |-> IF i = 1 THEN ss[i] ELSE e[i - 1] \o ss[i]] BY Zenon DEF IsFlat
  <2>2. f = [i \in 1..n |-> IF i = 1 THEN tt[i] ELSE f[i - 1] \o tt[i]] BY Zenon DEF IsFlat
  <2>3. QED BY <2>1, <2>2, Zenon
<1>1. 0 \in P OBVIOUS
<1>2. ASSUME NEW k \in Nat, k \in P PROVE k + 1 \in P
  <2>1. SUFFICES ASSUME k + 1 <= m, k + 1 <= n, \A i \in 1..(k + 1) : ss[i] = tt[i]
                 PROVE  e[k + 1] = f[k + 1]
    OBVIOUS
  <2>2. k > 0 => e[k] = f[k] BY <1>2, <2>1
  <2>3. k + 1 \in 1..m /\ k + 1 \in 1..n /\ ss[k + 1] = tt[k + 1] /\ (k + 1) - 1 = k BY <2>1
  <2>4. CASE k = 0 BY <1>0, <2>3, <2>4
  <2>5. CASE k > 0
    <3>n. k + 1 # 1 BY <2>5
    <3>1. e[k + 1] = e[(k + 1) - 1] \o ss[k + 1] BY <1>0, <2>3, <3>n, Zenon
    <3>2. f[k + 1] = f[(k + 1) - 1] \o tt[k + 1] BY <1>0, <2>3, <3>n, Zenon
    <3>3. QED BY <2>2, <2>3, <2>5, <3>1, <3>2
  <2>6. QED BY <2>4, <2>5
<1>3. Nat \subseteq P
  <2> HIDE DEF P
  <2>1. QED BY <1>1, <1>2, EveryNat
<1>4. QED BY <1>3

\* One sequence more is joined behind the others.
LEMMA FlattenNone == FlattenSeq(<<>>) = <<>>
BY DEF FlattenSeq

LEMMA FlattenOne ==
  ASSUME NEW V, NEW ss \in Seq(Seq(V)), NEW s \in Seq(V)
  PROVE  FlattenSeq(ss) \in Seq(V) /\ FlattenSeq(Append(ss, s)) = FlattenSeq(ss) \o s
<1> DEFINE tt == Append(ss, s)
           e == CHOOSE f : IsFlat(f, ss)
           f == CHOOSE f : IsFlat(f, tt)
<1> PICK n \in Nat : n = Len(ss) OBVIOUS
<1> PICK m \in Nat : m = n + 1 OBVIOUS
<1>1. /\ tt \in Seq(Seq(V)) /\ Len(tt) = m /\ tt[m] = s /\ \A i \in 1..n : tt[i] = ss[i]
  OBVIOUS
<1> HIDE DEF tt
<1>2. IsFlat(e, ss) /\ (n > 0 => e[n] \in Seq(V))
  <2>1. PICK d \in [1..Len(ss) -> Seq(V)] : IsFlat(d, ss) BY FlatExists
  <2>2. IsFlat(e, ss) BY <2>1
  <2> HIDE DEF e
  <2>3. \A k \in Nat : k > 0 /\ k <= n /\ k <= n /\ (\A i \in 1..k : ss[i] = ss[i]) => e[k] = d[k]
    BY <2>1, <2>2, FlatUnique
  <2>4. n > 0 => e[n] = d[n] /\ d[n] \in Seq(V) BY <2>1, <2>3
  <2>5. QED BY <2>2, <2>4
<1>3. IsFlat(f, tt) BY <1>1, FlatExists
<1>4. n > 0 => FlattenSeq(ss) = e[n] BY FlatIs
<1>5. FlattenSeq(tt) = f[m]
  <2>1. Len(tt) = m /\ m # 0 BY <1>1
  <2>2. Len(tt) # 0 => FlattenSeq(tt) = f[Len(tt)] BY FlatIs, Zenon
  <2> HIDE DEF f
  <2>3. QED BY <2>1, <2>2
<1> HIDE DEF e, f
<1>6. f[m] = IF m = 1 THEN tt[m] ELSE f[m - 1] \o tt[m]
  <2>1. f = [i \in 1..m |-> IF i = 1 THEN tt[i] ELSE f[i - 1] \o tt[i]]
    BY <1>1, <1>3, Zenon DEF IsFlat
  <2>2. m \in 1..m OBVIOUS
  <2>3. QED BY <2>1, <2>2, Zenon
<1>7. CASE n = 0
  <2>1. ss = <<>> /\ m = 1
    <3>1. Len(ss) = 0 BY <1>7
    <3>2. ss = <<>> BY <3>1, EmptySeq
    <3>3. QED BY <1>7, <3>2
  <2>2. FlattenSeq(tt) = s BY <1>1, <1>5, <1>6, <2>1
  <2>3. <<>> \in Seq(V) /\ <<>> \o s = s BY EmptySeq, ConcatEmptySeq
  <2>4. QED BY <2>1, <2>2, <2>3, FlattenNone DEF tt
<1>8. CASE n > 0
  <2>1. \A k \in Nat : k > 0 /\ k <= m /\ k <= n /\ (\A i \in 1..k : tt[i] = ss[i]) => f[k] = e[k]
    BY <1>1, <1>2, <1>3, FlatUnique
  <2>2. f[n] = e[n]
    <3>1. n <= m /\ n <= n /\ n > 0 BY <1>8
    <3>2. QED BY <1>1, <2>1, <3>1, Zenon
  <2>3. m # 1 /\ m - 1 = n BY <1>8
  <2>4. FlattenSeq(tt) = e[n] \o s BY <1>1, <1>5, <1>6, <2>2, <2>3
  <2>5. QED BY <1>2, <1>4, <1>8, <2>4 DEF tt
<1>9. QED BY <1>7, <1>8

-----------------------------------------------------------------------------
(* What the debugger's window shows of the trace.                          *)

\* Which packets there are does not matter here.
Entry(P) == [pkt : P, repeat : Nat, serial : Nat]
Logs(P) == ring \in Seq(Entry(P)) /\ drawn \in Seq(Entry(P))

\* Only a redraw changes what was drawn and remembered; a packet gives the
\* newest entry a serial no entry had.
Remembers ==
  /\ \E P : Logs(P)
  /\ serial \in Nat /\ fuji_last \in Nat
  /\ pending => Len(ring) >= 3
  /\ fuji_count = Len(drawn) /\ fuji_last <= serial /\ NewestSerial <= serial

TraceInv == Remembers /\ WindowSeesEveryChange

\* An entry counted once more.
Counted(e, s) == [e EXCEPT !.repeat = @ + 1, !.serial = s]

LEMMA EntryCounted ==
  ASSUME NEW P, NEW e \in Entry(P), NEW s \in Nat
  PROVE  /\ Counted(e, s) \in Entry(P) /\ Counted(e, s).serial = s
         /\ Counted(e, s).pkt = e.pkt /\ Counted(e, s).repeat = e.repeat + 1
<1>1. /\ e = [pkt |-> e.pkt, repeat |-> e.repeat, serial |-> e.serial]
      /\ e.pkt \in P /\ e.repeat \in Nat
  BY DEF Entry
<1> DEFINE once == [e EXCEPT !.repeat = @ + 1]
<1>2. once = [pkt |-> e.pkt, repeat |-> e.repeat + 1, serial |-> e.serial]
  BY <1>1
<1> HIDE DEF once
<1>3. [once EXCEPT !.serial = s] = [pkt |-> e.pkt, repeat |-> e.repeat + 1, serial |-> s]
  BY <1>2
<1>4. /\ [once EXCEPT !.serial = s] \in Entry(P)
      /\ [once EXCEPT !.serial = s].serial = s
      /\ [once EXCEPT !.serial = s].pkt = e.pkt
      /\ [once EXCEPT !.serial = s].repeat = e.repeat + 1
  BY <1>1, <1>3 DEF Entry
<1> QED  BY <1>4 DEF once, Counted

\* What Bump does: it changes one entry, and there the packet stays.
LEMMA BumpFacts ==
  ASSUME NEW P, NEW r \in Seq(Entry(P)),
         NEW back \in Nat, back < Len(r), NEW s \in Nat
  PROVE  /\ Bump(r, back, s) \in Seq(Entry(P))
         /\ Len(Bump(r, back, s)) = Len(r)
         /\ LET at == Len(r) - back
            IN  /\ Bump(r, back, s)[at].serial = s
                /\ Bump(r, back, s)[at].pkt = r[at].pkt
                /\ Bump(r, back, s)[at].repeat = r[at].repeat + 1
                /\ \A i \in DOMAIN r : i # at => Bump(r, back, s)[i] = r[i]
<1> DEFINE at == Len(r) - back
           e == Counted(r[at], s)
<1>1. at \in 1..Len(r)
  OBVIOUS
<1>2. e \in Entry(P) /\ e.serial = s /\ e.pkt = r[at].pkt /\ e.repeat = r[at].repeat + 1
  <2>1. r[at] \in Entry(P)
    BY <1>1
  <2> QED  BY <2>1, EntryCounted, Zenon
<1>3. Bump(r, back, s) = [r EXCEPT ![at] = e]
  BY <1>1, <1>2 DEF Bump, Slot, Counted
<1> HIDE DEF e, at
<1>4. /\ [r EXCEPT ![at] = e] \in Seq(Entry(P)) /\ Len([r EXCEPT ![at] = e]) = Len(r)
      /\ [r EXCEPT ![at] = e][at] = e
      /\ \A i \in DOMAIN r : i # at => [r EXCEPT ![at] = e][i] = r[i]
  BY <1>1, <1>2
<1> QED  BY <1>2, <1>3, <1>4 DEF at

LEMMA AddStep ==
  ASSUME Remembers, NEW p, add(p), UNCHANGED view
  PROVE  TraceInv'
<1>0. PICK P : p \in P /\ Logs(P)
  <2>1. PICK Q : Logs(Q)
    BY DEF Remembers
  <2> DEFINE P == Q \cup {p}
  <2>2. Entry(Q) \subseteq Entry(P)
    BY DEF Entry
  <2> HIDE DEF P
  <2>3. Seq(Entry(Q)) \subseteq Seq(Entry(P))
    BY <2>2
  <2>4. p \in P /\ Logs(P)
    BY <2>1, <2>3 DEF Logs, P
  <2> QED  BY <2>4
<1>1. /\ ring' \in Seq(Entry(P)) /\ ring' # <<>> /\ (pending' => Len(ring') >= 3)
      /\ ring'[Len(ring')].serial = serial' /\ serial' > serial /\ serial' \in Nat
  <2>1. CASE Completes(p) /\ FoldExchange
    <3> DEFINE r == SubSeq(ring, 1, Len(ring) - 1)
               once == Bump(r, 1, serial + 1)
    <3>1. r \in Seq(Entry(P)) /\ Len(r) >= 2
      BY <1>0, <2>1 DEF Completes, Remembers, Logs
    <3>2. /\ ring' = Bump(once, 0, serial + 2)
          /\ serial' = serial + 2 /\ ~pending'
      BY <2>1 DEF FoldExchange
    <3> HIDE DEF r
    <3>n. serial + 1 \in Nat /\ serial + 2 \in Nat
      BY DEF Remembers
    <3>m. 1 \in Nat /\ 1 < Len(r)
      BY <3>1
    <3>3. once \in Seq(Entry(P)) /\ Len(once) = Len(r)
      BY <3>1, <3>n, <3>m, BumpFacts
    <3> HIDE DEF once
    <3>4. /\ ring' \in Seq(Entry(P)) /\ Len(ring') = Len(once)
          /\ ring'[Len(once) - 0].serial = serial + 2
      BY <3>1, <3>2, <3>3, <3>n, BumpFacts
    <3> QED  BY <3>1, <3>2, <3>3, <3>4 DEF Remembers
  <2>2. CASE ~Completes(p) /\ Holds(ring, 0, p) /\ FoldPacket
    <3>1. Len(ring) > 0 /\ ring' = Bump(ring, 0, serial + 1) /\ serial' = serial + 1 /\ ~pending'
      BY <2>2 DEF Holds, FoldPacket
    <3>2. /\ ring' \in Seq(Entry(P)) /\ Len(ring') = Len(ring)
          /\ ring'[Len(ring) - 0].serial = serial + 1
      BY <1>0, <3>1, BumpFacts DEF Remembers, Logs
    <3> QED  BY <1>0, <3>1, <3>2 DEF Remembers, Logs
  <2>3. CASE ~Completes(p) /\ ~Holds(ring, 0, p) /\ Push(p)
    <3> DEFINE kept == IF Len(ring) = FUJITRACE_MAX THEN Tail(ring) ELSE ring
               new == [pkt |-> p, repeat |-> 1, serial |-> serial + 1]
    <3>1. kept \in Seq(Entry(P)) /\ new \in Entry(P) /\ new.serial = serial + 1
      BY <1>0, TraceAssumption DEF Remembers, Entry, Logs
    <3>2. ring' = Append(kept, new) /\ serial' = serial + 1 /\ (pending' => Len(ring') >= 3)
      BY <2>3 DEF Push, HalfSeen
    <3> HIDE DEF kept, new
    <3>3. /\ ring' \in Seq(Entry(P)) /\ Len(ring') = Len(kept) + 1
          /\ ring'[Len(kept) + 1] = new
      BY <3>1, <3>2
    <3>4. Len(kept) \in Nat
      BY <3>1
    <3> QED  BY <3>1, <3>2, <3>3, <3>4 DEF Remembers
  <2> QED  BY <2>1, <2>2, <2>3 DEF add
<1>2. \E Q : Logs(Q)'
  BY <1>0, <1>1 DEF Logs, view
<1>3. /\ NewestSerial' = serial' /\ ~LooksUnchanged'
      /\ fuji_count' = Len(drawn') /\ fuji_last' <= serial' /\ fuji_last' \in Nat
  BY <1>0, <1>1 DEF Remembers, LooksUnchanged, NewestSerial, view, Logs
<1> QED  BY <1>1, <1>2, <1>3 DEF Remembers, TraceInv, WindowSeesEveryChange

LEMMA TraceSteps == TraceInv /\ [TapNext]_tapVars => TraceInv'
<1> SUFFICES ASSUME TraceInv, [TapNext]_tapVars PROVE TraceInv'
  OBVIOUS
<1>1. ASSUME NEW to_host, NEW piece, fujitrace_feed(to_host, piece) PROVE TraceInv'
  <2>1. CASE UNCHANGED log /\ UNCHANGED view
    BY <2>1 DEF log, view, TraceInv, Remembers, Logs, NewestSerial, WindowSeesEveryChange,
                LooksUnchanged
  <2>2. ASSUME NEW p, add(p), UNCHANGED view PROVE TraceInv'
    BY <2>2, AddStep DEF TraceInv
  <2> QED  BY <1>1, <2>1, <2>2 DEF fujitrace_feed
<1>2. ASSUME NEW body, trace_sent(body) PROVE TraceInv'
  BY <1>1, <1>2 DEF trace_sent
<1>3. CASE s_trace
  BY <1>1, <1>3 DEF s_trace
<1>4. CASE WindowClears
  <2>1. /\ ring' = <<>> /\ ~pending'
        /\ UNCHANGED <<serial, drawn, fuji_count, fuji_last>>
    BY <1>4 DEF WindowClears, fujitrace_clear, view
  <2>2. \E P : Logs(P)'
    BY <2>1 DEF Logs, TraceInv, Remembers
  <2>3. NewestSerial' = 0 /\ (LooksUnchanged' => drawn' = ring')
    BY <2>1 DEF TraceInv, Remembers, NewestSerial, LooksUnchanged, Logs
  <2> QED  BY <2>1, <2>2, <2>3 DEF TraceInv, Remembers, WindowSeesEveryChange
<1>5. CASE WindowRefreshes
  <2>1. /\ drawn' = ring /\ fuji_count' = Len(ring) /\ fuji_last' = NewestSerial
        /\ UNCHANGED <<ring, serial, pending>>
    BY <1>5 DEF WindowRefreshes, RefreshFujinet, log
  <2>2. \E P : Logs(P)'
    BY <2>1 DEF Logs, TraceInv, Remembers
  <2>3. NewestSerial' = NewestSerial /\ NewestSerial \in Nat
    <3>1. PICK P : Logs(P)
      BY DEF TraceInv, Remembers
    <3>2. ring # <<>> => ring[Len(ring)] \in Entry(P)
      BY <3>1 DEF Logs
    <3> QED  BY <2>1, <3>2 DEF NewestSerial, Entry
  <2> QED  BY <2>1, <2>2, <2>3 DEF TraceInv, Remembers, WindowSeesEveryChange
<1>6. CASE UNCHANGED <<log, view>>
  BY <1>6 DEF log, view, TraceInv, Remembers, Logs, NewestSerial, WindowSeesEveryChange,
              LooksUnchanged
<1>7. CASE \E body \in Received : trace_received(body)
  BY <1>6, <1>7 DEF trace_received
<1>8. CASE UNCHANGED tapVars
  BY <1>6, <1>8 DEF tapVars
<1> QED  BY <1>2, <1>3, <1>4, <1>5, <1>7, <1>8 DEF TapNext

\* The debugger's window never misses a change of the trace: when count and
\* newest serial look as it remembers them, what it drew is the log, through
\* any pieces, folds, evictions and clears (core/debugger/fujitrace.c:78-127,
\* gnome/debugger/dbg_window.c:409-413).
THEOREM WindowIsTrue == TapSpec => []WindowSeesEveryChange
<1>1. TapInit => TraceInv
  <2> SUFFICES ASSUME TapInit PROVE TraceInv
    OBVIOUS
  <2>1. Logs({})
    BY DEF TapInit, TraceInit, Logs
  <2> QED
    BY <2>1 DEF TapInit, TraceInit, TraceInv, Remembers, NewestSerial, WindowSeesEveryChange
<1>2. TraceInv => WindowSeesEveryChange
  BY DEF TraceInv
<1> QED  BY <1>1, <1>2, TraceSteps, PTL DEF TapSpec

-----------------------------------------------------------------------------
(* The log claims what crossed the cartridge, and nothing else.            *)

Byte == 0..255
DecoderState == [acc : Seq(Byte), esc : BOOLEAN, frames : Seq(Seq(Byte))]
DecodeAll(st, s) == FoldLeft(Decode, st, s)

\* The fields of a decoder's state, after it is changed.
LEMMA DecoderSets ==
  ASSUME NEW st \in DecoderState, NEW a \in Seq(Byte), NEW f \in Seq(Seq(Byte))
  PROVE  /\ LET c == [st EXCEPT !.esc = TRUE]
            IN  c \in DecoderState /\ c.acc = st.acc /\ c.esc = TRUE /\ c.frames = st.frames
         /\ LET c == [st EXCEPT !.esc = FALSE, !.acc = a]
            IN  c \in DecoderState /\ c.acc = a /\ c.esc = FALSE /\ c.frames = st.frames
BY DEF DecoderState

\* A decoder's state is what its fields are.
LEMMA DecoderSame ==
  ASSUME NEW s \in DecoderState, NEW t \in DecoderState,
         s.acc = t.acc, s.esc = t.esc, s.frames = t.frames
  PROVE  s = t
BY DEF DecoderState

\* What a byte does.
LEMMA DecodeFacts ==
  ASSUME NEW st \in DecoderState, NEW b \in Byte
  PROVE  /\ Decode(st, b) \in DecoderState
         /\ b = SLIP_END =>
              /\ Decode(st, b).acc = <<>> /\ Decode(st, b).esc = FALSE
              /\ Decode(st, b).frames = IF st.acc = <<>> THEN st.frames ELSE Append(st.frames, st.acc)
         /\ b # SLIP_END => Decode(st, b).frames = st.frames
         /\ b = SLIP_ESC /\ ~st.esc => Decode(st, b).acc = st.acc /\ Decode(st, b).esc = TRUE
         /\ b # SLIP_END /\ ~(b = SLIP_ESC /\ ~st.esc) =>
              /\ Decode(st, b).esc = FALSE
              /\ Decode(st, b).acc = IF Len(st.acc) = FUJITRACE_FRAME_MAX THEN st.acc
                                     ELSE Append(st.acc, IF st.esc THEN Unescaped(b) ELSE b)
<1>1. st.acc \in Seq(Byte) /\ st.esc \in BOOLEAN /\ st.frames \in Seq(Seq(Byte))
  BY DEF DecoderState
<1>0. SLIP_END # SLIP_ESC BY DEF SLIP_END, SLIP_ESC
<1>2. CASE b = SLIP_END
  <2> DEFINE f == IF st.acc = <<>> THEN st.frames ELSE Append(st.frames, st.acc)
  <2>1. f \in Seq(Seq(Byte)) BY <1>1
  <2>2. Decode(st, b) = [acc |-> <<>>, esc |-> FALSE, frames |-> f]
    <3>1. ~(b = SLIP_ESC /\ ~st.esc) BY <1>0, <1>2
    <3>2. QED BY <1>2, <3>1, Zenon DEF Decode
  <2>3. <<>> \in Seq(Byte) BY EmptySeq
  <2> HIDE DEF f
  <2>4. Decode(st, b) \in DecoderState BY <2>1, <2>2, <2>3 DEF DecoderState
  <2>5. Decode(st, b).acc = <<>> /\ Decode(st, b).esc = FALSE /\ Decode(st, b).frames = f
    BY <2>2
  <2>6. QED BY <1>0, <1>2, <2>4, <2>5 DEF f
<1>3. CASE b # SLIP_END /\ b = SLIP_ESC /\ ~st.esc
  <2>1. Decode(st, b) = [st EXCEPT !.esc = TRUE] BY <1>3 DEF Decode
  <2>2. QED BY <1>1, <1>3, <2>1, DecoderSets
<1>4. CASE b # SLIP_END /\ ~(b = SLIP_ESC /\ ~st.esc)
  <2> DEFINE c == IF st.esc THEN Unescaped(b) ELSE b
             a == IF Len(st.acc) = FUJITRACE_FRAME_MAX THEN st.acc ELSE Append(st.acc, c)
  <2>1. c \in Byte BY DEF Byte, Unescaped, SLIP_END, SLIP_ESC, SLIP_ESC_END, SLIP_ESC_ESC
  <2> HIDE DEF c
  <2>2. a \in Seq(Byte) BY <1>1, <2>1
  <2>3. Decode(st, b) = [st EXCEPT !.esc = FALSE, !.acc = a] BY <1>4 DEF Decode, c
  <2> HIDE DEF a
  <2>4. /\ Decode(st, b) \in DecoderState /\ Decode(st, b).acc = a /\ Decode(st, b).esc = FALSE
        /\ Decode(st, b).frames = st.frames
    <3>1. LET d == [st EXCEPT !.esc = FALSE, !.acc = a]
          IN  d \in DecoderState /\ d.acc = a /\ d.esc = FALSE /\ d.frames = st.frames
      BY <1>1, <2>2, DecoderSets
    <3>2. QED BY <2>3, <3>1, Zenon
  <2>5. QED BY <1>4, <2>4 DEF a, c
<1>5. QED BY <1>2, <1>3, <1>4

IsFold(f, st, s) ==
  f = [I \in SUBSET DOMAIN s |-> IF I = {} THEN st ELSE Decode(f[I \ {Max(I)}], s[Max(I)])]

\* The library's fold of the bytes, as the recursion it unfolds to.
LEMMA FoldIs == \A st, s : DecodeAll(st, s) = (CHOOSE f : IsFold(f, st, s))[DOMAIN s]
BY DEF DecodeAll, FoldLeft, MapThenFoldSet, IsFold

\* The decoder's state after any of the bytes exists.
LEMMA FoldExists ==
  ASSUME NEW st \in DecoderState, NEW s \in Seq(Byte)
  PROVE  \E f \in [SUBSET DOMAIN s -> DecoderState] : IsFold(f, st, s)
<1> DEFINE D == SUBSET DOMAIN s
           rank == [I \in D |-> Cardinality(I)]
           pred == [I \in D |-> I \ {Max(I)}]
           first == [I \in D |-> st]
           step == [x \in D \X DecoderState |-> IF x[1] = {} THEN st ELSE Decode(x[2], s[Max(x[1])])]
<1>0. Len(s) \in Nat /\ DOMAIN s = 1..Len(s) /\ IsFiniteSet(DOMAIN s)
  BY FS_Interval
<1>1. \A I \in D : IsFiniteSet(I) /\ Cardinality(I) \in Nat /\ Cardinality(I) <= Cardinality(DOMAIN s)
  BY <1>0, FS_Subset, FS_CardinalityType
<1>2. \A I \in D : I # {} => Max(I) \in I /\ Max(I) \in DOMAIN s
  BY <1>0, MaxIn
<1>3. \A I \in D : I # {} => Cardinality(I \ {Max(I)}) < Cardinality(I)
  <2>1. ASSUME NEW I \in D, I # {} PROVE Cardinality(I \ {Max(I)}) = Cardinality(I) - 1
    BY <1>1, <1>2, <2>1, FS_RemoveElement, Zenon
  <2>2. QED BY <1>1, <2>1
<1>4. rank \in [D -> Nat] /\ pred \in [D -> D] /\ first \in [D -> DecoderState]
  BY <1>1
<1>5. \A I \in D : rank[I] > 0 => rank[pred[I]] < rank[I]
  <2>1. ASSUME NEW I \in D, rank[I] > 0 PROVE I # {}
    <3>1. Cardinality(I) # 0
      <4>1. rank[I] = Cardinality(I) OBVIOUS
      <4>2. QED BY <2>1, <4>1, <1>1
    <3>2. Cardinality({}) = 0 BY FS_EmptySet
    <3>3. QED BY <3>1, <3>2
  <2>2. QED BY <2>1, <1>3
<1>6. step \in [D \X DecoderState -> DecoderState]
  <2>1. ASSUME NEW I \in D, NEW x \in DecoderState
        PROVE  (IF I = {} THEN st ELSE Decode(x, s[Max(I)])) \in DecoderState
    <3>1. I # {} => s[Max(I)] \in Byte BY <1>0, <1>2
    <3>2. QED BY <3>1, DecodeFacts
  <2>2. QED BY <2>1
<1>7. \E N \in Nat : \A I \in D : rank[I] <= N BY <1>0, <1>1, FS_CardinalityType
<1>8. PICK f \in [D -> DecoderState] :
        \A I \in D : f[I] = IF rank[I] = 0 THEN first[I] ELSE step[<<I, f[pred[I]]>>]
  <2>1. Recursive(D, DecoderState, rank, pred, first, step)
    <3> HIDE DEF D, rank, pred, first, step
    <3> QED BY <1>4, <1>5, <1>6, <1>7 DEF Recursive
  <2> HIDE DEF D, rank, pred, first, step
  <2> QED BY <2>1, Recursion
<1>9. ASSUME NEW I \in D PROVE f[I] = IF I = {} THEN st ELSE Decode(f[I \ {Max(I)}], s[Max(I)])
  <2>1. rank[I] = 0 <=> I = {} BY <1>1, FS_EmptySet
  <2>2. I \ {Max(I)} \in D /\ f[I \ {Max(I)}] \in DecoderState BY <1>8
  <2>3. QED BY <1>8, <2>1, <2>2
<1>10. f = [I \in D |-> IF I = {} THEN st ELSE Decode(f[I \ {Max(I)}], s[Max(I)])]
  BY <1>8, <1>9, Zenon
<1>11. QED BY <1>8, <1>10 DEF IsFold

\* The states after a prefix, and the equation between two of them.
LEMMA FoldPrefix ==
  ASSUME NEW f, NEW st, NEW s, NEW n \in Nat, DOMAIN s = 1..n, IsFold(f, st, s)
  PROVE  /\ f[{}] = st
         /\ \A k \in Nat : k + 1 <= n => f[1..(k + 1)] = Decode(f[1..k], s[k + 1])
<1>1. \A I \in SUBSET (1..n) : f[I] = IF I = {} THEN st ELSE Decode(f[I \ {Max(I)}], s[Max(I)])
  <2>1. f = [I \in SUBSET (1..n) |-> IF I = {} THEN st ELSE Decode(f[I \ {Max(I)}], s[Max(I)])]
    BY Zenon DEF IsFold
  <2> QED BY <2>1, Zenon
<1>2. f[{}] = st BY <1>1
<1>3. ASSUME NEW k \in Nat, k + 1 <= n PROVE f[1..(k + 1)] = Decode(f[1..k], s[k + 1])
  <2>1. 1..(k + 1) \in SUBSET (1..n) /\ 1..(k + 1) # {} /\ (1..(k + 1)) \ {k + 1} = 1..k
    BY <1>3
  <2>2. Max(1..(k + 1)) = k + 1 BY MaxUpTo
  <2>3. QED BY <1>1, <2>1, <2>2
<1>4. QED BY <1>2, <1>3

\* Two folds agree for as long as their bytes do.
LEMMA FoldUnique ==
  ASSUME NEW e, NEW f, NEW st, NEW s, NEW t, NEW m \in Nat, NEW n \in Nat,
         DOMAIN s = 1..m, DOMAIN t = 1..n, IsFold(e, st, s), IsFold(f, st, t)
  PROVE  \A k \in Nat : k <= m /\ k <= n /\ (\A i \in 1..k : s[i] = t[i]) => e[1..k] = f[1..k]
<1> DEFINE P == {k \in Nat : k <= m /\ k <= n /\ (\A i \in 1..k : s[i] = t[i]) => e[1..k] = f[1..k]}
<1>1. 0 \in P
  <2>1. 1..0 = {} OBVIOUS
  <2>2. e[{}] = st /\ f[{}] = st BY FoldPrefix
  <2>3. QED BY <2>1, <2>2
<1>2. ASSUME NEW k \in Nat, k \in P PROVE k + 1 \in P
  <2>1. SUFFICES ASSUME k + 1 <= m, k + 1 <= n, \A i \in 1..(k + 1) : s[i] = t[i]
                 PROVE  e[1..(k + 1)] = f[1..(k + 1)]
    OBVIOUS
  <2>2. e[1..k] = f[1..k] BY <1>2, <2>1
  <2>3. /\ e[1..(k + 1)] = Decode(e[1..k], s[k + 1])
        /\ f[1..(k + 1)] = Decode(f[1..k], t[k + 1])
    BY <2>1, FoldPrefix
  <2>4. s[k + 1] = t[k + 1] BY <2>1
  <2>5. QED BY <2>2, <2>3, <2>4, Zenon
<1>3. Nat \subseteq P
  <2> HIDE DEF P
  <2>1. QED BY <1>1, <1>2, EveryNat
<1>4. QED BY <1>3

\* No bytes change nothing.
LEMMA DecodeNone == ASSUME NEW st \in DecoderState PROVE DecodeAll(st, <<>>) = st
<1> DEFINE f == CHOOSE f : IsFold(f, st, <<>>)
<1>1. IsFold(f, st, <<>>)
  <2>1. <<>> \in Seq(Byte) BY EmptySeq
  <2>2. QED BY <2>1, FoldExists
<1> HIDE DEF f
<1>2. DOMAIN <<>> = 1..0 /\ 1..0 = {} OBVIOUS
<1>3. f[{}] = st BY <1>1, <1>2, FoldPrefix
<1>4. QED BY <1>2, <1>3, FoldIs DEF f

\* The last byte is decoded last.
LEMMA DecodeOne ==
  ASSUME NEW st \in DecoderState, NEW s \in Seq(Byte), NEW b \in Byte
  PROVE  DecodeAll(st, Append(s, b)) = Decode(DecodeAll(st, s), b)
<1> DEFINE e == CHOOSE f : IsFold(f, st, s)
           t == Append(s, b)
           f == CHOOSE f : IsFold(f, st, t)
           n == Len(s)
<1>1. /\ n \in Nat /\ DOMAIN s = 1..n /\ t \in Seq(Byte)
      /\ DOMAIN t = 1..(n + 1) /\ t[n + 1] = b
      /\ \A i \in 1..n : t[i] = s[i]
  OBVIOUS
<1>2. IsFold(e, st, s) BY FoldExists
<1>3. IsFold(f, st, t) BY <1>1, FoldExists
<1> HIDE DEF e, f, n, t
<1> PICK m \in Nat : m = n + 1 BY <1>1
<1>4. f[1..(n + 1)] = Decode(f[1..n], b)
  <2>1. DOMAIN t = 1..m BY <1>1
  <2>2. \A k \in Nat : k + 1 <= m => f[1..(k + 1)] = Decode(f[1..k], t[k + 1])
    BY <1>3, <2>1, FoldPrefix
  <2>3. QED BY <1>1, <2>2
<1>5. f[1..n] = e[1..n]
  <2>1. DOMAIN t = 1..m /\ DOMAIN s = 1..n /\ n \in Nat BY <1>1
  <2>2. \A k \in Nat : k <= m /\ k <= n /\ (\A i \in 1..k : t[i] = s[i]) => f[1..k] = e[1..k]
    BY <1>2, <1>3, <2>1, FoldUnique
  <2>3. QED BY <1>1, <2>1, <2>2
<1>6. DecodeAll(st, s) = e[1..n] /\ DecodeAll(st, t) = f[1..(n + 1)]
  <2>1. DecodeAll(st, s) = e[DOMAIN s] BY FoldIs DEF e
  <2>2. DecodeAll(st, t) = f[DOMAIN t] BY FoldIs DEF f
  <2>3. QED BY <1>1, <2>1, <2>2
<1>7. QED BY <1>4, <1>5, <1>6 DEF t

\* Bytes leave the decoder in a state of its own.
LEMMA DecodeAllType ==
  ASSUME NEW st \in DecoderState
  PROVE  \A s \in Seq(Byte) : DecodeAll(st, s) \in DecoderState
<1> DEFINE P == {s \in Seq(Byte) : DecodeAll(st, s) \in DecoderState}
<1>1. <<>> \in P
  <2>1. <<>> \in Seq(Byte) BY EmptySeq
  <2>2. QED BY <2>1, DecodeNone
<1>2. ASSUME NEW s \in Seq(Byte), s \in P, NEW b \in Byte PROVE Append(s, b) \in P
  <2>1. Append(s, b) \in Seq(Byte) OBVIOUS
  <2>2. DecodeAll(st, Append(s, b)) = Decode(DecodeAll(st, s), b) BY DecodeOne
  <2>3. DecodeAll(st, s) \in DecoderState BY <1>2
  <2>4. Decode(DecodeAll(st, s), b) \in DecoderState BY <2>3, DecodeFacts
  <2>5. QED BY <2>1, <2>2, <2>4
<1>3. Seq(Byte) \subseteq P
  <2> HIDE DEF P
  <2>1. QED BY <1>1, <1>2, EverySeq
<1>4. QED BY <1>3

\* It does not matter in how many pieces the bytes come.
LEMMA DecodeJoin ==
  ASSUME NEW st \in DecoderState, NEW s \in Seq(Byte)
  PROVE  \A t \in Seq(Byte) : DecodeAll(st, s \o t) = DecodeAll(DecodeAll(st, s), t)
<1> DEFINE P == {t \in Seq(Byte) : DecodeAll(st, s \o t) = DecodeAll(DecodeAll(st, s), t)}
<1>0. DecodeAll(st, s) \in DecoderState BY DecodeAllType
<1>1. <<>> \in P
  <2>1. <<>> \in Seq(Byte) /\ s \o <<>> = s BY EmptySeq, ConcatEmptySeq
  <2>2. QED BY <1>0, <2>1, DecodeNone
<1>2. ASSUME NEW t \in Seq(Byte), t \in P, NEW b \in Byte PROVE Append(t, b) \in P
  <2>1. s \o t \in Seq(Byte) /\ s \o Append(t, b) = Append(s \o t, b) /\ Append(t, b) \in Seq(Byte)
    OBVIOUS
  <2>2. DecodeAll(st, Append(s \o t, b)) = Decode(DecodeAll(st, s \o t), b)
    BY <2>1, DecodeOne
  <2>3. DecodeAll(DecodeAll(st, s), Append(t, b)) = Decode(DecodeAll(DecodeAll(st, s), t), b)
    BY <1>0, DecodeOne
  <2>4. QED BY <1>2, <2>1, <2>2, <2>3
<1>3. Seq(Byte) \subseteq P
  <2> HIDE DEF P
  <2>1. QED BY <1>1, <1>2, EverySeq
<1>4. QED BY <1>3

\* A body's escaped bytes.
EscapedAll(body) == FlattenSeq([i \in DOMAIN body |-> Escaped(body[i])])

\* What becomes of a byte, none of it the end of a frame.
LEMMA EscapedType ==
  ASSUME NEW b \in Byte
  PROVE  /\ Escaped(b) = IF b = SLIP_END THEN <<SLIP_ESC, SLIP_ESC_END>>
                         ELSE IF b = SLIP_ESC THEN <<SLIP_ESC, SLIP_ESC_ESC>> ELSE <<b>>
         /\ Escaped(b) \in Seq(Byte \ {SLIP_END})
<1>1. SLIP_END # SLIP_ESC BY DEF SLIP_END, SLIP_ESC
<1>2. CASE b = SLIP_END
  <2>1. b # SLIP_ESC BY <1>1, <1>2
  <2>2. Escaped(b) = <<SLIP_ESC, SLIP_ESC_END>> BY <1>2, <2>1, Zenon DEF Escaped
  <2>3. <<SLIP_ESC, SLIP_ESC_END>> \in Seq(Byte \ {SLIP_END})
    BY DEF Byte, SLIP_END, SLIP_ESC, SLIP_ESC_END
  <2>4. QED BY <1>2, <2>2, <2>3
<1>3. CASE b # SLIP_END /\ b = SLIP_ESC
  <2>1. Escaped(b) = <<SLIP_ESC, SLIP_ESC_ESC>> BY <1>3, Zenon DEF Escaped
  <2>2. <<SLIP_ESC, SLIP_ESC_ESC>> \in Seq(Byte \ {SLIP_END})
    BY DEF Byte, SLIP_END, SLIP_ESC, SLIP_ESC_ESC
  <2>3. QED BY <1>3, <2>1, <2>2
<1>4. CASE b # SLIP_END /\ b # SLIP_ESC
  <2>1. Escaped(b) = <<b>> BY <1>4, Zenon DEF Escaped
  <2>2. <<b>> \in Seq(Byte \ {SLIP_END}) BY <1>4
  <2>3. QED BY <1>4, <2>1, <2>2
<1>5. QED BY <1>2, <1>3, <1>4

\* The escapes of a body's bytes, byte by byte.
LEMMA EscapedSeq ==
  ASSUME NEW body \in Seq(Byte)
  PROVE  [i \in DOMAIN body |-> Escaped(body[i])] \in Seq(Seq(Byte \ {SLIP_END}))
<1>1. Len(body) \in Nat /\ DOMAIN body = 1..Len(body) /\ \A i \in 1..Len(body) : body[i] \in Byte
  OBVIOUS
<1>2. \A i \in 1..Len(body) : Escaped(body[i]) \in Seq(Byte \ {SLIP_END}) BY <1>1, EscapedType
<1>3. QED BY <1>1, <1>2, IsASeq

\* An empty body has no bytes to escape.
LEMMA EscapedNone == EscapedAll(<<>>) = <<>>
<1>1. [i \in DOMAIN <<>> |-> Escaped(<<>>[i])] = <<>> OBVIOUS
<1>2. QED BY <1>1, FlattenNone DEF EscapedAll

\* A body grown by a byte is escaped by one escape more.
LEMMA EscapedOne ==
  ASSUME NEW body \in Seq(Byte), NEW b \in Byte
  PROVE  /\ EscapedAll(body) \in Seq(Byte \ {SLIP_END})
         /\ EscapedAll(Append(body, b)) = EscapedAll(body) \o Escaped(b)
<1> DEFINE V == Byte \ {SLIP_END}
           ss == [i \in DOMAIN body |-> Escaped(body[i])]
           tt == [i \in DOMAIN Append(body, b) |-> Escaped(Append(body, b)[i])]
<1>1. ss \in Seq(Seq(V)) /\ tt \in Seq(Seq(V)) /\ Escaped(b) \in Seq(V)
  <2>1. Append(body, b) \in Seq(Byte) OBVIOUS
  <2>2. QED BY <2>1, EscapedSeq, EscapedType
<1>2. tt = Append(ss, Escaped(b))
  <2> DEFINE n == Len(body)
  <2>1. n \in Nat /\ DOMAIN body = 1..n /\ DOMAIN Append(body, b) = 1..(n + 1) OBVIOUS
  <2>2. Len(ss) = n /\ Len(tt) = n + 1
    <3>1. DOMAIN ss = 1..n /\ DOMAIN tt = 1..(n + 1) BY <2>1
    <3> HIDE DEF ss, tt
    <3>2. QED BY <1>1, <2>1, <3>1, LenProperties
  <2>3. \A i \in 1..n : tt[i] = ss[i]
    <3>1. SUFFICES ASSUME NEW i \in 1..n PROVE tt[i] = ss[i] OBVIOUS
    <3>2. Append(body, b)[i] = body[i] /\ i \in DOMAIN body /\ i \in DOMAIN Append(body, b)
      OBVIOUS
    <3>3. QED BY <3>2
  <2>4. tt[n + 1] = Escaped(b)
    <3>1. Append(body, b)[n + 1] = b /\ n + 1 \in DOMAIN Append(body, b) OBVIOUS
    <3>2. QED BY <3>1
  <2>5. Append(ss, Escaped(b)) \in Seq(Seq(V))
    <3> HIDE DEF ss
    <3>1. QED BY <1>1
  <2>6. Len(Append(ss, Escaped(b))) = n + 1 /\ Append(ss, Escaped(b))[n + 1] = Escaped(b)
        /\ \A i \in 1..n : Append(ss, Escaped(b))[i] = ss[i]
    <3> HIDE DEF ss
    <3>1. QED BY <1>1, <2>2
  <2>7. \A i \in 1..(n + 1) : tt[i] = Append(ss, Escaped(b))[i]
    <3>1. \A i \in 1..(n + 1) : i \in 1..n \/ i = n + 1 BY <2>1
    <3> HIDE DEF ss, tt
    <3>2. QED BY <2>3, <2>4, <2>6, <3>1
  <2>8. QED
    <3> HIDE DEF ss, tt
    <3>1. QED BY <1>1, <2>2, <2>5, <2>6, <2>7, SeqEqual
<1>3. EscapedAll(body) = FlattenSeq(ss) /\ EscapedAll(Append(body, b)) = FlattenSeq(tt)
  BY DEF EscapedAll
<1>4. QED
  <2> HIDE DEF ss, tt, V
  <2>1. FlattenSeq(ss) \in Seq(V) /\ FlattenSeq(tt) = FlattenSeq(ss) \o Escaped(b)
    BY <1>1, <1>2, FlattenOne
  <2>2. QED BY <1>3, <2>1 DEF V

\* A body of the trace, cut to what the log keeps, grown by a byte.
LEMMA KeptFacts ==
  ASSUME NEW body \in Seq(Byte)
  PROVE  /\ Kept(body) \in Seq(Byte) /\ (body # <<>> => Kept(body) # <<>>)
         /\ Kept(<<>>) = <<>>
         /\ \A b \in Byte : Kept(Append(body, b)) =
               IF Len(Kept(body)) = FUJITRACE_FRAME_MAX THEN Kept(body) ELSE Append(Kept(body), b)
<1>1. FUJITRACE_FRAME_MAX \in Nat /\ FUJITRACE_FRAME_MAX > 0 BY TraceAssumption
<1>2. Kept(body) \in Seq(Byte) BY <1>1 DEF Kept
<1>3. body # <<>> => Kept(body) # <<>>
  <2>1. body # <<>> => Len(body) > 0 /\ Len(body) \in Nat BY EmptySeq
  <2>2. body # <<>> => Len(Kept(body)) > 0 BY <1>1, <2>1 DEF Kept
  <2>3. QED BY <1>2, <2>2
<1>4. Kept(<<>>) = <<>> BY <1>1 DEF Kept
<1>5. ASSUME NEW b \in Byte
      PROVE  Kept(Append(body, b)) =
               IF Len(Kept(body)) = FUJITRACE_FRAME_MAX THEN Kept(body) ELSE Append(Kept(body), b)
  <2>1. CASE Len(body) < FUJITRACE_FRAME_MAX
    <3>1. Kept(body) = body /\ Len(Append(body, b)) <= FUJITRACE_FRAME_MAX
      BY <1>1, <2>1 DEF Kept
    <3>2. Kept(Append(body, b)) = Append(body, b) BY <1>1, <3>1 DEF Kept
    <3>3. QED BY <2>1, <3>1, <3>2
  <2>2. CASE Len(body) >= FUJITRACE_FRAME_MAX
    <3>1. Kept(body) = SubSeq(body, 1, FUJITRACE_FRAME_MAX) /\ Len(Kept(body)) = FUJITRACE_FRAME_MAX
      BY <1>1, <2>2 DEF Kept
    <3>2. Kept(Append(body, b)) = SubSeq(Append(body, b), 1, FUJITRACE_FRAME_MAX)
      BY <1>1, <2>2 DEF Kept
    <3>3. SubSeq(Append(body, b), 1, FUJITRACE_FRAME_MAX) = SubSeq(body, 1, FUJITRACE_FRAME_MAX)
      BY <1>1, <2>2
    <3>4. QED BY <3>1, <3>2, <3>3
  <2>3. QED BY <1>1, <2>1, <2>2
<1>6. QED BY <1>2, <1>3, <1>4, <1>5

AtRest == [acc |-> <<>>, esc |-> FALSE, frames |-> <<>>]

\* A decoder that has seen nothing is in a state of its own.
LEMMA AtRestType == AtRest \in DecoderState
<1>1. <<>> \in Seq(Byte) /\ <<>> \in Seq(Seq(Byte)) BY EmptySeq
<1>2. QED BY <1>1 DEF AtRest, DecoderState

\* One byte on its own.
LEMMA DecodeSingle ==
  ASSUME NEW st \in DecoderState, NEW b \in Byte
  PROVE  <<b>> \in Seq(Byte) /\ DecodeAll(st, <<b>>) = Decode(st, b)
<1>1. <<>> \in Seq(Byte) /\ Append(<<>>, b) = <<b>> BY EmptySeq
<1>2. DecodeAll(st, Append(<<>>, b)) = Decode(DecodeAll(st, <<>>), b) BY <1>1, DecodeOne
<1>3. <<b>> \in Seq(Byte) OBVIOUS
<1>4. QED BY <1>1, <1>2, <1>3, DecodeNone

\* An escaped byte puts the byte into the frame.
LEMMA DecodeEscaped ==
  ASSUME NEW st \in DecoderState, ~st.esc, NEW b \in Byte
  PROVE  LET d == DecodeAll(st, Escaped(b))
         IN  /\ d \in DecoderState /\ d.esc = FALSE /\ d.frames = st.frames
             /\ d.acc = IF Len(st.acc) = FUJITRACE_FRAME_MAX THEN st.acc ELSE Append(st.acc, b)
<1> DEFINE Put(a, c) == IF Len(a) = FUJITRACE_FRAME_MAX THEN a ELSE Append(a, c)
<1>0. /\ SLIP_END \in Byte /\ SLIP_ESC \in Byte /\ SLIP_ESC_END \in Byte /\ SLIP_ESC_ESC \in Byte
      /\ SLIP_ESC # SLIP_END /\ SLIP_ESC_END # SLIP_END /\ SLIP_ESC_ESC # SLIP_END
      /\ SLIP_ESC_END # SLIP_ESC /\ SLIP_ESC_ESC # SLIP_ESC
      /\ Unescaped(SLIP_ESC_END) = SLIP_END /\ Unescaped(SLIP_ESC_ESC) = SLIP_ESC
  BY DEF Byte, SLIP_END, SLIP_ESC, SLIP_ESC_END, SLIP_ESC_ESC, Unescaped
<1>1. ASSUME NEW c \in {SLIP_ESC_END, SLIP_ESC_ESC}
      PROVE  LET d == DecodeAll(st, <<SLIP_ESC, c>>)
             IN  /\ d \in DecoderState /\ d.esc = FALSE /\ d.frames = st.frames
                 /\ d.acc = Put(st.acc, Unescaped(c))
  <2> DEFINE e == Decode(st, SLIP_ESC)
  <2>1. /\ <<SLIP_ESC>> \in Seq(Byte) /\ Append(<<SLIP_ESC>>, c) = <<SLIP_ESC, c>> /\ c \in Byte
        /\ c # SLIP_END /\ c # SLIP_ESC
    <3>1. c \in Byte /\ c # SLIP_END /\ c # SLIP_ESC BY <1>0
    <3>2. <<SLIP_ESC>> \in Seq(Byte) BY <1>0
    <3>3. Append(<<SLIP_ESC>>, c) = <<SLIP_ESC, c>>
      <4>1. <<SLIP_ESC, c>> \in Seq(Byte) /\ Append(<<SLIP_ESC>>, c) \in Seq(Byte)
        BY <1>0, <3>1, <3>2, AppendProperties
      <4>2. Len(<<SLIP_ESC, c>>) = 2 /\ Len(Append(<<SLIP_ESC>>, c)) = 2 OBVIOUS
      <4>3. /\ <<SLIP_ESC, c>>[1] = SLIP_ESC /\ <<SLIP_ESC, c>>[2] = c
            /\ Append(<<SLIP_ESC>>, c)[1] = SLIP_ESC /\ Append(<<SLIP_ESC>>, c)[2] = c
        OBVIOUS
      <4>4. \A i \in 1..2 : <<SLIP_ESC, c>>[i] = Append(<<SLIP_ESC>>, c)[i]
        <5>1. \A i \in 1..2 : i = 1 \/ i = 2 OBVIOUS
        <5>2. QED BY <4>3, <5>1, Zenon
      <4>5. QED BY <4>1, <4>2, <4>4, SeqEqual
    <3>4. QED BY <3>1, <3>2, <3>3
  <2>2. DecodeAll(st, <<SLIP_ESC, c>>) = Decode(e, c)
    <3>1. DecodeAll(st, <<SLIP_ESC>>) = e BY <1>0, DecodeSingle
    <3>2. DecodeAll(st, Append(<<SLIP_ESC>>, c)) = Decode(DecodeAll(st, <<SLIP_ESC>>), c)
      BY <2>1, DecodeOne
    <3>3. QED BY <2>1, <3>1, <3>2
  <2>3. e \in DecoderState /\ e.acc = st.acc /\ e.esc = TRUE /\ e.frames = st.frames
    BY <1>0, DecodeFacts
  <2> HIDE DEF e
  <2>4. /\ Decode(e, c) \in DecoderState /\ Decode(e, c).esc = FALSE
        /\ Decode(e, c).frames = e.frames
        /\ Decode(e, c).acc = Put(e.acc, IF e.esc THEN Unescaped(c) ELSE c)
    BY <2>1, <2>3, DecodeFacts
  <2>5. QED BY <2>2, <2>3, <2>4
<1>2. CASE b = SLIP_END BY <1>0, <1>1, <1>2, EscapedType
<1>3. CASE b # SLIP_END /\ b = SLIP_ESC BY <1>0, <1>1, <1>3, EscapedType
<1>4. CASE b # SLIP_END /\ b # SLIP_ESC
  <2>1. Escaped(b) = <<b>> /\ DecodeAll(st, <<b>>) = Decode(st, b)
    BY <1>4, EscapedType, DecodeSingle
  <2>2. LET d == Decode(st, b)
        IN  /\ d \in DecoderState /\ d.esc = FALSE /\ d.frames = st.frames
            /\ d.acc = Put(st.acc, IF st.esc THEN Unescaped(b) ELSE b)
    BY <1>4, DecodeFacts
  <2>3. QED BY <2>1, <2>2
<1>5. QED BY <1>2, <1>3, <1>4

\* The first bytes of a frame, up to the end of a byte of its body.
LEMMA DecodeBody ==
  \A body \in Seq(Byte) :
    /\ <<SLIP_END>> \o EscapedAll(body) \in Seq(Byte)
    /\ DecodeAll(AtRest, <<SLIP_END>> \o EscapedAll(body)) =
         [acc |-> Kept(body), esc |-> FALSE, frames |-> <<>>]
<1> DEFINE Begun(body) == <<SLIP_END>> \o EscapedAll(body)
           D(body) == DecodeAll(AtRest, Begun(body))
           P == {body \in Seq(Byte) : /\ Begun(body) \in Seq(Byte) /\ D(body) \in DecoderState
                                      /\ D(body).acc = Kept(body) /\ D(body).esc = FALSE
                                      /\ D(body).frames = <<>>}
<1>0. SLIP_END \in Byte BY DEF Byte, SLIP_END
<1>1. <<>> \in P
  <2>1. <<>> \in Seq(Byte) BY EmptySeq
  <2>2. Begun(<<>>) = <<SLIP_END>>
    <3>1. <<SLIP_END>> \in Seq(Byte) BY <1>0
    <3>2. QED BY <3>1, EscapedNone, ConcatEmptySeq
  <2>3. D(<<>>) = Decode(AtRest, SLIP_END) /\ Begun(<<>>) \in Seq(Byte)
    BY <1>0, <2>2, AtRestType, DecodeSingle
  <2>4. AtRest.acc = <<>> /\ AtRest.frames = <<>> BY DEF AtRest
  <2>5. LET d == Decode(AtRest, SLIP_END)
        IN  d \in DecoderState /\ d.acc = <<>> /\ d.esc = FALSE /\ d.frames = <<>>
    <3>1. \A st \in DecoderState : st.acc = <<>> =>
            LET d == Decode(st, SLIP_END)
            IN  d \in DecoderState /\ d.acc = <<>> /\ d.esc = FALSE /\ d.frames = st.frames
      BY <1>0, DecodeFacts
    <3>2. QED BY <2>4, <3>1, AtRestType, Zenon
  <2>6. Kept(<<>>) = <<>> BY <2>1, KeptFacts
  <2>7. QED
    <3> HIDE DEF D, Begun
    <3>1. QED BY <2>1, <2>3, <2>5, <2>6
<1>2. ASSUME NEW body \in Seq(Byte), body \in P, NEW b \in Byte PROVE Append(body, b) \in P
  <2>1. /\ Append(body, b) \in Seq(Byte)
        /\ EscapedAll(Append(body, b)) = EscapedAll(body) \o Escaped(b)
        /\ EscapedAll(body) \in Seq(Byte) /\ Escaped(b) \in Seq(Byte)
    <3>1. Seq(Byte \ {SLIP_END}) \subseteq Seq(Byte) OBVIOUS
    <3>2. QED BY <3>1, EscapedOne, EscapedType
  <2>2. <<SLIP_END>> \in Seq(Byte) BY <1>0
  <2>3. Begun(Append(body, b)) = Begun(body) \o Escaped(b)
    BY <2>1, <2>2, ConcatAssociative
  <2>4. Begun(body) \in Seq(Byte) /\ D(body) \in DecoderState /\ D(body).acc = Kept(body)
        /\ D(body).esc = FALSE /\ D(body).frames = <<>>
    BY <1>2
  <2>5. D(Append(body, b)) = DecodeAll(D(body), Escaped(b))
    <3> HIDE DEF Begun
    <3>1. DecodeAll(AtRest, Begun(body) \o Escaped(b)) = DecodeAll(DecodeAll(AtRest, Begun(body)), Escaped(b))
      BY <2>1, <2>4, AtRestType, DecodeJoin
    <3>2. QED BY <2>3, <3>1
  <2>6. Begun(Append(body, b)) \in Seq(Byte) BY <2>1, <2>3, <2>4, ConcatProperties
  <2>7. LET d == DecodeAll(D(body), Escaped(b))
        IN  /\ d \in DecoderState /\ d.esc = FALSE /\ d.frames = D(body).frames
            /\ d.acc = IF Len(D(body).acc) = FUJITRACE_FRAME_MAX THEN D(body).acc
                       ELSE Append(D(body).acc, b)
    <3> HIDE DEF D
    <3>1. ~D(body).esc BY <2>4
    <3>2. QED BY <2>4, <3>1, DecodeEscaped
  <2>8. Kept(Append(body, b)) = IF Len(Kept(body)) = FUJITRACE_FRAME_MAX THEN Kept(body)
                                ELSE Append(Kept(body), b)
    BY KeptFacts
  <2>9. QED
    <3> HIDE DEF D, Begun
    <3>1. QED BY <2>1, <2>4, <2>5, <2>6, <2>7, <2>8
<1>3. Seq(Byte) \subseteq P
  <2> HIDE DEF P
  <2>1. QED BY <1>1, <1>2, EverySeq
<1>4. ASSUME NEW body \in Seq(Byte)
      PROVE  D(body) = [acc |-> Kept(body), esc |-> FALSE, frames |-> <<>>]
  <2> DEFINE k == [acc |-> Kept(body), esc |-> FALSE, frames |-> <<>>]
  <2>1. k \in DecoderState
    <3>1. Kept(body) \in Seq(Byte) /\ <<>> \in Seq(Seq(Byte)) BY KeptFacts, EmptySeq
    <3>2. QED BY <3>1 DEF DecoderState
  <2>2. k.acc = Kept(body) /\ k.esc = FALSE /\ k.frames = <<>> OBVIOUS
  <2>3. /\ D(body) \in DecoderState /\ D(body).acc = Kept(body) /\ D(body).esc = FALSE
        /\ D(body).frames = <<>>
    BY <1>3
  <2> HIDE DEF k, D
  <2>4. D(body) = k BY <2>1, <2>2, <2>3, DecoderSame
  <2>5. QED BY <2>4 DEF k
<1>5. QED BY <1>3, <1>4

\* A whole frame, and what of it there is before its last byte.
LEMMA SlipFacts ==
  ASSUME NEW body \in Seq(Byte)
  PROVE  /\ Slip(body) \in Seq(Byte) /\ Len(Slip(body)) >= 2
         /\ \A k \in 2..(Len(Slip(body)) - 1) : Slip(body)[k] # SLIP_END
         /\ Slip(body) = (<<SLIP_END>> \o EscapedAll(body)) \o <<SLIP_END>>
<1> DEFINE V == Byte \ {SLIP_END}
           e == EscapedAll(body)
<1>0. SLIP_END \in Byte BY DEF Byte, SLIP_END
<1>1. e \in Seq(V)
  <2>1. Append(body, SLIP_END) \in Seq(Byte) BY <1>0
  <2>2. QED BY <1>0, EscapedOne
<1>2. Slip(body) = (<<SLIP_END>> \o e) \o <<SLIP_END>> BY DEF Slip, EscapedAll
<1> HIDE DEF e
<1>3. e \in Seq(Byte) /\ Len(e) \in Nat /\ \A i \in 1..Len(e) : e[i] # SLIP_END
  BY <1>1
<1>4. <<SLIP_END>> \in Seq(Byte) /\ Len(<<SLIP_END>>) = 1 BY <1>0
<1> DEFINE f == <<SLIP_END>> \o e
<1>5. /\ f \in Seq(Byte) /\ Len(f) = Len(e) + 1
      /\ \A i \in 2..(Len(e) + 1) : f[i] = e[i - 1]
  BY <1>3, <1>4
<1> HIDE DEF f
<1> DEFINE g == f \o <<SLIP_END>>
<1>6. g \in Seq(Byte) /\ Len(g) = Len(e) + 2 /\ \A i \in 1..(Len(e) + 1) : g[i] = f[i]
  BY <1>3, <1>4, <1>5
<1>7. g = Slip(body) BY <1>2 DEF f
<1> HIDE DEF g
<1>8. \A k \in 2..(Len(g) - 1) : g[k] # SLIP_END
  <2>1. SUFFICES ASSUME NEW k \in 2..(Len(g) - 1) PROVE g[k] # SLIP_END OBVIOUS
  <2>2. k \in 2..(Len(e) + 1) /\ k \in 1..(Len(e) + 1) /\ k - 1 \in 1..Len(e) BY <1>3, <1>6
  <2>3. g[k] = e[k - 1] BY <1>5, <1>6, <2>2
  <2>4. QED BY <1>3, <2>2, <2>3
<1>9. Len(g) >= 2 BY <1>3, <1>6
<1>10. Slip(body) = (<<SLIP_END>> \o EscapedAll(body)) \o <<SLIP_END>> BY <1>2 DEF e
<1>11. g \in Seq(Byte) BY <1>6
<1>12. QED BY <1>7, <1>8, <1>9, <1>10, <1>11, Zenon

\* A whole frame gives its body, cut to what the log keeps, and nothing else.
LEMMA DecodeSlip ==
  ASSUME NEW body \in Seq(Byte), body # <<>>
  PROVE  LET d == DecodeAll(AtRest, Slip(body))
         IN  d \in DecoderState /\ d.acc = <<>> /\ d.esc = FALSE /\ d.frames = <<Kept(body)>>
<1> DEFINE b == <<SLIP_END>> \o EscapedAll(body)
           k == DecodeAll(AtRest, b)
<1>0. SLIP_END \in Byte BY DEF Byte, SLIP_END
<1>1. b \in Seq(Byte) /\ k \in DecoderState BY DecodeBody, AtRestType, DecodeAllType
<1>2. k.acc = Kept(body) /\ k.esc = FALSE /\ k.frames = <<>>
  <2>1. k = [acc |-> Kept(body), esc |-> FALSE, frames |-> <<>>] BY DecodeBody
  <2> HIDE DEF k
  <2>2. QED BY <2>1
<1>3. DecodeAll(AtRest, Slip(body)) = Decode(k, SLIP_END)
  <2>1. Slip(body) = Append(b, SLIP_END)
    <3>1. Slip(body) = b \o <<SLIP_END>> BY SlipFacts
    <3> HIDE DEF b
    <3>2. b \o <<SLIP_END>> = Append(b, SLIP_END) BY <1>0, <1>1, AppendIsConcat
    <3>3. QED BY <3>1, <3>2
  <2> HIDE DEF b
  <2>2. QED BY <1>0, <1>1, <2>1, AtRestType, DecodeOne
<1> HIDE DEF k
<1>4. Kept(body) # <<>> /\ Kept(body) \in Seq(Byte) BY KeptFacts
<1>5. Append(<<>>, Kept(body)) = <<Kept(body)>> OBVIOUS
<1>6. LET d == Decode(k, SLIP_END)
      IN  /\ d \in DecoderState /\ d.acc = <<>> /\ d.esc = FALSE
          /\ d.frames = IF k.acc = <<>> THEN k.frames ELSE Append(k.frames, k.acc)
  BY <1>0, <1>1, DecodeFacts
<1>7. QED BY <1>2, <1>3, <1>4, <1>5, <1>6

\* The decoder after k bytes.
DecodedUpTo(bytes, k) == DecodeAll(AtRest, SubSeq(bytes, 1, k))

\* It gives it with the last byte, and not before.
LEMMA UpToFacts ==
  ASSUME NEW body \in Seq(Byte), body # <<>>
  PROVE  /\ DecodedUpTo(Slip(body), 0) = AtRest
         /\ \A k \in 0..Len(Slip(body)) : DecodedUpTo(Slip(body), k) \in DecoderState
         /\ \A k \in 0..(Len(Slip(body)) - 1) : DecodedUpTo(Slip(body), k).frames = <<>>
         /\ LET d == DecodedUpTo(Slip(body), Len(Slip(body)))
            IN  d.acc = <<>> /\ d.esc = FALSE /\ d.frames = <<Kept(body)>>
<1> DEFINE s == Slip(body)
           L == Len(s)
           P == {k \in Nat : k < L => DecodedUpTo(s, k).frames = <<>>}
<1>0. s \in Seq(Byte) /\ L \in Nat /\ L >= 2 /\ \A k \in 2..(L - 1) : s[k] # SLIP_END
  BY SlipFacts
<1> HIDE DEF s
<1>1. DecodedUpTo(s, 0) = AtRest
  <2>1. SubSeq(s, 1, 0) = <<>> BY <1>0
  <2>2. QED BY <2>1, AtRestType, DecodeNone DEF DecodedUpTo
<1>2. \A k \in 0..L : SubSeq(s, 1, k) \in Seq(Byte) /\ DecodedUpTo(s, k) \in DecoderState
  <2>1. SUFFICES ASSUME NEW k \in 0..L
        PROVE  SubSeq(s, 1, k) \in Seq(Byte) /\ DecodedUpTo(s, k) \in DecoderState
    OBVIOUS
  <2>2. SubSeq(s, 1, k) \in Seq(Byte) BY <1>0
  <2>3. QED BY <2>2, AtRestType, DecodeAllType DEF DecodedUpTo
<1>3. ASSUME NEW k \in Nat, k < L
      PROVE  DecodedUpTo(s, k + 1) = Decode(DecodedUpTo(s, k), s[k + 1]) /\ s[k + 1] \in Byte
  <2>1. s[k + 1] \in Byte /\ SubSeq(s, 1, k + 1) = Append(SubSeq(s, 1, k), s[k + 1])
    BY <1>0, <1>3
  <2>2. SubSeq(s, 1, k) \in Seq(Byte) BY <1>2, <1>3
  <2>3. QED BY <2>1, <2>2, AtRestType, DecodeOne DEF DecodedUpTo
<1>4. 0 \in P
  <2>1. DecodedUpTo(s, 0).frames = <<>> BY <1>1 DEF AtRest
  <2>2. QED BY <2>1
<1>5. ASSUME NEW k \in Nat, k \in P PROVE k + 1 \in P
  <2>1. SUFFICES ASSUME k + 1 < L PROVE DecodedUpTo(s, k + 1).frames = <<>> OBVIOUS
  <2>2. k < L /\ k \in 0..L BY <1>0, <2>1
  <2>3. DecodedUpTo(s, k).frames = <<>> /\ DecodedUpTo(s, k) \in DecoderState
    BY <1>2, <1>5, <2>2
  <2>4. DecodedUpTo(s, k + 1) = Decode(DecodedUpTo(s, k), s[k + 1]) /\ s[k + 1] \in Byte
    BY <1>3, <2>2
  <2>5. CASE k = 0
    <3>1. DecodedUpTo(s, k).acc = <<>> BY <1>1, <2>5 DEF AtRest
    <3>2. \A st \in DecoderState : \A b \in Byte : st.acc = <<>> => Decode(st, b).frames = st.frames
      BY DecodeFacts
    <3>3. QED BY <2>3, <2>4, <3>1, <3>2, Zenon
  <2>6. CASE k > 0
    <3>1. k + 1 \in 2..(L - 1) BY <1>0, <2>1, <2>6
    <3>2. s[k + 1] # SLIP_END BY <1>0, <3>1
    <3>3. \A st \in DecoderState : \A b \in Byte : b # SLIP_END => Decode(st, b).frames = st.frames
      BY DecodeFacts
    <3>4. QED BY <2>3, <2>4, <3>2, <3>3, Zenon
  <2>7. QED BY <2>5, <2>6
<1>6. Nat \subseteq P
  <2> HIDE DEF P
  <2>1. QED BY <1>4, <1>5, EveryNat
<1>7. \A k \in 0..(L - 1) : DecodedUpTo(s, k).frames = <<>> BY <1>0, <1>6
<1>8. LET d == DecodedUpTo(s, L) IN d.acc = <<>> /\ d.esc = FALSE /\ d.frames = <<Kept(body)>>
  <2>1. SubSeq(s, 1, L) = s BY <1>0
  <2>2. QED BY <2>1, DecodeSlip DEF DecodedUpTo, s
<1>9. QED BY <1>1, <1>2, <1>7, <1>8 DEF s

\* How many pieces of K bytes L bytes are.
LEMMA PieceCount ==
  ASSUME NEW L \in Nat, L > 0, NEW K \in Nat, K > 0
  PROVE  LET n == (L + K - 1) \div K
         IN  /\ n \in Nat /\ n > 0 /\ L <= n * K
             /\ \A j \in 0..(n - 1) : j * K \in Nat /\ j * K < L
<1> DEFINE n == (L + K - 1) \div K
<1>1. n \in Nat /\ n * K <= L + K - 1 /\ L + K - 1 < n * K + K
  <2>1. L + K - 1 \in Nat OBVIOUS
  <2>2. \A a \in Nat : a \div K \in Nat /\ (a \div K) * K <= a /\ a < (a \div K) * K + K
    OBVIOUS
  <2>3. QED BY <2>1, <2>2
<1> HIDE DEF n
<1>2. L <= n * K BY <1>1
<1>3. n > 0 BY <1>2, <1>1
<1>4. ASSUME NEW j \in 0..(n - 1) PROVE j * K \in Nat /\ j * K < L
  <2>1. j * K \in Nat /\ n * K \in Nat BY <1>1
  <2>2. j * K + K <= n * K
    <3>1. n - (j + 1) \in Nat BY <1>1
    <3>2. \A x \in Nat : x * K >= 0 OBVIOUS
    <3>3. (n - (j + 1)) * K >= 0 BY <3>1, <3>2
    <3>4. (n - (j + 1)) * K = n * K - (j * K + K) BY <1>1
    <3>5. QED BY <2>1, <3>3, <3>4
  <2>3. QED BY <1>1, <2>1, <2>2
<1>5. QED BY <1>1, <1>2, <1>3, <1>4 DEF n

\* A piece takes the decoder on.
LEMMA PieceFacts ==
  ASSUME NEW body \in Seq(Byte), body # <<>>
  PROVE  LET s == Slip(body)
             n == Len(Pieces(s))
         IN  /\ Pieces(s) \in Seq(Seq(Byte)) /\ n \in Nat /\ n > 0
             /\ \A j \in 0..(n - 1) :
                  LET d == DecodedUpTo(s, j * SlipOut)
                  IN  /\ j * SlipOut \in 0..(Len(s) - 1)
                      /\ d.frames = <<>>
                      /\ DecodeAll([acc |-> d.acc, esc |-> d.esc, frames |-> <<>>], Pieces(s)[j + 1]) =
                           DecodedUpTo(s, IF j < n - 1 THEN (j + 1) * SlipOut ELSE Len(s))
<1> DEFINE s == Slip(body)
           L == Len(s)
           K == SlipOut
           n == (L + K - 1) \div K
           End(i) == IF i * K < L THEN i * K ELSE L
<1>0. s \in Seq(Byte) /\ L \in Nat /\ L > 0 /\ K \in Nat /\ K > 0
  BY SlipFacts, TapAssumption
<1>1. /\ n \in Nat /\ n > 0 /\ L <= n * K
      /\ \A j \in 0..(n - 1) : j * K \in Nat /\ j * K < L
  BY <1>0, PieceCount
<1>2. Pieces(s) = [i \in 1..n |-> SubSeq(s, (i - 1) * K + 1, End(i))]
  BY DEF Pieces
<1>3. /\ \A k \in 0..L : DecodedUpTo(s, k) \in DecoderState /\ SubSeq(s, 1, k) \in Seq(Byte)
      /\ \A k \in 0..(L - 1) : DecodedUpTo(s, k).frames = <<>>
  <2>1. \A k \in 0..L : SubSeq(s, 1, k) \in Seq(Byte) BY <1>0
  <2>2. QED BY <2>1, UpToFacts
<1> HIDE DEF s, n, K
<1>4. ASSUME NEW j \in 0..(n - 1)
      PROVE  /\ j * K \in 0..(L - 1) /\ End(j + 1) \in (j * K)..L
             /\ SubSeq(s, j * K + 1, End(j + 1)) \in Seq(Byte)
             /\ End(j + 1) = IF j < n - 1 THEN (j + 1) * K ELSE L
  <2>1. j * K \in Nat /\ j * K < L BY <1>1
  <2>2. (j + 1) * K \in Nat /\ (j + 1) * K >= j * K BY <1>0, <1>1
  <2>3. CASE j < n - 1
    <3>1. j + 1 \in 0..(n - 1) BY <1>1, <2>3
    <3>2. (j + 1) * K < L BY <1>1, <3>1
    <3>3. End(j + 1) = (j + 1) * K BY <3>2
    <3>4. QED BY <1>0, <2>1, <2>2, <2>3, <3>2, <3>3
  <2>4. CASE j = n - 1
    <3>1. j + 1 = n BY <1>1, <2>4
    <3>2. L <= (j + 1) * K BY <1>1, <3>1
    <3>3. End(j + 1) = L BY <1>0, <2>2, <3>2
    <3>4. QED BY <1>0, <2>1, <2>4, <3>3
  <2>5. QED BY <1>1, <2>3, <2>4
<1>5. Pieces(s) \in Seq(Seq(Byte)) /\ Len(Pieces(s)) = n
  <2>1. ASSUME NEW i \in 1..n PROVE SubSeq(s, (i - 1) * K + 1, End(i)) \in Seq(Byte)
    <3>1. i - 1 \in 0..(n - 1) /\ (i - 1) + 1 = i BY <1>1
    <3> DEFINE j == i - 1
    <3>2. SubSeq(s, j * K + 1, End(j + 1)) \in Seq(Byte)
      <4> HIDE DEF j, End
      <4>1. j \in 0..(n - 1) BY <3>1 DEF j
      <4>2. QED BY <1>4, <4>1
    <3>3. End(j + 1) = End(i) BY <3>1
    <3>4. QED BY <3>2, <3>3
  <2> DEFINE cut == [i \in 1..n |-> SubSeq(s, (i - 1) * K + 1, End(i))]
  <2>2. cut \in Seq(Seq(Byte))
    <3> HIDE DEF End
    <3>1. QED BY <1>1, <2>1, IsASeq
  <2>3. DOMAIN cut = 1..n OBVIOUS
  <2> HIDE DEF cut
  <2>4. Len(cut) = n BY <1>1, <2>2, <2>3, LenProperties
  <2>5. QED BY <1>2, <2>2, <2>4 DEF cut
<1>6. ASSUME NEW j \in 0..(n - 1)
      PROVE  LET d == DecodedUpTo(s, j * K)
             IN  DecodeAll([acc |-> d.acc, esc |-> d.esc, frames |-> <<>>], Pieces(s)[j + 1]) =
                   DecodedUpTo(s, End(j + 1))
  <2> DEFINE m == j * K
             e == End(j + 1)
             d == DecodedUpTo(s, m)
             piece == SubSeq(s, m + 1, e)
  <2>1. m \in 0..(L - 1) /\ e \in m..L /\ piece \in Seq(Byte) BY <1>4
  <2>2. Pieces(s)[j + 1] = piece
    <3>1. j + 1 \in 1..n /\ (j + 1) - 1 = j BY <1>1
    <3> HIDE DEF End
    <3>2. QED BY <1>2, <3>1
  <2> HIDE DEF m, e
  <2>3. [acc |-> d.acc, esc |-> d.esc, frames |-> <<>>] = d
    <3>1. d \in DecoderState /\ d.frames = <<>> BY <1>0, <1>3, <2>1
    <3> HIDE DEF d
    <3>2. d = [acc |-> d.acc, esc |-> d.esc, frames |-> d.frames] BY <3>1 DEF DecoderState
    <3>3. QED BY <3>1, <3>2
  <2>4. SubSeq(s, 1, e) = SubSeq(s, 1, m) \o piece
    <3>1. 1 \in 1..(Len(s) + 1) /\ m \in (1 - 1)..Len(s) /\ e \in m..Len(s) BY <1>0, <2>1
    <3>2. QED BY <1>0, <3>1, ConcatAdjacentSubSeq
  <2>5. SubSeq(s, 1, m) \in Seq(Byte) BY <1>0, <1>3, <2>1
  <2>6. DecodedUpTo(s, e) = DecodeAll(d, piece)
    <3> HIDE DEF piece
    <3>1. DecodeAll(AtRest, SubSeq(s, 1, m) \o piece) = DecodeAll(DecodeAll(AtRest, SubSeq(s, 1, m)), piece)
      BY <2>1, <2>5, AtRestType, DecodeJoin
    <3>2. QED BY <2>4, <3>1, Zenon DEF DecodedUpTo
  <2>7. QED BY <2>2, <2>3, <2>6 DEF m, e
<1>7. QED
  <2>1. ASSUME NEW j \in 0..(n - 1)
        PROVE  LET d == DecodedUpTo(s, j * K)
               IN  /\ j * K \in 0..(L - 1)
                   /\ d.frames = <<>>
                   /\ DecodeAll([acc |-> d.acc, esc |-> d.esc, frames |-> <<>>], Pieces(s)[j + 1]) =
                        DecodedUpTo(s, IF j < n - 1 THEN (j + 1) * K ELSE L)
    <3>1. j * K \in 0..(L - 1) /\ End(j + 1) = IF j < n - 1 THEN (j + 1) * K ELSE L BY <1>4
    <3>2. DecodedUpTo(s, j * K).frames = <<>> BY <1>3, <3>1
    <3> HIDE DEF End
    <3>3. QED BY <1>6, <3>1, <3>2
  <2>2. QED BY <1>1, <1>5, <2>1 DEF s, K

HalfWay(body, j) ==
  LET all == Pieces(Slip(body))
      st  == DecodedUpTo(Slip(body), j * SlipOut)
  IN  /\ tapping = [to_host |-> TRUE, data |-> body]
      /\ pieces = SubSeq(all, j + 1, Len(all))
      /\ acc[TRUE] = st.acc /\ esc[TRUE] = st.esc
DecoderInv ==
  /\ acc \in [BOOLEAN -> Seq(Byte)] /\ esc \in [BOOLEAN -> BOOLEAN]
  /\ acc[FALSE] = <<>> /\ ~esc[FALSE]
  /\ \/ tapping = NoFrame /\ acc[TRUE] = <<>> /\ ~esc[TRUE]
     \/ \E body \in Received : \E j \in 0..(Len(Pieces(Slip(body))) - 1) : HalfWay(body, j)

\* What a step of the tap does to the decoder and the log: nothing is added, or
\* just the frame that is over.
AddsFrame(f) == add([f EXCEPT !.data = Kept(@)]) /\ Handed(f)
AddsNone == UNCHANGED log /\ UNCHANGED happened

\* The bodies tapped are of bytes, and not empty.
LEMMA BodyFacts ==
  ASSUME NEW body \in Sent \cup Received PROVE body \in Seq(Byte) /\ body # <<>>
BY TapAssumption DEF Byte

\* A frame for the host is never the one that stands for none.
LEMMA NotNoFrame == \A body : [to_host |-> TRUE, data |-> body] # NoFrame
<1>1. SUFFICES ASSUME NEW body, [to_host |-> TRUE, data |-> body] = NoFrame PROVE FALSE OBVIOUS
<1>2. [to_host |-> TRUE, data |-> body].to_host = TRUE OBVIOUS
<1>3. NoFrame.to_host = FALSE BY DEF NoFrame
<1>4. QED BY <1>1, <1>2, <1>3

\* A frame as the log keeps it.
LEMMA CutFrame ==
  ASSUME NEW to, NEW body
  PROVE  [[to_host |-> to, data |-> body] EXCEPT !.data = Kept(@)] = [to_host |-> to, data |-> Kept(body)]
OBVIOUS

\* A request handed over in one piece is added, and the decoder is done with it.
LEMMA SentStep ==
  ASSUME DecoderInv, NEW body \in Sent, trace_sent(body)
  PROVE  DecoderInv' /\ AddsFrame([to_host |-> FALSE, data |-> body])
<1> DEFINE st == Decoded(FALSE, Slip(body))
<1>1. body \in Seq(Byte) /\ body # <<>> BY BodyFacts
<1>2. acc[FALSE] = <<>> /\ esc[FALSE] = FALSE BY DEF DecoderInv
<1>3. st.acc = <<>> /\ st.esc = FALSE /\ st.frames = <<Kept(body)>>
  <2>1. st = DecodeAll(AtRest, Slip(body)) BY <1>2 DEF Decoded, DecodeAll, AtRest
  <2>2. QED BY <1>1, <2>1, DecodeSlip
<1>4. /\ acc' = [to \in BOOLEAN |-> IF to = FALSE THEN st.acc ELSE IF to THEN <<>> ELSE acc[to]]
      /\ esc' = [to \in BOOLEAN |-> IF to = FALSE THEN st.esc ELSE ~to /\ esc[to]]
      /\ IF st.frames = <<>> THEN UNCHANGED log
         ELSE add([to_host |-> FALSE, data |-> st.frames[1]])
      /\ tapping = NoFrame /\ tapping' = NoFrame
      /\ Handed([to_host |-> FALSE, data |-> body])
  BY DEF trace_sent, fujitrace_feed
<1> HIDE DEF st
<1>5. DecoderInv'
  <2>1. <<>> \in Seq(Byte) BY EmptySeq
  <2>2. acc'[FALSE] = <<>> /\ acc'[TRUE] = <<>> /\ acc' \in [BOOLEAN -> Seq(Byte)]
    BY <1>3, <1>4, <2>1
  <2>3. ~esc'[FALSE] /\ ~esc'[TRUE] /\ esc' \in [BOOLEAN -> BOOLEAN]
    BY <1>3, <1>4
  <2>4. QED BY <1>4, <2>2, <2>3 DEF DecoderInv
<1>6. add([to_host |-> FALSE, data |-> Kept(body)])
  <2>1. <<Kept(body)>> # <<>> /\ <<Kept(body)>>[1] = Kept(body) OBVIOUS
  <2>2. QED BY <1>3, <1>4, <2>1
<1>7. QED BY <1>4, <1>5, <1>6, CutFrame DEF AddsFrame

\* A frame about to be handed over changes nothing yet.
LEMMA ReceivedStep ==
  ASSUME DecoderInv, NEW body \in Received, trace_received(body)
  PROVE  DecoderInv' /\ AddsNone
<1>1. body \in Seq(Byte) /\ body # <<>> BY BodyFacts
<1> DEFINE all == Pieces(Slip(body))
<1>2. all \in Seq(Seq(Byte)) /\ Len(all) \in Nat /\ Len(all) > 0 BY <1>1, PieceFacts
<1>3. /\ tapping = NoFrame /\ tapping' = [to_host |-> TRUE, data |-> body] /\ pieces' = all
      /\ UNCHANGED <<log, acc, esc, happened>>
  BY DEF trace_received, decoder
<1>4. acc[TRUE] = <<>> /\ ~esc[TRUE] BY <1>3, NotNoFrame DEF DecoderInv, HalfWay
<1>5. DecodedUpTo(Slip(body), 0 * SlipOut).acc = <<>> /\ DecodedUpTo(Slip(body), 0 * SlipOut).esc = FALSE
  <2>1. 0 * SlipOut = 0 BY TapAssumption
  <2>2. DecodedUpTo(Slip(body), 0) = AtRest BY <1>1, UpToFacts
  <2>3. QED BY <2>1, <2>2 DEF AtRest
<1>6. SubSeq(all, 0 + 1, Len(all)) = all
  <2> HIDE DEF all
  <2>1. QED BY <1>2, SubSeqFull
<1>7. esc[TRUE] = FALSE BY <1>4 DEF DecoderInv
<1>8. HalfWay(body, 0)' BY <1>3, <1>4, <1>5, <1>6, <1>7 DEF HalfWay
<1>9. 0 \in 0..(Len(all) - 1) BY <1>2
<1>10. DecoderInv' BY <1>3, <1>8, <1>9 DEF DecoderInv
<1>11. QED BY <1>3, <1>10 DEF AddsNone

\* A piece adds nothing, but for the last one, which adds the frame.
LEMMA PieceStep ==
  ASSUME DecoderInv, s_trace
  PROVE  /\ DecoderInv'
         /\ AddsNone \/ \E body \in Received : AddsFrame([to_host |-> TRUE, data |-> body])
<1>0. tapping # NoFrame BY DEF s_trace
<1> PICK body \in Received : \E j \in 0..(Len(Pieces(Slip(body))) - 1) : HalfWay(body, j)
  BY <1>0 DEF DecoderInv
<1> PICK j \in 0..(Len(Pieces(Slip(body))) - 1) : HalfWay(body, j)
  OBVIOUS
<1> DEFINE s == Slip(body)
           all == Pieces(s)
           n == Len(all)
           d == DecodedUpTo(s, j * SlipOut)
           st == Decoded(TRUE, Head(pieces))
           e == IF j < n - 1 THEN (j + 1) * SlipOut ELSE Len(s)
<1>1. body \in Seq(Byte) /\ body # <<>> BY BodyFacts
<1>2. /\ all \in Seq(Seq(Byte)) /\ n \in Nat /\ n > 0 /\ j \in 0..(n - 1)
      /\ d.frames = <<>>
      /\ DecodeAll([acc |-> d.acc, esc |-> d.esc, frames |-> <<>>], all[j + 1]) = DecodedUpTo(s, e)
  BY <1>1, PieceFacts
<1>3. /\ tapping = [to_host |-> TRUE, data |-> body]
      /\ pieces = SubSeq(all, j + 1, n) /\ acc[TRUE] = d.acc /\ esc[TRUE] = d.esc
  BY DEF HalfWay
<1> HIDE DEF all
<1>4. /\ pieces \in Seq(Seq(Byte)) /\ Len(pieces) = n - j /\ Head(pieces) = all[j + 1]
      /\ j < n - 1 => Tail(pieces) = SubSeq(all, j + 2, n)
  <2>1. j + 1 \in 1..n /\ n \in (j + 1)..n BY <1>2
  <2>2. pieces \in Seq(Seq(Byte)) /\ Len(pieces) = n - j BY <1>2, <1>3
  <2>3. Head(pieces) = all[j + 1] /\ Tail(pieces) = SubSeq(all, (j + 1) + 1, n)
    BY <1>2, <1>3, <2>1, HeadTailOfSubSeq
  <2>4. (j + 1) + 1 = j + 2 OBVIOUS
  <2>5. QED BY <2>2, <2>3, <2>4
<1>5. st = DecodedUpTo(s, e)
  <2>1. st = DecodeAll([acc |-> d.acc, esc |-> d.esc, frames |-> <<>>], all[j + 1])
    BY <1>3, <1>4 DEF Decoded, DecodeAll
  <2>2. QED BY <1>2, <2>1
<1>6. /\ acc' = [to \in BOOLEAN |-> IF to = TRUE THEN st.acc ELSE IF to THEN <<>> ELSE acc[to]]
      /\ esc' = [to \in BOOLEAN |-> IF to = TRUE THEN st.esc ELSE ~to /\ esc[to]]
      /\ IF st.frames = <<>> THEN UNCHANGED log
         ELSE add([to_host |-> TRUE, data |-> st.frames[1]])
      /\ IF Len(pieces) > 1
         THEN pieces' = Tail(pieces) /\ tapping' = tapping /\ happened' = happened
         ELSE pieces' = <<>> /\ tapping' = NoFrame /\ Handed(tapping)
  BY DEF s_trace, fujitrace_feed
<1>7. st \in DecoderState
  <2>1. e \in 0..Len(s)
    <3>1. CASE j < n - 1
      <4>1. (j + 1) * SlipOut \in 0..(Len(s) - 1)
        <5>1. j + 1 \in 0..(n - 1) BY <1>2, <3>1
        <5>2. QED BY <1>1, <5>1, PieceFacts DEF all
      <4>2. QED BY <3>1, <4>1
    <3>2. CASE ~(j < n - 1)
      <4>1. Len(s) \in Nat BY <1>1, SlipFacts
      <4>2. QED BY <3>2, <4>1
    <3>3. QED BY <3>1, <3>2
  <2> HIDE DEF e, s
  <2>2. QED BY <1>1, <1>5, <2>1, UpToFacts DEF s
<1> HIDE DEF st
<1>8. /\ acc' \in [BOOLEAN -> Seq(Byte)] /\ acc'[FALSE] = <<>> /\ acc'[TRUE] = st.acc
      /\ esc' \in [BOOLEAN -> BOOLEAN] /\ ~esc'[FALSE] /\ esc'[TRUE] = st.esc
  <2>1. st.acc \in Seq(Byte) /\ st.esc \in BOOLEAN BY <1>7 DEF DecoderState
  <2>2. acc \in [BOOLEAN -> Seq(Byte)] /\ esc \in [BOOLEAN -> BOOLEAN]
        /\ acc[FALSE] = <<>> /\ ~esc[FALSE]
    BY DEF DecoderInv
  <2>3. acc' \in [BOOLEAN -> Seq(Byte)] /\ acc'[FALSE] = <<>> /\ acc'[TRUE] = st.acc
    BY <1>6, <2>1, <2>2
  <2>4. esc' \in [BOOLEAN -> BOOLEAN] /\ ~esc'[FALSE] /\ esc'[TRUE] = st.esc
    BY <1>6, <2>1, <2>2
  <2>5. QED BY <2>3, <2>4
<1>9. CASE j < n - 1
  <2>1. Len(pieces) > 1 BY <1>2, <1>4, <1>9
  <2>2. pieces' = SubSeq(all, j + 2, n) /\ tapping' = tapping /\ happened' = happened
    BY <1>4, <1>6, <1>9, <2>1
  <2>3. j + 1 \in 0..(n - 1) /\ (j + 1) + 1 = j + 2
    <3>1. n \in Nat /\ j \in 0..(n - 1) BY <1>2
    <3> HIDE DEF n
    <3>2. QED BY <1>9, <3>1
  <2>4. st = DecodedUpTo(s, (j + 1) * SlipOut) BY <1>5, <1>9
  <2>5. st.frames = <<>> BY <1>1, <2>3, <2>4, PieceFacts DEF all
  <2>6. HalfWay(body, j + 1)' BY <1>3, <1>8, <2>2, <2>3, <2>4 DEF HalfWay, all
  <2>7. DecoderInv' BY <1>8, <2>3, <2>6 DEF DecoderInv, all
  <2>8. QED BY <1>6, <2>2, <2>5, <2>7 DEF AddsNone
<1>10. CASE j = n - 1
  <2>1. ~(Len(pieces) > 1) BY <1>2, <1>4, <1>10
  <2>2. tapping' = NoFrame /\ Handed(tapping) BY <1>6, <2>1
  <2>3. st = DecodedUpTo(s, Len(s)) BY <1>2, <1>5, <1>10
  <2>4. st.acc = <<>> /\ st.esc = FALSE /\ st.frames = <<Kept(body)>>
    BY <1>1, <2>3, UpToFacts
  <2>5. <<Kept(body)>> # <<>> /\ <<Kept(body)>>[1] = Kept(body) OBVIOUS
  <2>6. add([to_host |-> TRUE, data |-> Kept(body)]) BY <1>6, <2>4, <2>5
  <2>7. AddsFrame([to_host |-> TRUE, data |-> body]) BY <1>3, <2>2, <2>6, CutFrame DEF AddsFrame
  <2>8. DecoderInv' BY <1>8, <2>2, <2>4 DEF DecoderInv
  <2>9. QED BY <2>7, <2>8
<1>11. j < n - 1 \/ j = n - 1 BY <1>2
<1>12. QED BY <1>9, <1>10, <1>11, Zenon

CountInv ==
  /\ ring \in Seq(Entry(Packet)) /\ serial \in Nat
  /\ packets \in [BOOLEAN -> Nat]
  /\ dropped \in [Packet -> Nat] /\ happened \in [Packet -> Nat]
  /\ pending => LET n == Len(ring)
                IN  n >= 3 /\ ring[n].repeat = 1 /\ ring[n - 2].pkt = ring[n].pkt
  /\ CountsAreTrue

\* What the log claims of a packet is a number.
LEMMA ClaimType ==
  ASSUME NEW r \in Seq(Entry(Packet)), NEW p
  PROVE  /\ IsFiniteSet({i \in DOMAIN r : r[i].pkt = p})
         /\ \A i \in DOMAIN r : r[i].repeat \in Nat
         /\ ClaimedIn(r, p) \in Nat
<1> DEFINE S == {i \in DOMAIN r : r[i].pkt = p}
           g == [i \in DOMAIN r |-> r[i].repeat]
<1>1. IsFiniteSet(S)
  <2>1. Len(r) \in Nat /\ DOMAIN r = 1..Len(r) OBVIOUS
  <2>2. IsFiniteSet(1..Len(r)) BY <2>1, FS_Interval
  <2>3. S \subseteq 1..Len(r) BY <2>1
  <2>4. QED BY <2>2, <2>3, FS_Subset
<1>2. \A i \in DOMAIN r : r[i].repeat \in Nat
  <2>1. \A i \in DOMAIN r : r[i] \in Entry(Packet) OBVIOUS
  <2>2. QED BY <2>1 DEF Entry
<1>3. \A i \in S : g[i] \in Nat BY <1>2
<1>4. SumFunctionOnSet(g, S) \in Nat
  <2> HIDE DEF g, S
  <2>1. QED BY <1>1, <1>3, SumType
<1>5. QED BY <1>1, <1>2, <1>4 DEF ClaimedIn

\* An empty log claims nothing.
LEMMA ClaimNone == \A p : ClaimedIn(<<>>, p) = 0
<1>1. \A p : {i \in DOMAIN <<>> : <<>>[i].pkt = p} = {} OBVIOUS
<1>2. QED BY <1>1, SumEmpty DEF ClaimedIn

\* An entry more is claimed as often as it says.
LEMMA ClaimAppend ==
  ASSUME NEW r \in Seq(Entry(Packet)), NEW e \in Entry(Packet), NEW p
  PROVE  ClaimedIn(Append(r, e), p) = ClaimedIn(r, p) + IF e.pkt = p THEN e.repeat ELSE 0
<1> DEFINE t == Append(r, e)
           n == Len(r)
           S == {i \in DOMAIN r : r[i].pkt = p}
           T == {i \in DOMAIN t : t[i].pkt = p}
           g == [i \in DOMAIN r |-> r[i].repeat]
           h == [i \in DOMAIN t |-> t[i].repeat]
<1>1. /\ t \in Seq(Entry(Packet)) /\ n \in Nat /\ DOMAIN r = 1..n /\ DOMAIN t = 1..(n + 1)
      /\ t[n + 1] = e /\ \A i \in 1..n : t[i] = r[i]
  OBVIOUS
<1> HIDE DEF t, n
<1>2. IsFiniteSet(S) /\ IsFiniteSet(T) /\ (\A i \in DOMAIN r : g[i] \in Nat) /\ (\A i \in DOMAIN t : h[i] \in Nat)
  <2>1. IsFiniteSet(S) /\ \A i \in DOMAIN r : r[i].repeat \in Nat BY ClaimType
  <2>2. IsFiniteSet(T) /\ \A i \in DOMAIN t : t[i].repeat \in Nat BY <1>1, ClaimType
  <2>3. QED BY <2>1, <2>2
<1>3. \A i \in S : h[i] = g[i] /\ g[i] \in Nat BY <1>1, <1>2
<1>4. SumFunctionOnSet(g, S) = SumFunctionOnSet(h, S)
  <2> HIDE DEF g, h, S
  <2>1. QED BY <1>2, <1>3, SumAgrees
<1>5. CASE e.pkt = p
  <2>1. n + 1 \in T /\ T \ {n + 1} = S BY <1>1, <1>5
  <2>2. h[n + 1] = e.repeat BY <1>1
  <2>3. \A i \in T : h[i] \in Nat BY <1>2
  <2>4. SumFunctionOnSet(h, T) = h[n + 1] + SumFunctionOnSet(h, T \ {n + 1})
    <3> HIDE DEF h, T
    <3>1. QED BY <1>2, <2>1, <2>3, SumAdds
  <2>5. SumFunctionOnSet(h, T) = e.repeat + SumFunctionOnSet(g, S)
    <3> HIDE DEF h, T, S, g
    <3>1. QED BY <1>4, <2>1, <2>2, <2>4
  <2>6. ClaimedIn(t, p) = e.repeat + ClaimedIn(r, p) BY <2>5 DEF ClaimedIn
  <2>7. e.repeat \in Nat /\ ClaimedIn(r, p) \in Nat BY ClaimType DEF Entry
  <2>8. QED BY <1>5, <2>6, <2>7 DEF t
<1>6. CASE e.pkt # p
  <2>1. T = S BY <1>1, <1>6
  <2>2. ClaimedIn(t, p) = ClaimedIn(r, p) BY <1>4, <2>1 DEF ClaimedIn
  <2>3. ClaimedIn(r, p) \in Nat BY ClaimType
  <2>4. QED BY <1>6, <2>2, <2>3 DEF t
<1>7. QED BY <1>5, <1>6

\* And one let go no more.
LEMMA ClaimTail ==
  ASSUME NEW r \in Seq(Entry(Packet)), r # <<>>, NEW p
  PROVE  ClaimedIn(r, p) = ClaimedIn(Tail(r), p) + IF r[1].pkt = p THEN r[1].repeat ELSE 0
<1> DEFINE t == Tail(r)
           n == Len(r)
           S == {i \in DOMAIN r : r[i].pkt = p}
           R == S \ {1}
           T == {i \in DOMAIN t : t[i].pkt = p}
           g == [i \in DOMAIN r |-> r[i].repeat]
           h == [i \in DOMAIN t |-> t[i].repeat]
           m == [i \in R |-> i - 1]
<1>1. /\ t \in Seq(Entry(Packet)) /\ n \in Nat /\ n > 0 /\ DOMAIN r = 1..n /\ DOMAIN t = 1..(n - 1)
      /\ \A i \in 1..(n - 1) : t[i] = r[i + 1]
  <2>1. n \in Nat /\ n > 0 /\ DOMAIN r = 1..n BY EmptySeq
  <2>2. t \in Seq(Entry(Packet)) /\ Len(t) = n - 1 /\ \A i \in 1..Len(t) : t[i] = r[i + 1]
    BY HeadTailProperties
  <2>3. DOMAIN t = 1..Len(t) BY <2>2
  <2>4. QED BY <2>1, <2>2, <2>3
<1> HIDE DEF t, n
<1>2. IsFiniteSet(S) /\ IsFiniteSet(R) /\ \A i \in S : g[i] \in Nat
  <2>1. IsFiniteSet(S) /\ \A i \in DOMAIN r : r[i].repeat \in Nat BY ClaimType
  <2>2. IsFiniteSet(R)
    <3> HIDE DEF S
    <3>1. QED BY <2>1, FS_RemoveElement
  <2>3. QED BY <2>1, <2>2
<1>3. {m[i] : i \in R} = T
  <2>1. \A i \in R : m[i] \in T BY <1>1
  <2>2. ASSUME NEW k \in T PROVE \E i \in R : k = m[i]
    <3>1. k + 1 \in R /\ k = (k + 1) - 1 BY <1>1
    <3>2. QED BY <3>1
  <2> HIDE DEF m, R, T
  <2>3. QED BY <2>1, <2>2
<1>4. \A i \in R : g[i] \in Nat /\ h[m[i]] = g[i]
  <2>1. ASSUME NEW i \in R PROVE h[i - 1] = g[i]
    <3>1. i - 1 \in 1..(n - 1) /\ (i - 1) + 1 = i BY <1>1
    <3>2. QED BY <1>1, <3>1
  <2>2. QED BY <1>2, <2>1
<1>5. \A i, k \in R : m[i] = m[k] => i = k BY <1>1
<1>6. SumFunctionOnSet(h, T) = SumFunctionOnSet(g, R)
  <2> HIDE DEF g, h, m, R, T
  <2>1. Moves(m, g, R, h, T) BY <1>2, <1>3, <1>4, <1>5, Zenon DEF Moves
  <2>2. QED BY <2>1, SumMoves
<1>7. CASE r[1].pkt = p
  <2>1. 1 \in S /\ g[1] = r[1].repeat /\ r[1].repeat \in Nat BY <1>1, <1>2, <1>7
  <2>2. SumFunctionOnSet(g, S) = g[1] + SumFunctionOnSet(g, S \ {1})
    <3> HIDE DEF g, S
    <3>1. QED BY <1>2, <2>1, SumAdds
  <2>3. ClaimedIn(r, p) = r[1].repeat + ClaimedIn(t, p) BY <1>6, <2>1, <2>2 DEF ClaimedIn
  <2>4. ClaimedIn(t, p) \in Nat BY <1>1, ClaimType
  <2>5. QED BY <1>7, <2>1, <2>3, <2>4 DEF t
<1>8. CASE r[1].pkt # p
  <2>1. S = R BY <1>8
  <2>2. ClaimedIn(r, p) = ClaimedIn(t, p) BY <1>6, <2>1 DEF ClaimedIn
  <2>3. ClaimedIn(t, p) \in Nat BY <1>1, ClaimType
  <2>4. QED BY <1>8, <2>2, <2>3 DEF t
<1>9. QED BY <1>7, <1>8

BumpedFrom(r, t, at) ==
  /\ t \in Seq(Entry(Packet)) /\ Len(t) = Len(r)
  /\ t[at].pkt = r[at].pkt /\ t[at].repeat = r[at].repeat + 1
  /\ \A i \in DOMAIN r : i # at => t[i] = r[i]

\* Bump counts one repeat more at its entry, and leaves the packets alone.
LEMMA BumpCounts ==
  ASSUME NEW r \in Seq(Entry(Packet)), NEW back \in Nat, back < Len(r), NEW s \in Nat
  PROVE  BumpedFrom(r, Bump(r, back, s), Len(r) - back)
BY BumpFacts DEF BumpedFrom

\* An entry of which only the count and the serial change.
LEMMA BumpClaims ==
  ASSUME NEW r \in Seq(Entry(Packet)), NEW t, NEW at \in DOMAIN r, BumpedFrom(r, t, at), NEW p
  PROVE  ClaimedIn(t, p) = ClaimedIn(r, p) + IF r[at].pkt = p THEN 1 ELSE 0
<1> DEFINE S == {i \in DOMAIN r : r[i].pkt = p}
           T == {i \in DOMAIN t : t[i].pkt = p}
           g == [i \in DOMAIN r |-> r[i].repeat]
           h == [i \in DOMAIN t |-> t[i].repeat]
<1>0. /\ t \in Seq(Entry(Packet)) /\ Len(t) = Len(r) /\ at \in DOMAIN r
      /\ t[at].pkt = r[at].pkt /\ t[at].repeat = r[at].repeat + 1
      /\ \A i \in DOMAIN r : i # at => t[i] = r[i]
  BY DEF BumpedFrom
<1>1. DOMAIN t = DOMAIN r BY <1>0
<1>2. T = S BY <1>0, <1>1
<1>3. IsFiniteSet(S) /\ \A i \in S : g[i] \in Nat
  <2>1. IsFiniteSet(S) /\ \A i \in DOMAIN r : r[i].repeat \in Nat BY ClaimType
  <2>2. QED BY <2>1
<1>4. \A i \in S : h[i] = IF i = at THEN g[i] + 1 ELSE g[i] BY <1>0, <1>1
<1>5. CASE r[at].pkt = p
  <2>1. at \in S /\ 1 \in Nat BY <1>5
  <2>2. SumFunctionOnSet(h, S) = SumFunctionOnSet(g, S) + 1
    <3>1. (\A i \in S : i # at => h[i] = g[i]) /\ h[at] = g[at] + 1 BY <1>4, <2>1
    <3> HIDE DEF g, h, S
    <3>2. QED BY <1>3, <2>1, <3>1, SumChanges
  <2>3. QED BY <1>2, <1>5, <2>2 DEF ClaimedIn
<1>6. CASE r[at].pkt # p
  <2>1. \A i \in S : g[i] \in Nat /\ h[i] = g[i] BY <1>3, <1>4, <1>6
  <2>2. SumFunctionOnSet(g, S) = SumFunctionOnSet(h, S)
    <3> HIDE DEF g, h, S
    <3>1. QED BY <1>3, <2>1, SumAgrees
  <2>3. ClaimedIn(t, p) = ClaimedIn(r, p) BY <1>2, <2>2 DEF ClaimedIn
  <2>4. ClaimedIn(r, p) \in Nat BY ClaimType
  <2>5. QED BY <1>6, <2>3, <2>4
<1>7. QED BY <1>5, <1>6

\* A packet added is claimed once more than before, or was let go that often.
LEMMA AddCounts ==
  ASSUME CountInv, NEW q \in Packet, add(q)
  PROVE  /\ ring' \in Seq(Entry(Packet)) /\ serial' \in Nat /\ dropped' \in [Packet -> Nat]
         /\ packets' = [packets EXCEPT ![q.to_host] = @ + 1]
         /\ pending' => LET n == Len(ring')
                        IN  n >= 3 /\ ring'[n].repeat = 1 /\ ring'[n - 2].pkt = ring'[n].pkt
         /\ \A p \in Packet : dropped'[p] + ClaimedIn(ring', p) =
                               dropped[p] + ClaimedIn(ring, p) + IF p = q THEN 1 ELSE 0
<1>0. /\ ring \in Seq(Entry(Packet)) /\ serial \in Nat /\ dropped \in [Packet -> Nat]
      /\ \A r \in Seq(Entry(Packet)) : \A p : ClaimedIn(r, p) \in Nat
  BY ClaimType DEF CountInv
<1>p. packets' = [packets EXCEPT ![q.to_host] = @ + 1] BY DEF add
<1> PICK n \in Nat : n = Len(ring) BY <1>0
<1>1. CASE Completes(q) /\ FoldExchange
  <2> DEFINE r == SubSeq(ring, 1, n - 1)
             e == ring[n]
             once == Bump(r, 1, serial + 1)
  <2>1. n >= 3 /\ ring[n].repeat = 1 /\ ring[n - 2].pkt = ring[n].pkt /\ ring[n - 1].pkt = q
    BY <1>1 DEF Completes, CountInv, Holds, Slot
  <2>2. /\ ring' = Bump(once, 0, serial + 2) /\ serial' = serial + 2 /\ ~pending'
        /\ dropped' = dropped
    BY <1>1 DEF FoldExchange
  <2>3. /\ r \in Seq(Entry(Packet)) /\ Len(r) = n - 1 /\ e \in Entry(Packet) /\ ring = Append(r, e)
        /\ r[n - 2] = ring[n - 2] /\ r[n - 1] = ring[n - 1]
    BY <1>0, <2>1
  <2>n. serial + 1 \in Nat /\ serial + 2 \in Nat BY <1>0
  <2>c. \A p : ClaimedIn(ring, p) = ClaimedIn(r, p) + IF e.pkt = p THEN 1 ELSE 0
    <3> HIDE DEF r, e
    <3>1. \A p : ClaimedIn(Append(r, e), p) = ClaimedIn(r, p) + IF e.pkt = p THEN e.repeat ELSE 0
      BY <2>3, ClaimAppend
    <3>2. e.repeat = 1 BY <2>1 DEF e
    <3>3. QED BY <2>3, <3>1, <3>2
  <2>4. r[n - 2].pkt = e.pkt /\ r[n - 1].pkt = q BY <2>1, <2>3
  <2> HIDE DEF r, e
  <2>5. BumpedFrom(r, once, n - 2)
    <3>1. 1 \in Nat /\ 1 < Len(r) /\ Len(r) - 1 = n - 2 BY <2>1, <2>3
    <3>2. BumpedFrom(r, once, Len(r) - 1) BY <2>3, <2>n, <3>1, BumpCounts
    <3>3. QED BY <3>1, <3>2
  <2>6. once \in Seq(Entry(Packet)) /\ Len(once) = n - 1 /\ once[n - 1].pkt = q
    BY <2>1, <2>3, <2>4, <2>5 DEF BumpedFrom
  <2> HIDE DEF once
  <2>7. BumpedFrom(once, ring', n - 1)
    <3>1. 0 \in Nat /\ 0 < Len(once) /\ Len(once) - 0 = n - 1 BY <2>1, <2>6
    <3>2. BumpedFrom(once, Bump(once, 0, serial + 2), Len(once) - 0)
      BY <2>6, <2>n, <3>1, BumpCounts
    <3>3. QED BY <2>2, <3>1, <3>2
  <2>8. \A p : ClaimedIn(once, p) = ClaimedIn(r, p) + IF e.pkt = p THEN 1 ELSE 0
    <3>1. n - 2 \in DOMAIN r BY <2>1, <2>3
    <3>2. \A p : ClaimedIn(once, p) = ClaimedIn(r, p) + IF r[n - 2].pkt = p THEN 1 ELSE 0
      BY <2>3, <2>5, <3>1, BumpClaims
    <3>3. QED BY <2>4, <3>2
  <2>9. \A p : ClaimedIn(ring', p) = ClaimedIn(once, p) + IF q = p THEN 1 ELSE 0
    <3>1. n - 1 \in DOMAIN once BY <2>1, <2>6
    <3>2. \A p : ClaimedIn(ring', p) = ClaimedIn(once, p) + IF once[n - 1].pkt = p THEN 1 ELSE 0
      BY <2>6, <2>7, <3>1, BumpClaims
    <3>3. QED BY <2>6, <3>2
  <2>10. ring' \in Seq(Entry(Packet)) BY <2>7 DEF BumpedFrom
  <2>11. \A p \in Packet : dropped'[p] + ClaimedIn(ring', p) =
                            dropped[p] + ClaimedIn(ring, p) + IF p = q THEN 1 ELSE 0
    <3>1. SUFFICES ASSUME NEW p \in Packet
                   PROVE  dropped'[p] + ClaimedIn(ring', p) =
                            dropped[p] + ClaimedIn(ring, p) + IF p = q THEN 1 ELSE 0
      OBVIOUS
    <3>2. ClaimedIn(once, p) = ClaimedIn(ring, p) BY <2>c, <2>8
    <3>3. ClaimedIn(ring', p) = ClaimedIn(ring, p) + IF q = p THEN 1 ELSE 0 BY <2>9, <3>2
    <3>4. ClaimedIn(ring, p) \in Nat /\ dropped[p] \in Nat BY <1>0
    <3>5. QED BY <2>2, <3>3, <3>4
  <2>12. QED BY <1>p, <2>2, <2>10, <2>11, <2>n, <1>0
<1>2. CASE ~Completes(q) /\ Holds(ring, 0, q) /\ FoldPacket
  <2>1. n > 0 /\ ring[n].pkt = q BY <1>2 DEF Holds, Slot
  <2>2. ring' = Bump(ring, 0, serial + 1) /\ serial' = serial + 1 /\ ~pending' /\ dropped' = dropped
    BY <1>2 DEF FoldPacket
  <2>3. BumpedFrom(ring, ring', n)
    <3>1. 0 \in Nat /\ 0 < Len(ring) /\ Len(ring) - 0 = n /\ serial + 1 \in Nat BY <1>0, <2>1
    <3>2. BumpedFrom(ring, Bump(ring, 0, serial + 1), Len(ring) - 0) BY <1>0, <3>1, BumpCounts
    <3>3. QED BY <2>2, <3>1, <3>2
  <2>4. \A p : ClaimedIn(ring', p) = ClaimedIn(ring, p) + IF q = p THEN 1 ELSE 0
    <3>1. n \in DOMAIN ring BY <2>1
    <3>2. \A p : ClaimedIn(ring', p) = ClaimedIn(ring, p) + IF ring[n].pkt = p THEN 1 ELSE 0
      BY <1>0, <2>3, <3>1, BumpClaims
    <3>3. QED BY <2>1, <3>2
  <2>5. ring' \in Seq(Entry(Packet)) BY <2>3 DEF BumpedFrom
  <2>6. \A p \in Packet : dropped'[p] + ClaimedIn(ring', p) =
                           dropped[p] + ClaimedIn(ring, p) + IF p = q THEN 1 ELSE 0
    <3>1. \A p \in Packet : ClaimedIn(ring, p) \in Nat /\ dropped[p] \in Nat BY <1>0
    <3>2. QED BY <2>2, <2>4, <3>1
  <2>7. QED BY <1>0, <1>p, <2>2, <2>5, <2>6
<1>3. CASE ~Completes(q) /\ ~Holds(ring, 0, q) /\ Push(q)
  <2> DEFINE full == Len(ring) = FUJITRACE_MAX
             kept == IF full THEN Tail(ring) ELSE ring
             new == [pkt |-> q, repeat |-> 1, serial |-> serial + 1]
  <2>1. /\ ring' = Append(kept, new) /\ serial' = serial + 1 /\ pending' = HalfSeen(ring')
        /\ dropped' = IF full THEN [dropped EXCEPT ![ring[1].pkt] = @ + ring[1].repeat] ELSE dropped
    BY <1>3 DEF Push
  <2>2. full => ring # <<>>
    <3>1. full => Len(ring) # 0 BY TraceAssumption
    <3>2. QED BY <3>1
  <2>3. kept \in Seq(Entry(Packet)) /\ new \in Entry(Packet) /\ new.pkt = q /\ new.repeat = 1
    <3>1. full => Tail(ring) \in Seq(Entry(Packet)) BY <1>0, <2>2, HeadTailProperties
    <3>2. QED BY <1>0, <3>1 DEF Entry
  <2>4. ring # <<>> => ring[1].pkt \in Packet /\ ring[1].repeat \in Nat
    <3>1. ring # <<>> => Len(ring) > 0 BY <1>0, EmptySeq
    <3>2. ring # <<>> => ring[1] \in Entry(Packet) BY <1>0, <3>1
    <3>3. QED BY <3>2 DEF Entry
  <2>5. \A p \in Packet : dropped'[p] + ClaimedIn(kept, p) = dropped[p] + ClaimedIn(ring, p)
    <3>1. SUFFICES ASSUME NEW p \in Packet
                   PROVE  dropped'[p] + ClaimedIn(kept, p) = dropped[p] + ClaimedIn(ring, p)
      OBVIOUS
    <3>2. dropped[p] \in Nat /\ ClaimedIn(kept, p) \in Nat
      <4> HIDE DEF kept
      <4> QED BY <1>0, <2>3
    <3>3. CASE full
      <4>1. ClaimedIn(ring, p) = ClaimedIn(Tail(ring), p) + IF ring[1].pkt = p THEN ring[1].repeat ELSE 0
        BY <1>0, <2>2, <3>3, ClaimTail
      <4>2. dropped'[p] = dropped[p] + IF ring[1].pkt = p THEN ring[1].repeat ELSE 0
        <5>1. dropped' = [dropped EXCEPT ![ring[1].pkt] = @ + ring[1].repeat] BY <2>1, <3>3
        <5>2. QED BY <1>0, <3>2, <5>1
      <4>3. kept = Tail(ring) BY <3>3
      <4>4. (IF ring[1].pkt = p THEN ring[1].repeat ELSE 0) \in Nat BY <2>2, <2>4, <3>3
      <4> HIDE DEF kept
      <4>5. QED BY <3>2, <4>1, <4>2, <4>3, <4>4
    <3>4. CASE ~full BY <2>1, <3>4
    <3>5. QED BY <3>3, <3>4
  <2> HIDE DEF kept, new
  <2>6. \A p : ClaimedIn(ring', p) = ClaimedIn(kept, p) + IF q = p THEN 1 ELSE 0
    BY <2>1, <2>3, ClaimAppend
  <2>7. dropped' \in [Packet -> Nat]
    <3>1. CASE full BY <1>0, <2>1, <2>2, <2>4, <3>1
    <3>2. CASE ~full BY <1>0, <2>1, <3>2
    <3>3. QED BY <3>1, <3>2
  <2>8. \A p \in Packet : dropped'[p] + ClaimedIn(ring', p) =
                           dropped[p] + ClaimedIn(ring, p) + IF p = q THEN 1 ELSE 0
    <3>1. SUFFICES ASSUME NEW p \in Packet
                   PROVE  dropped'[p] + ClaimedIn(ring', p) =
                            dropped[p] + ClaimedIn(ring, p) + IF p = q THEN 1 ELSE 0
      OBVIOUS
    <3>2. dropped'[p] + ClaimedIn(kept, p) = dropped[p] + ClaimedIn(ring, p) BY <2>5
    <3>3. ClaimedIn(ring', p) = ClaimedIn(kept, p) + IF q = p THEN 1 ELSE 0 BY <2>6
    <3>4. ClaimedIn(kept, p) \in Nat /\ dropped'[p] \in Nat BY <1>0, <2>3, <2>7
    <3>5. QED BY <3>2, <3>3, <3>4
  <2>9. ring' \in Seq(Entry(Packet)) /\ Len(ring') = Len(kept) + 1 /\ ring'[Len(ring')] = new
    BY <2>1, <2>3
  <2>10. pending' => LET k == Len(ring')
                     IN  k >= 3 /\ ring'[k].repeat = 1 /\ ring'[k - 2].pkt = ring'[k].pkt
    BY <2>1, <2>3, <2>9 DEF HalfSeen, Holds, Slot
  <2>11. QED BY <1>0, <1>p, <2>1, <2>7, <2>8, <2>9, <2>10
<1>4. QED BY <1>1, <1>2, <1>3 DEF add

\* A frame that is over is added and counted, once on each side.
LEMMA AddsStep ==
  ASSUME CountInv, NEW f \in Frames, AddsFrame(f)
  PROVE  CountInv'
<1> DEFINE q == [f EXCEPT !.data = Kept(@)]
           Of(to) == {p \in Packet : p.to_host = to}
<1>1. q \in Packet /\ q.to_host \in BOOLEAN
  <2>1. q \in Packet BY PacketAssumption DEF Logged
  <2> HIDE DEF q
  <2>2. QED BY <2>1, TraceAssumption
<1>2. add(q) /\ happened' = [happened EXCEPT ![q] = @ + 1] BY DEF AddsFrame, Handed
<1> HIDE DEF q
<1>3. /\ ring' \in Seq(Entry(Packet)) /\ serial' \in Nat /\ dropped' \in [Packet -> Nat]
      /\ packets' = [packets EXCEPT ![q.to_host] = @ + 1]
      /\ pending' => LET n == Len(ring')
                     IN  n >= 3 /\ ring'[n].repeat = 1 /\ ring'[n - 2].pkt = ring'[n].pkt
      /\ \A p \in Packet : dropped'[p] + ClaimedIn(ring', p) =
                            dropped[p] + ClaimedIn(ring, p) + IF p = q THEN 1 ELSE 0
  BY <1>1, <1>2, AddCounts
<1>4. /\ happened \in [Packet -> Nat] /\ packets \in [BOOLEAN -> Nat]
      /\ \A p \in Packet : happened[p] = dropped[p] + ClaimedIn(ring, p)
      /\ \A to \in BOOLEAN : packets[to] = SumFunctionOnSet(happened, Of(to))
  BY DEF CountInv, CountsAreTrue
<1>5. /\ happened' \in [Packet -> Nat]
      /\ \A p \in Packet : happened'[p] = IF p = q THEN happened[p] + 1 ELSE happened[p]
  BY <1>1, <1>2, <1>4
<1>6. /\ packets' \in [BOOLEAN -> Nat]
      /\ \A to \in BOOLEAN : packets'[to] = IF to = q.to_host THEN packets[to] + 1 ELSE packets[to]
  BY <1>1, <1>3, <1>4
<1>7. \A p \in Packet : happened'[p] = dropped'[p] + ClaimedIn(ring', p)
  <2>1. SUFFICES ASSUME NEW p \in Packet
        PROVE  happened'[p] = dropped'[p] + ClaimedIn(ring', p)
    OBVIOUS
  <2>2. dropped'[p] + ClaimedIn(ring', p) = happened[p] + IF p = q THEN 1 ELSE 0 BY <1>3, <1>4
  <2>3. happened[p] \in Nat BY <1>4
  <2>4. QED BY <1>5, <2>2, <2>3
<1>8. ASSUME NEW to \in BOOLEAN PROVE packets'[to] = SumFunctionOnSet(happened', Of(to))
  <2>1. IsFiniteSet(Of(to)) BY PacketAssumption, FS_Subset
  <2>2. \A p \in Of(to) : happened[p] \in Nat BY <1>4
  <2>3. CASE to = q.to_host
    <3>1. q \in Of(to) /\ 1 \in Nat BY <1>1, <2>3
    <3>2. (\A p \in Of(to) : p # q => happened'[p] = happened[p]) /\ happened'[q] = happened[q] + 1
      BY <1>1, <1>5
    <3>3. SumFunctionOnSet(happened', Of(to)) = SumFunctionOnSet(happened, Of(to)) + 1
      <4> HIDE DEF Of
      <4>1. QED BY <2>1, <2>2, <3>1, <3>2, SumChanges
    <3> HIDE DEF Of
    <3>4. QED BY <1>4, <1>6, <2>3, <3>3
  <2>4. CASE to # q.to_host
    <3>1. \A p \in Of(to) : happened[p] \in Nat /\ happened'[p] = happened[p]
      BY <1>5, <2>2, <2>4
    <3>2. SumFunctionOnSet(happened, Of(to)) = SumFunctionOnSet(happened', Of(to))
      <4> HIDE DEF Of
      <4>1. QED BY <2>1, <3>1, SumAgrees
    <3> HIDE DEF Of
    <3>3. QED BY <1>4, <1>6, <2>4, <3>2
  <2>5. QED BY <2>3, <2>4
<1>9. CountsAreTrue' BY <1>7, <1>8 DEF CountsAreTrue
<1>10. QED BY <1>3, <1>5, <1>6, <1>9 DEF CountInv

\* Nothing was handed over yet, or the log was cleared.
LEMMA NoCounts ==
  ASSUME NEW h, h = [p \in Packet |-> 0]
  PROVE  \A to : SumFunctionOnSet(h, {p \in Packet : p.to_host = to}) = 0
<1>1. SUFFICES ASSUME NEW to
      PROVE  SumFunctionOnSet(h, {p \in Packet : p.to_host = to}) = 0
  OBVIOUS
<1> DEFINE S == {p \in Packet : p.to_host = to}
<1>2. IsFiniteSet(S) BY PacketAssumption, FS_Subset
<1>3. \A p \in S : h[p] = 0 OBVIOUS
<1>4. SumFunctionOnSet(h, S) = 0
  <2> HIDE DEF S
  <2>1. QED BY <1>2, <1>3, SumOfNone
<1>5. QED BY <1>4

TapInv == DecoderInv /\ CountInv

\* An empty log, and a decoder that has seen nothing.
LEMMA TapInitInv == TapInit => TapInv
<1> SUFFICES ASSUME TapInit PROVE TapInv OBVIOUS
<1>0. <<>> \in Seq(Byte) /\ <<>> \in Seq(Entry(Packet)) BY EmptySeq
<1>1. DecoderInv BY <1>0 DEF TapInit, TraceInit, DecoderInv
<1>2. CountsAreTrue
  <2>1. \A to \in BOOLEAN : packets[to] = 0 /\ SumFunctionOnSet(happened, {p \in Packet : p.to_host = to}) = 0
    BY NoCounts DEF TapInit, TraceInit
  <2>2. \A p \in Packet : happened[p] = 0 /\ dropped[p] = 0 /\ ClaimedIn(ring, p) = 0
    BY ClaimNone DEF TapInit, TraceInit
  <2>3. QED BY <2>1, <2>2 DEF CountsAreTrue
<1>3. CountInv BY <1>0, <1>2 DEF TapInit, TraceInit, CountInv
<1>4. QED BY <1>1, <1>3 DEF TapInv

\* Every step of the tap and of the window keeps the counts true.
LEMMA TapSteps == TapInv /\ [TapNext]_tapVars => TapInv'
<1> SUFFICES ASSUME TapInv, [TapNext]_tapVars PROVE TapInv' OBVIOUS
<1>0. DecoderInv /\ CountInv BY DEF TapInv
<1>1. ASSUME AddsNone PROVE CountInv'
  BY <1>0, <1>1 DEF AddsNone, log, CountInv, CountsAreTrue
<1>2. ASSUME NEW body \in Sent, trace_sent(body) PROVE TapInv'
  <2>1. [to_host |-> FALSE, data |-> body] \in Frames BY DEF Frames
  <2>2. QED BY <1>0, <1>2, <2>1, SentStep, AddsStep DEF TapInv
<1>3. ASSUME NEW body \in Received, trace_received(body) PROVE TapInv'
  BY <1>0, <1>1, <1>3, ReceivedStep DEF TapInv
<1>4. CASE s_trace
  <2>1. \A body \in Received : [to_host |-> TRUE, data |-> body] \in Frames BY DEF Frames
  <2>2. DecoderInv' /\ (AddsNone \/ \E f \in Frames : AddsFrame(f))
    BY <1>0, <1>4, <2>1, PieceStep
  <2>3. QED BY <1>0, <1>1, <2>2, AddsStep DEF TapInv
<1>5. CASE WindowClears
  <2>1. /\ ring' = <<>> /\ pending' = FALSE /\ packets' = [to \in BOOLEAN |-> 0]
        /\ dropped' = [p \in Packet |-> 0] /\ happened' = [p \in Packet |-> 0]
        /\ UNCHANGED <<serial, acc, esc, tapping, pieces>>
    BY <1>5 DEF WindowClears, fujitrace_clear, decoder, tap
  <2>2. DecoderInv' BY <1>0, <2>1 DEF DecoderInv, HalfWay
  <2>3. CountsAreTrue'
    <3>1. \A to \in BOOLEAN : packets'[to] = 0 /\ SumFunctionOnSet(happened', {p \in Packet : p.to_host = to}) = 0
      BY <2>1, NoCounts
    <3>2. \A p \in Packet : happened'[p] = 0 /\ dropped'[p] = 0 /\ ClaimedIn(ring', p) = 0
      BY <2>1, ClaimNone
    <3>3. QED BY <3>1, <3>2 DEF CountsAreTrue
  <2>4. <<>> \in Seq(Entry(Packet)) BY EmptySeq
  <2>5. CountInv' BY <1>0, <2>1, <2>3, <2>4 DEF CountInv
  <2>6. QED BY <2>2, <2>5 DEF TapInv
<1>6. CASE UNCHANGED <<log, decoder, tap, happened>>
  <2>1. DecoderInv' BY <1>0, <1>6 DEF DecoderInv, HalfWay, decoder, tap
  <2>2. CountInv' BY <1>0, <1>6 DEF log, CountInv, CountsAreTrue
  <2>3. QED BY <2>1, <2>2 DEF TapInv
<1>7. CASE WindowRefreshes BY <1>6, <1>7 DEF WindowRefreshes, RefreshFujinet
<1>8. CASE UNCHANGED tapVars BY <1>6, <1>8 DEF tapVars
<1>9. QED BY <1>2, <1>3, <1>4, <1>5, <1>7, <1>8 DEF TapNext

\* core/debugger/fujitrace.c:78-174, with the tap of both links: whatever crosses
\* the cartridge, whole or in pieces cut anywhere, in any order and with clears
\* in between, the log's counts and what the full ring let go add up to it,
\* packet by packet and in each direction, for any finite set of packets.
THEOREM CountsHold == TapSpec => []CountsAreTrue
<1>1. TapInv => CountsAreTrue BY DEF TapInv, CountInv
<1>2. QED BY <1>1, TapInitInv, TapSteps, PTL DEF TapSpec

-----------------------------------------------------------------------------
(* Whose reply a transaction gets, and what the tap reports.               *)

\* What FujiNet has sent and the cartridge has not done with.
Coming == inq \o rest
Unread == IF mt \in {"reading", "parsing"} THEN raw \o Coming ELSE Coming

\* Bodies and terminators follow each other as in frames, of the first of
\* which o tokens are gone.
Framing(s, o) ==
  \A i \in 1..Len(s) : IF (i + o) % 3 = 2 THEN s[i] \in Inbound ELSE s[i] = END

\* The stream is in step with the frames until a transaction gives up.
FramesInv ==
  \E o \in 0..2 :
     /\ Framing(Unread, o)
     /\ ~soured => o = 0
     /\ conn = "up" => (Len(Unread) + o) % 3 = 0

ReaderInv ==
  /\ mt = "new" => conn = "none" /\ ~soured
  /\ conn = "none" => sock = "none"
  /\ mt \in {"reading", "parsing"} => sock = "open" /\ txn > 0
  /\ mt = "reading" => Len(raw) <= 2
  /\ mt = "parsing" /\ ~soured => Len(raw) = 3
  /\ conn # "up" => asked = <<>> /\ rest = <<>>

\* Until then FujiNet owes the transaction one reply at most, and nothing
\* follows a reply.
OwnInv ==
  ~soured =>
    IF mt \in {"reading", "parsing"}
    THEN /\ asked \in {<<>>, <<txn>>}
         /\ \A i \in 1..Len(Unread) : Unread[i].kind = "reply" =>
              Unread[i].n = txn /\ i >= Len(Unread) - 1 /\ asked = <<>>
    ELSE asked = <<>> /\ inq = <<>> /\ rest = <<>>

LinkInv == LinkTypeOK /\ FramesInv /\ ReaderInv /\ OwnInv

LEMMA TokenFacts ==
  /\ END \in Token /\ END \notin Inbound /\ Inbound \subseteq Token
  /\ \A b \in Inbound : b = Pushed \/ (b.kind = "reply" /\ b.n \in 1..MaxTxn)
  /\ Pushed.kind # "reply" /\ END.kind # "reply" /\ Pushed \in Inbound
<1>1. END.kind = "END" /\ Pushed.kind = "push"
  BY DEF END, Pushed
<1>2. \A b \in Replies : b.kind = "reply" /\ b.n \in 1..MaxTxn
  BY DEF Replies
<1> QED  BY <1>1, <1>2 DEF Inbound, Token

LEMMA FramingPrefix ==
  ASSUME NEW s \in Seq(Token), NEW t \in Seq(Token), NEW o \in 0..2, Framing(s, o),
         Len(t) <= Len(s), \A i \in 1..Len(t) : t[i] = s[i]
  PROVE  Framing(t, o)
BY DEF Framing

LEMMA FramingSuffix ==
  ASSUME NEW s \in Seq(Token), NEW t \in Seq(Token), NEW o \in 0..2, Framing(s, o),
         NEW k \in Nat, Len(s) = Len(t) + k, \A i \in 1..Len(t) : t[i] = s[i + k]
  PROVE  Framing(t, (o + k) % 3) /\ (Len(t) + ((o + k) % 3)) % 3 = (Len(s) + o) % 3
<1>1. ASSUME NEW i \in 1..Len(t)
      PROVE  /\ i + k \in 1..Len(s)
             /\ (i + ((o + k) % 3)) % 3 = ((i + k) + o) % 3
  OBVIOUS
<1>2. (Len(t) + ((o + k) % 3)) % 3 = (Len(s) + o) % 3
  OBVIOUS
<1> QED  BY <1>1, <1>2 DEF Framing

LEMMA Thirds ==
  ASSUME NEW n \in Nat, NEW o \in 0..2, (n + o) % 3 = 0
  PROVE  ((n + 1) + o) % 3 = 1 /\ ((n + 2) + o) % 3 = 2 /\ ((n + 3) + o) % 3 = 0
OBVIOUS

LEMMA FramingGrows ==
  ASSUME NEW s \in Seq(Token), NEW o \in 0..2, Framing(s, o), (Len(s) + o) % 3 = 0,
         NEW b \in Inbound
  PROVE  /\ s \o Framed(b) \in Seq(Token) /\ Len(s \o Framed(b)) = Len(s) + 3
         /\ Framing(s \o Framed(b), o) /\ (Len(s \o Framed(b)) + o) % 3 = 0
<1>1. /\ Framed(b) \in Seq(Token) /\ Len(Framed(b)) = 3
      /\ Framed(b)[1] = END /\ Framed(b)[2] = b /\ Framed(b)[3] = END
  BY TokenFacts DEF Framed
<1> HIDE DEF Framed
<1>e. END \in Token /\ b \in Token
  BY TokenFacts
<1>l. Len(s) \in Nat
  OBVIOUS
<1>n. /\ ((Len(s) + 1) + o) % 3 = 1 /\ ((Len(s) + 2) + o) % 3 = 2
      /\ ((Len(s) + 3) + o) % 3 = 0
  BY <1>l, Thirds
<1> DEFINE u == Framed(b)
           t == s \o u
<1>c. /\ t \in Seq(Token) /\ Len(t) = Len(s) + Len(u)
      /\ \A i \in 1..Len(s) + Len(u) : t[i] = IF i <= Len(s) THEN s[i] ELSE u[i - Len(s)]
  <2> HIDE DEF u
  <2>1. u \in Seq(Token)
    BY <1>1 DEF u
  <2> QED  BY <2>1, ConcatProperties
<1>2. /\ t \in Seq(Token) /\ Len(t) = Len(s) + 3
      /\ \A i \in 1..Len(s) : t[i] = s[i]
      /\ t[Len(s) + 1] = END /\ t[Len(s) + 2] = b /\ t[Len(s) + 3] = END
  <2> HIDE DEF u, t
  <2>1. Len(u) = 3 /\ u[1] = END /\ u[2] = b /\ u[3] = END /\ Len(s) \in Nat
    BY <1>1 DEF u
  <2>3. \A i \in 1..Len(s) : t[i] = s[i]
    BY <2>1, <1>c
  <2>4. \A j \in 1..3 : t[Len(s) + j] = u[(Len(s) + j) - Len(s)]
    BY <2>1, <1>c
  <2>5. \A j \in 1..3 : t[Len(s) + j] = u[j]
    BY <2>1, <2>4
  <2> QED  BY <2>1, <2>3, <2>5, <1>c
<1> HIDE DEF u, t
<1>3. ASSUME NEW i \in 1..Len(t)
      PROVE  IF (i + o) % 3 = 2 THEN t[i] \in Inbound ELSE t[i] = END
  <2>1. CASE i \in 1..Len(s)
    <3>1. t[i] = s[i]
      BY <2>1, <1>2
    <3> QED  BY <2>1, <3>1 DEF Framing
  <2>2. CASE i = Len(s) + 1
    <3>1. (i + o) % 3 = 1 /\ t[i] = END
      BY <2>2, <1>2, <1>n
    <3> QED  BY <3>1
  <2>3. CASE i = Len(s) + 2
    <3>1. (i + o) % 3 = 2 /\ t[i] = b
      BY <2>3, <1>2, <1>n
    <3> QED  BY <3>1
  <2>4. CASE i = Len(s) + 3
    <3>1. (i + o) % 3 = 0 /\ t[i] = END
      BY <2>4, <1>2, <1>n
    <3> QED  BY <3>1
  <2>5. i \in 1..Len(s) \/ i \in {Len(s) + 1, Len(s) + 2, Len(s) + 3}
    BY <1>2, <1>l
  <2> QED  BY <2>1, <2>2, <2>3, <2>4, <2>5
<1>4. (Len(t) + o) % 3 = 0
  BY <1>2, <1>n
<1> QED  BY <1>2, <1>3, <1>4 DEF u, t, Framing

LEMMA TokenMoves ==
  ASSUME NEW a \in Seq(Token), NEW b \in Seq(Token), b # <<>>
  PROVE  Append(a, Head(b)) \o Tail(b) = a \o b
<1>1. /\ b = <<Head(b)>> \o Tail(b)
      /\ Head(b) \in Token /\ Tail(b) \in Seq(Token) /\ <<Head(b)>> \in Seq(Token)
  <2>1. Head(b) \in Token /\ Tail(b) \in Seq(Token) /\ <<Head(b)>> \in Seq(Token)
    OBVIOUS
  <2>2. b = <<Head(b)>> \o Tail(b)
    BY SeqEqual
  <2> QED  BY <2>1, <2>2
<1>2. Append(a, Head(b)) = a \o <<Head(b)>>
  BY <1>1, AppendIsConcat
<1>3. (a \o <<Head(b)>>) \o Tail(b) = a \o (<<Head(b)>> \o Tail(b))
  BY <1>1, ConcatAssociative
<1> QED  BY <1>1, <1>2, <1>3

\* read_frame stops at the third token of a stream in step, and never later.
LEMMA EndsFacts ==
  ASSUME NEW s \in Seq(Token), NEW o \in 0..2, Framing(s, o)
  PROVE  /\ Len(s) = 3 => Ends(s) = 2
         /\ o = 0 /\ Len(s) \in {1, 2} => Ends(s) = 1
<1> DEFINE ends == {i \in 1..Len(s) : s[i] = END}
<1>1. Ends(s) = Cardinality(ends)
  <2>1. DOMAIN s = 1..Len(s)
    OBVIOUS
  <2> QED  BY <2>1, Zenon DEF Ends
<1>2. ends = {i \in 1..Len(s) : (i + o) % 3 # 2}
  BY TokenFacts DEF Framing
<1>3. ASSUME Len(s) = 3 PROVE Ends(s) = 2
  <2>1. \E x, y \in 1..3 : x # y /\ ends = {x, y}
    <3>1. CASE o = 0
      <4>1. ends = {1, 3}
        BY <1>2, <1>3, <3>1
      <4> QED  BY <4>1
    <3>2. CASE o = 1
      <4>1. ends = {2, 3}
        BY <1>2, <1>3, <3>2
      <4> QED  BY <4>1
    <3>3. CASE o = 2
      <4>1. ends = {1, 2}
        BY <1>2, <1>3, <3>3
      <4> QED  BY <4>1
    <3>4. o \in {0, 1, 2}
      OBVIOUS
    <3> QED  BY <3>1, <3>2, <3>3, <3>4
  <2>2. PICK x \in 1..3, y \in 1..3 : x # y /\ ends = {x, y}
    BY <2>1
  <2>3. Cardinality({x}) = 1 /\ IsFiniteSet({x})
    BY FS_Singleton
  <2>4. Cardinality({x} \cup {y}) = 2
    <3>1. y \notin {x}
      BY <2>2
    <3>2. Cardinality({x} \cup {y}) = Cardinality({x}) + 1
      BY <2>3, <3>1, FS_AddElement
    <3>3. Cardinality({x} \cup {y}) = 1 + 1
      BY <2>3, <3>2, Zenon
    <3>4. 1 + 1 = 2
      OBVIOUS
    <3> QED  BY <3>3, <3>4, Zenon
  <2>5. {x, y} = {x} \cup {y}
    OBVIOUS
  <2> QED  BY <1>1, <2>2, <2>4, <2>5
<1>4. ASSUME o = 0, Len(s) \in {1, 2} PROVE Ends(s) = 1
  <2>1. ends = {1}
    <3>1. CASE Len(s) = 1
      BY <1>2, <1>4, <3>1
    <3>2. CASE Len(s) = 2
      BY <1>2, <1>4, <3>2
    <3> QED  BY <1>4, <3>1, <3>2
  <2> QED  BY <1>1, <2>1, FS_Singleton
<1> QED  BY <1>3, <1>4

\* The parts of LinkTypeOK that a solver and a prover without numbers each prove.
LinkFlags == fuji \in BOOLEAN /\ lost \in BOOLEAN /\ soured \in BOOLEAN

LinkStores ==
  /\ sock \in {"none", "open"} /\ raw \in Seq(Token) /\ Len(raw) <= 3
  /\ txn \in 0..MaxTxn /\ outcome \in Outcome
  /\ mt \in {"new", "idle", "reading", "parsing"}
  /\ conn \in {"none", "up", "closed"}
  /\ inq \in Seq(Token) /\ asked \in Seq(1..MaxTxn) /\ rest \in Seq(Token)
  /\ pushed \in 0..MaxPushed /\ downs \in 0..MaxDown

LinkHistory == traced \in Seq(Inbound \cup Outbound) /\ wire \in Seq(Inbound \cup Outbound)

LEMMA LinkTypeParts ==
  /\ LinkTypeOK <=> LinkFlags /\ LinkStores /\ LinkHistory
  /\ LinkTypeOK' <=> LinkFlags' /\ LinkStores' /\ LinkHistory'
BY DEF LinkTypeOK, LinkFlags, LinkStores, LinkHistory

\* A stream that stays as it was, or loses its end, stays in step.
LEMMA StreamCut ==
  ASSUME LinkInv, LinkStores', Unread \in Seq(Token), Unread' \in Seq(Token),
         Len(Unread') <= Len(Unread), \A i \in 1..Len(Unread') : Unread'[i] = Unread[i],
         ~soured' => ~soured,
         conn' = "up" => conn = "up" /\ Len(Unread') = Len(Unread)
  PROVE  FramesInv'
<1>1. PICK o \in 0..2 : /\ Framing(Unread, o) /\ (~soured => o = 0)
                        /\ (conn = "up" => (Len(Unread) + o) % 3 = 0)
  BY DEF LinkInv, FramesInv
<1>2. Framing(Unread', o)
  BY <1>1, FramingPrefix
<1>3. conn' = "up" => (Len(Unread') + o) % 3 = 0
  BY <1>1
<1> QED  BY <1>1, <1>2, <1>3 DEF FramesInv, Framing

\* Some of its tokens are done with.
LEMMA StreamTaken ==
  ASSUME LinkInv, NEW k \in Nat, Unread \in Seq(Token), Unread' \in Seq(Token),
         Len(Unread) = Len(Unread') + k, \A i \in 1..Len(Unread') : Unread'[i] = Unread[i + k],
         ~soured' => ~soured /\ k = 3,
         conn' = "up" => conn = "up"
  PROVE  FramesInv'
<1>1. PICK o \in 0..2 : /\ Framing(Unread, o) /\ (~soured => o = 0)
                        /\ (conn = "up" => (Len(Unread) + o) % 3 = 0)
  BY DEF LinkInv, FramesInv
<1> DEFINE q == (o + k) % 3
<1>2. Framing(Unread', q) /\ (Len(Unread') + q) % 3 = (Len(Unread) + o) % 3
  BY <1>1, FramingSuffix
<1>3. q \in 0..2 /\ (~soured' => q = 0)
  BY <1>1, SMTT(30)
<1> HIDE DEF q
<1> QED  BY <1>1, <1>2, <1>3 DEF FramesInv, Framing

\* What the machine thread has not read of the stream follows what it has.
LEMMA UnreadFacts ==
  ASSUME LinkInv
  PROVE  /\ LinkFlags /\ LinkStores /\ LinkHistory
         /\ Coming \in Seq(Token) /\ Len(Coming) = Len(inq) + Len(rest)
         /\ Unread \in Seq(Token)
         /\ mt \in {"reading", "parsing"} =>
              /\ Unread = raw \o Coming /\ Len(Unread) = Len(raw) + Len(Coming)
              /\ \A i \in 1..Len(raw) : Unread[i] = raw[i]
              /\ \A i \in 1..Len(Coming) : Unread[i + Len(raw)] = Coming[i]
         /\ mt \notin {"reading", "parsing"} => Unread = Coming
<1>1. LinkFlags /\ LinkStores /\ LinkHistory
  BY LinkTypeParts DEF LinkInv
<1>2. Coming \in Seq(Token) /\ Len(Coming) = Len(inq) + Len(rest)
  BY <1>1, ConcatProperties DEF Coming, LinkStores
<1>3. CASE mt \in {"reading", "parsing"}
  <2>1. Unread = raw \o Coming
    BY <1>3 DEF Unread
  <2>2. /\ Unread \in Seq(Token) /\ Len(Unread) = Len(raw) + Len(Coming)
        /\ \A i \in 1..Len(raw) + Len(Coming) :
              Unread[i] = IF i <= Len(raw) THEN raw[i] ELSE Coming[i - Len(raw)]
    BY <1>1, <1>2, <2>1, ConcatProperties DEF LinkStores
  <2>3. Len(raw) \in Nat /\ Len(Coming) \in Nat
    BY <1>1, <1>2 DEF LinkStores
  <2>4. \A i \in 1..Len(Coming) : Unread[i + Len(raw)] = Coming[(i + Len(raw)) - Len(raw)]
    BY <2>2, <2>3
  <2>5. \A i \in 1..Len(raw) : Unread[i] = raw[i]
    BY <2>2, <2>3
  <2> QED  BY <1>1, <1>2, <1>3, <2>1, <2>2, <2>3, <2>4, <2>5
<1>4. CASE mt \notin {"reading", "parsing"}
  BY <1>1, <1>2, <1>4 DEF Unread
<1> QED  BY <1>3, <1>4

LEMMA DialStep == LinkInv /\ fujitcp_init => LinkInv'
<1> SUFFICES ASSUME LinkInv, fujitcp_init PROVE LinkInv'
  OBVIOUS
<1>1. /\ mt = "new" /\ mt' = "idle"
      /\ sock' = (IF fuji THEN "open" ELSE "none") /\ conn' = (IF fuji THEN "up" ELSE "none")
      /\ UNCHANGED <<raw, txn, outcome, traced, inq, fuji, asked, rest, pushed, downs,
                     wire, lost, soured>>
  BY DEF fujitcp_init, peer
<1>2. ~soured /\ asked = <<>> /\ inq = <<>> /\ rest = <<>>
  BY <1>1 DEF LinkInv, ReaderInv, OwnInv
<1>3. LinkTypeOK'
  <2>1. LinkFlags'
    BY <1>1, UnreadFacts, Zenon DEF LinkFlags
  <2>2. LinkStores'
    BY <1>1, UnreadFacts DEF LinkStores
  <2>3. LinkHistory'
    BY <1>1, UnreadFacts DEF LinkHistory
  <2> QED  BY <2>1, <2>2, <2>3, LinkTypeParts
<1>4. Coming' = <<>> /\ Unread' = <<>>
  BY <1>1, <1>2 DEF Coming, Unread
<1>5. FramesInv'
  <2>1. Framing(Unread', 0) /\ Len(Unread') = 0
    BY <1>4 DEF Framing
  <2> QED  BY <2>1 DEF FramesInv, Framing
<1>6. ReaderInv'
  BY <1>1, <1>2 DEF ReaderInv
<1>7. OwnInv'
  BY <1>1, <1>2 DEF OwnInv
<1> QED  BY <1>3, <1>5, <1>6, <1>7 DEF LinkInv

LEMMA RequestFacts ==
  txn < MaxTxn /\ txn \in 0..MaxTxn /\ txn' = txn + 1 =>
    Request \in Outbound /\ txn' \in 1..MaxTxn /\ Request.kind = "request" /\ Request.n = txn'
BY LinkAssumption DEF Request, Outbound

LEMMA TransactSteps == LinkInv /\ (TransactUnsent \/ Transact) => LinkInv'
<1> SUFFICES ASSUME LinkInv, TransactUnsent \/ Transact PROVE LinkInv'
  OBVIOUS
<1>u. LinkFlags /\ LinkStores /\ LinkHistory /\ Unread = Coming /\ Coming \in Seq(Token)
      /\ mt = "idle"
  BY UnreadFacts DEF TransactUnsent, Transact
<1>1. CASE TransactUnsent
  <2>1. /\ mt = "idle" /\ txn < MaxTxn /\ txn' = txn + 1 /\ outcome' \in {"ENOLINK", "ETOOBIG"}
        /\ UNCHANGED <<sock, raw, mt, traced, conn, inq, fuji, asked, rest, pushed, downs,
                       wire, lost, soured>>
    BY <1>1 DEF TransactUnsent, peer
  <2>2. LinkTypeOK'
    <3>1. LinkFlags'
      BY <2>1, <1>u, Zenon DEF LinkFlags
    <3>2. LinkStores'
      BY <2>1, <1>u, LinkAssumption DEF LinkStores, Outcome
    <3>3. LinkHistory'
      BY <2>1, <1>u DEF LinkHistory
    <3> QED  BY <3>1, <3>2, <3>3, LinkTypeParts
  <2>3. Coming' = Coming /\ Unread' = Unread
    BY <2>1 DEF Coming, Unread
  <2>4. FramesInv' /\ ReaderInv' /\ OwnInv'
    BY <2>1, <2>3 DEF LinkInv, FramesInv, Framing, ReaderInv, OwnInv
  <2> QED  BY <2>2, <2>4 DEF LinkInv
<1>2. CASE Transact
  <2>1. /\ mt = "idle" /\ txn < MaxTxn /\ sock = "open" /\ txn' = txn + 1 /\ raw' = <<>>
        /\ traced' = Append(traced, Request)
        /\ UNCHANGED <<sock, conn, inq, fuji, rest, pushed, downs>>
    BY <1>2 DEF Transact
  <2>2. \/ SendTakes(Request) /\ mt' = "reading" /\ UNCHANGED <<outcome, soured>>
        \/ SendFails /\ outcome' = "ENOLINK" /\ soured' = TRUE /\ UNCHANGED mt
    BY <1>2 DEF Transact
  <2>3. Request \in Outbound /\ txn' \in 1..MaxTxn /\ Request.kind = "request" /\ Request.n = txn'
    BY <2>1, <1>u, RequestFacts DEF LinkStores
  <2> HIDE DEF Request
  <2>4. CASE SendTakes(Request) /\ mt' = "reading" /\ UNCHANGED <<outcome, soured>>
    <3>1. /\ conn \in {"up", "closed"} /\ wire' = Append(wire, Request) /\ UNCHANGED lost
          /\ asked' = IF conn = "up" THEN Append(asked, txn') ELSE asked
      BY <2>3, <2>4 DEF SendTakes
    <3>2. LinkStores'
      <4>1. asked' \in Seq(1..MaxTxn)
        <5>1. asked \in Seq(1..MaxTxn)
          BY <1>u DEF LinkStores
        <5>2. Append(asked, txn') \in Seq(1..MaxTxn)
          BY <2>3, <5>1, AppendProperties
        <5> QED  BY <3>1, <5>1, <5>2
      <4>2. raw' \in Seq(Token) /\ Len(raw') <= 3
        BY <2>1
      <4> QED  BY <2>1, <2>3, <2>4, <4>1, <4>2, <1>u DEF LinkStores
    <3>3. LinkTypeOK'
      <4>1. LinkHistory'
        BY <2>1, <2>3, <3>1, <1>u DEF LinkHistory
      <4>2. LinkFlags'
        BY <2>1, <2>4, <3>1, <1>u, Zenon DEF LinkFlags
      <4> QED  BY <3>2, <4>1, <4>2, LinkTypeParts
    <3>4. Coming' = Coming /\ Unread' = Unread
      <4>1. Coming' = Coming
        BY <2>1 DEF Coming
      <4>2. Unread' = <<>> \o Coming
        BY <2>1, <2>4, <4>1 DEF Unread
      <4> QED  BY <4>1, <4>2, <1>u, ConcatEmptySeq
    <3>5. FramesInv'
      BY <2>1, <2>4, <3>4 DEF LinkInv, FramesInv, Framing
    <3>6. ReaderInv'
      BY <2>1, <2>3, <2>4, <3>1 DEF LinkInv, ReaderInv
    <3>7. OwnInv'
      <4>1. ASSUME ~soured
            PROVE  asked' \in {<<>>, <<txn'>>} /\ Len(Unread') = 0
        BY <4>1, <2>1, <3>1, <3>4, <1>u DEF LinkInv, OwnInv, Coming
      <4> QED  BY <2>4, <4>1 DEF OwnInv
    <3> QED  BY <3>3, <3>5, <3>6, <3>7 DEF LinkInv
  <2>5. CASE SendFails /\ outcome' = "ENOLINK" /\ soured' = TRUE /\ UNCHANGED mt
    <3>1. conn = "closed" /\ lost' = TRUE /\ UNCHANGED <<wire, asked>>
      BY <2>5 DEF SendFails
    <3>2. LinkTypeOK'
      <4>1. LinkStores'
        BY <2>1, <2>3, <2>5, <3>1, <1>u DEF LinkStores, Outcome
      <4>2. LinkHistory'
        BY <2>1, <2>3, <3>1, <1>u DEF LinkHistory
      <4>3. LinkFlags'
        BY <2>1, <2>5, <3>1, <1>u, Zenon DEF LinkFlags
      <4> QED  BY <4>1, <4>2, <4>3, LinkTypeParts
    <3>3. Coming' = Coming /\ Unread' = Unread
      BY <2>1, <2>5 DEF Coming, Unread
    <3>4. FramesInv' /\ ReaderInv' /\ OwnInv'
      BY <2>1, <2>5, <3>1, <3>3 DEF LinkInv, FramesInv, Framing, ReaderInv, OwnInv
    <3> QED  BY <3>2, <3>4 DEF LinkInv
  <2> QED  BY <2>2, <2>4, <2>5
<1> QED  BY <1>1, <1>2

LEMMA ReadStep == LinkInv /\ ReadFrame => LinkInv'
<1> SUFFICES ASSUME LinkInv, ReadFrame PROVE LinkInv'
  OBVIOUS
<1>u. /\ LinkFlags /\ LinkStores /\ LinkHistory /\ Coming \in Seq(Token)
      /\ Unread \in Seq(Token) /\ Unread = raw \o Coming
  BY UnreadFacts DEF ReadFrame
<1>1. /\ mt = "reading" /\ inq # <<>> /\ raw' = Append(raw, Head(inq)) /\ inq' = Tail(inq)
      /\ mt' = IF Ends(raw') = 2 THEN "parsing" ELSE "reading"
      /\ UNCHANGED <<sock, txn, outcome, traced, conn, fuji, asked, rest, pushed, downs,
                     wire, lost, soured>>
  BY DEF ReadFrame, peer
<1>2. /\ raw \in Seq(Token) /\ inq \in Seq(Token) /\ rest \in Seq(Token) /\ Len(raw) <= 2
      /\ Head(inq) \in Token /\ Tail(inq) \in Seq(Token)
  BY <1>1, <1>u DEF LinkStores, LinkInv, ReaderInv
<1>3. raw' \in Seq(Token) /\ Len(raw') = Len(raw) + 1 /\ inq' \in Seq(Token)
  BY <1>1, <1>2, AppendProperties
<1>4. /\ Unread' = Unread /\ Unread' = raw' \o Coming' /\ Coming' \in Seq(Token)
      /\ \A i \in 1..Len(raw') : Unread'[i] = raw'[i]
      /\ Len(raw') <= Len(Unread')
  <2>1. Unread' = raw' \o Coming' /\ Coming' = inq' \o rest
    BY <1>1 DEF Unread, Coming
  <2>2. raw' \o inq' = raw \o inq
    BY <1>1, <1>2, TokenMoves
  <2>3. raw' \o (inq' \o rest) = (raw' \o inq') \o rest
    <3>1. ASSUME NEW a \in Seq(Token), NEW b \in Seq(Token), NEW c \in Seq(Token)
          PROVE  (a \o b) \o c = a \o (b \o c)
      BY ConcatAssociative
    <3> QED  BY <1>2, <1>3, <3>1, ZenonT(60)
  <2>4. raw \o (inq \o rest) = (raw \o inq) \o rest
    BY <1>2, ConcatAssociative, SMTT(30)
  <2>5. Unread' = Unread
    BY <2>1, <2>2, <2>3, <2>4, <1>u DEF Coming
  <2>6. Coming' \in Seq(Token)
    BY <2>1, <1>2, <1>3, ConcatProperties
  <2>7. /\ Len(raw' \o Coming') = Len(raw') + Len(Coming')
        /\ \A i \in 1..Len(raw') + Len(Coming') :
             (raw' \o Coming')[i] = IF i <= Len(raw') THEN raw'[i] ELSE Coming'[i - Len(raw')]
    BY <1>3, <2>6, ConcatProperties
  <2>8. Len(raw') \in Nat /\ Len(Coming') \in Nat
    BY <1>3, <2>6
  <2> QED  BY <2>1, <2>5, <2>6, <2>7, <2>8
<1>5. LinkTypeOK'
  <2>1. LinkFlags'
    BY <1>1, <1>u, Zenon DEF LinkFlags
  <2>2. LinkStores'
    BY <1>1, <1>2, <1>3, <1>u DEF LinkStores
  <2>3. LinkHistory'
    BY <1>1, <1>u DEF LinkHistory
  <2> QED  BY <2>1, <2>2, <2>3, LinkTypeParts
<1>6. FramesInv'
  BY <1>1, <1>4 DEF LinkInv, FramesInv, Framing
<1>7. ReaderInv'
  <2>1. PICK o \in 0..2 : Framing(raw', o) /\ (~soured => o = 0)
    <3>1. PICK o \in 0..2 : Framing(Unread, o) /\ (~soured => o = 0)
      BY DEF LinkInv, FramesInv
    <3>2. Framing(raw', o)
      BY <1>3, <1>4, <1>u, <3>1, FramingPrefix
    <3> QED  BY <3>1, <3>2
  <2>2. /\ Len(raw') = 3 => Ends(raw') = 2
        /\ o = 0 /\ Len(raw') \in {1, 2} => Ends(raw') = 1
    BY <1>3, <2>1, EndsFacts
  <2>3. Len(raw') \in {1, 2, 3}
    BY <1>2, <1>3
  <2>4. mt' = "reading" => Len(raw') <= 2
    BY <1>1, <2>2, <2>3
  <2>5. mt' = "parsing" /\ ~soured' => Len(raw') = 3
    BY <1>1, <2>1, <2>2, <2>3
  <2> QED  BY <1>1, <2>4, <2>5 DEF LinkInv, ReaderInv
<1>8. OwnInv'
  BY <1>1, <1>4 DEF LinkInv, OwnInv
<1> QED  BY <1>5, <1>6, <1>7, <1>8 DEF LinkInv

\* A transaction that ends without its reply.
LEMMA GiveUpSteps == LinkInv /\ (ReadTimesOut \/ ParseBad) => LinkInv'
<1> SUFFICES ASSUME LinkInv, ReadTimesOut \/ ParseBad PROVE LinkInv'
  OBVIOUS
<1>1. /\ mt \in {"reading", "parsing"} /\ outcome' \in Outcome /\ soured' = TRUE
      /\ mt' = "idle" /\ raw' = <<>>
      /\ UNCHANGED <<sock, txn, traced, conn, inq, fuji, asked, rest, pushed, downs, wire, lost>>
  BY DEF ReadTimesOut, ParseBad, peer, Outcome
<1>u. /\ LinkFlags /\ LinkStores /\ LinkHistory /\ Coming \in Seq(Token)
      /\ Unread \in Seq(Token) /\ Len(Unread) = Len(raw) + Len(Coming)
      /\ \A i \in 1..Len(Coming) : Unread[i + Len(raw)] = Coming[i]
  BY <1>1, UnreadFacts
<1>2. LinkTypeOK'
  <2>1. LinkFlags'
    BY <1>1, <1>u, Zenon DEF LinkFlags
  <2>2. LinkStores'
    BY <1>1, <1>u DEF LinkStores
  <2>3. LinkHistory'
    BY <1>1, <1>u DEF LinkHistory
  <2> QED  BY <2>1, <2>2, <2>3, LinkTypeParts
<1>3. Coming' = Coming /\ Unread' = Coming
  BY <1>1 DEF Coming, Unread
<1>4. FramesInv'
  <2>1. Len(raw) \in Nat /\ Len(Coming) \in Nat
    BY <1>u DEF LinkStores
  <2>2. Len(Unread) = Len(Unread') + Len(raw)
    BY <1>3, <1>u, <2>1
  <2> QED  BY <1>1, <1>3, <1>u, <2>1, <2>2, StreamTaken
<1>5. ReaderInv' /\ OwnInv'
  BY <1>1 DEF LinkInv, ReaderInv, OwnInv
<1> QED  BY <1>2, <1>4, <1>5 DEF LinkInv

\* A body that does not fit the buffer: it, or what was read of it, is lost.
LEMMA OverflowStep == LinkInv /\ ReadOverflows => LinkInv'
<1> SUFFICES ASSUME LinkInv, ReadOverflows PROVE LinkInv'
  OBVIOUS
<1>1. /\ mt = "reading" /\ inq # <<>> /\ inq' \in {inq, Tail(inq)} /\ outcome' \in Outcome
      /\ soured' = TRUE /\ mt' = "idle" /\ raw' = <<>>
      /\ UNCHANGED <<sock, txn, traced, conn, fuji, asked, rest, pushed, downs, wire, lost>>
  BY DEF ReadOverflows, peer, Outcome
<1>u. /\ LinkFlags /\ LinkStores /\ LinkHistory /\ Coming \in Seq(Token)
      /\ Unread \in Seq(Token) /\ Len(Unread) = Len(raw) + Len(Coming)
      /\ \A i \in 1..Len(Coming) : Unread[i + Len(raw)] = Coming[i]
  BY <1>1, UnreadFacts
<1>q. inq \in Seq(Token) /\ rest \in Seq(Token) /\ Len(raw) \in Nat /\ inq' \in Seq(Token)
  <2>1. inq \in Seq(Token) /\ rest \in Seq(Token) /\ raw \in Seq(Token)
    BY <1>u, Zenon DEF LinkStores
  <2>2. \A S : \A s \in Seq(S) : s # <<>> => Tail(s) \in Seq(S)
    OBVIOUS
  <2>3. Tail(inq) \in Seq(Token)
    BY <1>1, <2>1, <2>2, Zenon
  <2>4. Len(raw) \in Nat
    BY <2>1
  <2>5. inq' \in Seq(Token)
    BY <1>1, <2>1, <2>3, Zenon
  <2> QED  BY <2>1, <2>4, <2>5
<1>2. LinkTypeOK'
  <2>1. LinkFlags'
    BY <1>1, <1>u, Zenon DEF LinkFlags
  <2>2. LinkStores'
    BY <1>1, <1>q, <1>u DEF LinkStores
  <2>3. LinkHistory'
    BY <1>1, <1>u DEF LinkHistory
  <2> QED  BY <2>1, <2>2, <2>3, LinkTypeParts
<1>3. Unread' = Coming' /\ Coming = inq \o rest /\ Coming' = inq' \o rest
  BY <1>1 DEF Coming, Unread
<1>4. FramesInv'
  <2>1. CASE inq' = inq
    <3>1. Unread' = Coming
      BY <1>3, <2>1
    <3>2. Len(Unread) = Len(Unread') + Len(raw)
      BY <1>q, <1>u, <3>1
    <3> QED  BY <1>1, <1>q, <1>u, <3>1, <3>2, StreamTaken
  <2>2. CASE inq' = Tail(inq)
    <3>1. /\ Unread' \in Seq(Token) /\ Len(Coming) = Len(Unread') + 1
          /\ \A i \in 1..Len(Unread') : Unread'[i] = Coming[i + 1] /\ i + 1 \in 1..Len(Coming)
      BY <1>1, <1>3, <1>q, <2>2
    <3> DEFINE k == Len(raw) + 1
    <3>2. k \in Nat /\ Len(Unread) = Len(Unread') + k
      BY <1>q, <1>u, <3>1
    <3>3. \A i \in 1..Len(Unread') : Unread'[i] = Unread[i + k]
      <4> TAKE i \in 1..Len(Unread')
      <4>1. Unread'[i] = Unread[(i + 1) + Len(raw)]
        BY <1>u, <3>1
      <4>2. (i + 1) + Len(raw) = i + k
        BY <1>q
      <4> QED  BY <4>1, <4>2
    <3> HIDE DEF k
    <3> QED  BY <1>1, <1>u, <3>1, <3>2, <3>3, StreamTaken
  <2> QED  BY <1>1, <2>1, <2>2
<1>5. ReaderInv' /\ OwnInv'
  BY <1>1 DEF LinkInv, ReaderInv, OwnInv
<1> QED  BY <1>2, <1>4, <1>5 DEF LinkInv

LEMMA PushStep == LinkInv /\ ParsePush => LinkInv'
<1> SUFFICES ASSUME LinkInv, ParsePush PROVE LinkInv'
  OBVIOUS
<1>1. /\ mt = "parsing" /\ raw = Framed(Pushed) /\ traced' = traced \o <<Pushed, Ack>>
      /\ mt' = "reading" /\ raw' = <<>>
      /\ UNCHANGED <<sock, txn, outcome, conn, inq, fuji, asked, rest, pushed, downs, soured>>
  BY DEF ParsePush, peer
<1>2. \/ wire' = wire \o <<Pushed, Ack>> /\ UNCHANGED lost
      \/ wire' = Append(wire, Pushed) /\ lost' = TRUE
  BY DEF ParsePush
<1>u. /\ LinkFlags /\ LinkStores /\ LinkHistory /\ Coming \in Seq(Token)
      /\ Unread \in Seq(Token) /\ Len(Unread) = Len(raw) + Len(Coming)
      /\ \A i \in 1..Len(Coming) : Unread[i + Len(raw)] = Coming[i]
  BY <1>1, UnreadFacts
<1>k. Len(raw) = 3 /\ Len(Coming) \in Nat
  BY <1>1, <1>u DEF Framed
<1>2t. LinkTypeOK'
  <2>1. LinkFlags'
    <3>1. lost' \in BOOLEAN
      BY <1>2, <1>u, Zenon DEF LinkFlags
    <3> QED  BY <1>1, <1>u, <3>1, Zenon DEF LinkFlags
  <2>2. LinkStores'
    BY <1>1, <1>u DEF LinkStores
  <2>3. LinkHistory'
    <3> DEFINE Tapped == Inbound \cup Outbound
    <3>1. Pushed \in Tapped /\ Ack \in Tapped
      BY TokenFacts DEF Outbound
    <3>2. traced \in Seq(Tapped) /\ wire \in Seq(Tapped)
      BY <1>u DEF LinkHistory
    <3> HIDE DEF Tapped
    <3>3. <<Pushed, Ack>> \in Seq(Tapped)
      BY <3>1
    <3>4. /\ traced \o <<Pushed, Ack>> \in Seq(Tapped) /\ wire \o <<Pushed, Ack>> \in Seq(Tapped)
          /\ Append(wire, Pushed) \in Seq(Tapped)
      BY <3>1, <3>2, <3>3, ConcatProperties, AppendProperties
    <3>5. traced' \in Seq(Tapped) /\ wire' \in Seq(Tapped)
      BY <1>1, <1>2, <3>4
    <3> QED  BY <3>5 DEF Tapped, LinkHistory
  <2> QED  BY <2>1, <2>2, <2>3, LinkTypeParts
<1>3. Coming' = Coming /\ Unread' = Coming
  <2>1. Coming' = Coming
    BY <1>1 DEF Coming
  <2>2. Unread' = <<>> \o Coming
    BY <1>1, <2>1 DEF Unread
  <2> QED  BY <1>u, <2>1, <2>2, ConcatEmptySeq
<1>l. Len(Unread) = Len(Unread') + 3 /\ \A i \in 1..Len(Unread') : Unread'[i] = Unread[i + 3]
  BY <1>3, <1>k, <1>u
<1>4. FramesInv'
  BY <1>1, <1>3, <1>u, <1>l, StreamTaken
<1>5. ReaderInv'
  BY <1>1 DEF LinkInv, ReaderInv
<1>6. OwnInv'
  <2>1. ASSUME ~soured, NEW i \in 1..Len(Unread'), Unread'[i].kind = "reply"
        PROVE  Unread'[i].n = txn /\ i >= Len(Unread') - 1 /\ asked = <<>>
    <3>1. i + 3 \in 1..Len(Unread) /\ Unread[i + 3].kind = "reply"
      BY <1>3, <1>k, <1>l, <2>1
    <3>2. Unread[i + 3].n = txn /\ i + 3 >= Len(Unread) - 1 /\ asked = <<>>
      BY <1>1, <2>1, <3>1 DEF LinkInv, OwnInv
    <3> QED  BY <1>3, <1>k, <1>l, <3>2
  <2> QED  BY <1>1, <2>1 DEF LinkInv, OwnInv
<1> QED  BY <1>2t, <1>4, <1>5, <1>6 DEF LinkInv

LEMMA ReplyFacts ==
  ASSUME LinkInv, ~soured, mt = "parsing"
  PROVE  /\ raw[2] \in Inbound /\ raw = Framed(raw[2])
         /\ raw[2].kind = "reply" =>
              raw[2].n = txn /\ asked = <<>> /\ inq = <<>> /\ rest = <<>>
<1>u. /\ LinkStores /\ Len(Unread) = Len(raw) + Len(Coming)
      /\ Len(Coming) = Len(inq) + Len(rest)
      /\ \A i \in 1..Len(raw) : Unread[i] = raw[i]
  BY UnreadFacts
<1>1. Len(raw) = 3 /\ raw \in Seq(Token) /\ Len(inq) \in Nat /\ Len(rest) \in Nat
  BY <1>u DEF LinkInv, ReaderInv, LinkStores
<1>2. Framing(Unread, 0)
  BY DEF LinkInv, FramesInv
<1>3. raw[1] = END /\ raw[2] \in Inbound /\ raw[3] = END
  <2>1. 1 \in 1..Len(Unread) /\ 2 \in 1..Len(Unread) /\ 3 \in 1..Len(Unread)
    BY <1>u, <1>1
  <2>2. /\ (1 + 0) % 3 = 1 /\ (2 + 0) % 3 = 2 /\ (3 + 0) % 3 = 0
    OBVIOUS
  <2>3. Unread[1] = END /\ Unread[2] \in Inbound /\ Unread[3] = END
    BY <1>2, <2>1, <2>2 DEF Framing
  <2> QED  BY <1>u, <1>1, <2>3
<1>4. raw = Framed(raw[2])
  <2>1. /\ Framed(raw[2]) \in Seq(Token) /\ Len(Framed(raw[2])) = 3
        /\ \A i \in 1..3 : Framed(raw[2])[i] = raw[i]
    BY <1>1, <1>3, TokenFacts DEF Framed
  <2> QED  BY <1>1, <2>1, SeqEqual
<1>5. ASSUME raw[2].kind = "reply"
      PROVE  raw[2].n = txn /\ asked = <<>> /\ inq = <<>> /\ rest = <<>>
  <2>1. 2 \in 1..Len(Unread) /\ Unread[2] = raw[2]
    BY <1>u, <1>1
  <2>2. raw[2].n = txn /\ 2 >= Len(Unread) - 1 /\ asked = <<>>
    BY <1>5, <2>1 DEF LinkInv, OwnInv
  <2>3. Len(inq) = 0 /\ Len(rest) = 0
    BY <1>u, <1>1, <2>2
  <2>4. inq = <<>> /\ rest = <<>>
    BY <1>u, <2>3 DEF LinkStores
  <2> QED  BY <2>2, <2>4
<1> QED  BY <1>3, <1>4, <1>5

LEMMA ReplyStep == ASSUME NEW n \in 1..MaxTxn PROVE LinkInv /\ ParseReply(n) => LinkInv'
<1> SUFFICES ASSUME LinkInv, ParseReply(n) PROVE LinkInv'
  OBVIOUS
<1> DEFINE reply == [kind |-> "reply", n |-> n]
<1>r. reply \in Inbound /\ reply.kind = "reply" /\ reply.n = n
  BY DEF Inbound, Replies
<1> HIDE DEF reply
<1>1. /\ mt = "parsing" /\ raw = Framed(reply) /\ raw[2] = reply
      /\ traced' = Append(traced, reply) /\ wire' = Append(wire, reply)
      /\ outcome' = "OK" /\ soured' = (soured \/ n # txn) /\ mt' = "idle"
      /\ UNCHANGED <<sock, raw, txn, conn, inq, fuji, asked, rest, pushed, downs, lost>>
  BY DEF ParseReply, Framed, peer, reply
<1>u. /\ LinkFlags /\ LinkStores /\ LinkHistory /\ Coming \in Seq(Token)
      /\ Unread \in Seq(Token) /\ Len(Unread) = Len(raw) + Len(Coming)
      /\ \A i \in 1..Len(Coming) : Unread[i + Len(raw)] = Coming[i]
  BY <1>1, UnreadFacts
<1>k. Len(raw) = 3 /\ Len(Coming) \in Nat
  BY <1>1, <1>u DEF Framed
<1>2. LinkTypeOK'
  <2>1. LinkFlags'
    <3>1. soured' \in BOOLEAN
      BY <1>1, Zenon
    <3> QED  BY <1>1, <1>u, <3>1, Zenon DEF LinkFlags
  <2>2. LinkStores'
    BY <1>1, <1>u DEF LinkStores, Outcome
  <2>3. LinkHistory'
    BY <1>1, <1>r, <1>u, AppendProperties DEF LinkHistory
  <2> QED  BY <2>1, <2>2, <2>3, LinkTypeParts
<1>3. Coming' = Coming /\ Unread' = Coming
  BY <1>1 DEF Coming, Unread
<1>4. FramesInv'
  <2>1. ~soured' => ~soured
    BY <1>1, Zenon
  <2>2. /\ Unread' \in Seq(Token) /\ Len(Unread) = Len(Unread') + 3 /\ conn' = conn
        /\ \A i \in 1..Len(Unread') : Unread'[i] = Unread[i + 3]
    BY <1>1, <1>3, <1>k, <1>u
  <2> QED  BY <1>u, <2>1, <2>2, StreamTaken
<1>5. ReaderInv'
  BY <1>1 DEF LinkInv, ReaderInv
<1>6. OwnInv'
  <2>1. ~soured => asked = <<>> /\ inq = <<>> /\ rest = <<>>
    BY <1>1, <1>r, ReplyFacts
  <2> QED  BY <1>1, <2>1 DEF OwnInv
<1> QED  BY <1>2, <1>4, <1>5, <1>6 DEF LinkInv

\* A frame of FujiNet's goes on the end of the stream.
LEMMA StreamGrows ==
  ASSUME LinkInv, conn = "up", rest = <<>>, NEW b \in Inbound, rest' = Framed(b),
         UNCHANGED <<raw, mt, inq, conn, soured>>
  PROVE  /\ rest' \in Seq(Token) /\ FramesInv'
         /\ Unread' = Unread \o Framed(b) /\ Len(Unread') = Len(Unread) + 3
<1>u. /\ LinkStores /\ Coming \in Seq(Token) /\ Unread \in Seq(Token)
      /\ mt \in {"reading", "parsing"} => Unread = raw \o Coming
      /\ mt \notin {"reading", "parsing"} => Unread = Coming
  BY UnreadFacts
<1>1. PICK o \in 0..2 : /\ Framing(Unread, o) /\ (~soured => o = 0)
                        /\ (Len(Unread) + o) % 3 = 0
  BY DEF LinkInv, FramesInv
<1> DEFINE f == Framed(b)
<1>2. f \in Seq(Token)
  BY TokenFacts DEF Framed
<1>3. /\ Unread \o f \in Seq(Token) /\ Len(Unread \o f) = Len(Unread) + 3
      /\ Framing(Unread \o f, o) /\ (Len(Unread \o f) + o) % 3 = 0
  BY <1>1, <1>u, FramingGrows
<1> HIDE DEF f
<1>4. Coming = inq /\ Coming' = inq \o f
  <2>1. inq \in Seq(Token)
    BY <1>u DEF LinkStores
  <2> QED  BY <2>1, ConcatEmptySeq DEF Coming, f
<1>5. Unread' = Unread \o f
  <2>1. CASE mt \in {"reading", "parsing"}
    <3>1. Unread' = raw \o (inq \o f) /\ Unread = raw \o inq
      BY <1>4, <1>u, <2>1 DEF Unread
    <3>2. raw \in Seq(Token) /\ inq \in Seq(Token)
      BY <1>u DEF LinkStores
    <3> QED  BY <1>2, <3>1, <3>2, ConcatAssociative
  <2>2. CASE mt \notin {"reading", "parsing"}
    BY <1>4, <1>u, <2>2 DEF Unread
  <2> QED  BY <2>1, <2>2
<1>6. FramesInv'
  BY <1>1, <1>3, <1>5 DEF FramesInv, Framing
<1> QED  BY <1>2, <1>3, <1>5, <1>6 DEF f

LEMMA FujiFrameSteps == LinkInv /\ (FujiPushes \/ FujiReplies) => LinkInv'
<1> SUFFICES ASSUME LinkInv, FujiPushes \/ FujiReplies PROVE LinkInv'
  OBVIOUS
<1>1. /\ conn = "up" /\ rest = <<>> /\ asked # <<>>
      /\ UNCHANGED <<sock, raw, txn, outcome, mt, traced, conn, inq, fuji, downs,
                     wire, lost, soured>>
  BY DEF FujiPushes, FujiReplies, cart
<1>u. /\ LinkFlags /\ LinkStores /\ LinkHistory
      /\ Unread \in Seq(Token) /\ Len(Unread) \in Nat
  BY UnreadFacts
<1>2. PICK b \in Inbound :
        /\ rest' = Framed(b) /\ asked' \in Seq(1..MaxTxn) /\ pushed' \in 0..MaxPushed
        /\ \/ b = Pushed /\ asked' = asked
           \/ b.kind = "reply" /\ b.n = Head(asked) /\ asked' = Tail(asked)
  <2>1. CASE FujiPushes
    <3>1. pushed' \in 0..MaxPushed
      BY <1>u, <2>1, LinkAssumption DEF FujiPushes, LinkStores
    <3> QED  BY <1>u, <2>1, <3>1, TokenFacts DEF FujiPushes, LinkStores
  <2>2. CASE FujiReplies
    <3> DEFINE b == [kind |-> "reply", n |-> Head(asked)]
    <3>1. /\ rest' = Framed(b) /\ asked' = Tail(asked) /\ pushed' = pushed
      BY <2>2 DEF FujiReplies
    <3>2. asked \in Seq(1..MaxTxn) /\ Head(asked) \in 1..MaxTxn /\ Tail(asked) \in Seq(1..MaxTxn)
      <4>1. asked \in Seq(1..MaxTxn) /\ asked # <<>>
        BY <1>1, <1>u DEF LinkStores
      <4> QED  BY <4>1, HeadTailProperties
    <3>3. b \in Inbound /\ b.kind = "reply" /\ b.n = Head(asked)
      BY <3>2 DEF Inbound, Replies
    <3> HIDE DEF b
    <3> QED  BY <1>u, <3>1, <3>2, <3>3 DEF LinkStores
  <2> QED  BY <2>1, <2>2
<1>3. /\ rest' \in Seq(Token) /\ FramesInv'
      /\ Unread' = Unread \o Framed(b) /\ Len(Unread') = Len(Unread) + 3
  BY <1>1, <1>2, StreamGrows
<1>4. LinkTypeOK'
  <2>1. LinkFlags'
    BY <1>1, <1>u, Zenon DEF LinkFlags
  <2>2. LinkStores'
    BY <1>1, <1>2, <1>3, <1>u DEF LinkStores
  <2>3. LinkHistory'
    BY <1>1, <1>u DEF LinkHistory
  <2> QED  BY <2>1, <2>2, <2>3, LinkTypeParts
<1>5. ReaderInv'
  BY <1>1 DEF LinkInv, ReaderInv
<1>6. OwnInv'
  <2> SUFFICES ASSUME ~soured PROVE OwnInv'
    BY <1>1 DEF OwnInv
  <2>1. /\ mt \in {"reading", "parsing"} /\ asked = <<txn>> /\ asked' \in {<<>>, <<txn>>}
        /\ Head(asked) = txn /\ Tail(asked) = <<>>
        /\ \A i \in 1..Len(Unread) : Unread[i].kind # "reply"
    <3>1. mt \in {"reading", "parsing"}
      BY <1>1 DEF LinkInv, OwnInv
    <3>2. asked = <<txn>> /\ \A i \in 1..Len(Unread) : Unread[i].kind # "reply"
      BY <1>1, <3>1 DEF LinkInv, OwnInv
    <3>3. Head(asked) = txn /\ Tail(asked) = <<>>
      BY <3>2
    <3> QED  BY <1>2, <3>1, <3>2, <3>3
  <2>2. ASSUME NEW i \in 1..Len(Unread'), Unread'[i].kind = "reply"
        PROVE  Unread'[i].n = txn /\ i >= Len(Unread') - 1 /\ asked' = <<>>
    <3>1. /\ Framed(b) \in Seq(Token) /\ Len(Framed(b)) = 3
          /\ Framed(b)[1] = END /\ Framed(b)[2] = b /\ Framed(b)[3] = END
      BY TokenFacts DEF Framed
    <3>2. \A j \in 1..Len(Unread) + 3 :
            Unread'[j] = IF j <= Len(Unread) THEN Unread[j] ELSE Framed(b)[j - Len(Unread)]
      BY <1>3, <1>u, <3>1, ConcatProperties
    <3>3. i > Len(Unread)
      BY <1>3, <1>u, <2>1, <2>2, <3>2
    <3>4. i - Len(Unread) \in 1..3 /\ Unread'[i] = Framed(b)[i - Len(Unread)]
      BY <1>3, <1>u, <3>2, <3>3
    <3>5. i - Len(Unread) = 2 /\ b.kind = "reply" /\ Unread'[i] = b
      BY <2>2, <3>1, <3>4, TokenFacts
    <3>6. b.n = txn /\ asked' = <<>>
      BY <1>2, <2>1, <3>5, TokenFacts
    <3> QED  BY <1>3, <1>u, <3>5, <3>6
  <2> QED  BY <1>1, <2>1, <2>2 DEF OwnInv
<1> QED  BY <1>3, <1>4, <1>5, <1>6 DEF LinkInv

LEMMA FujiSendsStep == LinkInv /\ FujiSends => LinkInv'
<1> SUFFICES ASSUME LinkInv, FujiSends PROVE LinkInv'
  OBVIOUS
<1>1. /\ conn = "up" /\ rest # <<>> /\ inq' = Append(inq, Head(rest)) /\ rest' = Tail(rest)
      /\ UNCHANGED <<sock, raw, txn, outcome, mt, traced, conn, fuji, asked, pushed, downs,
                     wire, lost, soured>>
  BY DEF FujiSends, cart
<1>u. LinkFlags /\ LinkStores /\ LinkHistory
  BY UnreadFacts
<1>2. inq \in Seq(Token) /\ rest \in Seq(Token) /\ Head(rest) \in Token /\ Tail(rest) \in Seq(Token)
  <2>1. inq \in Seq(Token) /\ rest \in Seq(Token)
    BY <1>u DEF LinkStores
  <2> QED  BY <1>1, <2>1, HeadTailProperties
<1>3. inq' \in Seq(Token) /\ rest' \in Seq(Token)
  BY <1>1, <1>2, AppendProperties
<1>4. Coming' = Coming /\ Unread' = Unread
  <2>1. Coming' = Coming
    BY <1>1, <1>2, TokenMoves DEF Coming
  <2> QED  BY <1>1, <2>1 DEF Unread
<1>5. LinkTypeOK'
  <2>1. LinkFlags'
    BY <1>1, <1>u, Zenon DEF LinkFlags
  <2>2. LinkStores'
    BY <1>1, <1>3, <1>u DEF LinkStores
  <2>3. LinkHistory'
    BY <1>1, <1>u DEF LinkHistory
  <2> QED  BY <2>1, <2>2, <2>3, LinkTypeParts
<1>6. FramesInv'
  BY <1>1, <1>4 DEF LinkInv, FramesInv, Framing
<1>7. ReaderInv'
  BY <1>1 DEF LinkInv, ReaderInv
<1>8. OwnInv'
  BY <1>1, <1>4 DEF LinkInv, OwnInv
<1> QED  BY <1>5, <1>6, <1>7, <1>8 DEF LinkInv

\* FujiNet's end of the connection goes, with or without what was under way.
LEMMA FujiDiesStep == LinkInv /\ FujiDies => LinkInv'
<1> SUFFICES ASSUME LinkInv, FujiDies PROVE LinkInv'
  OBVIOUS
<1>1. /\ fuji' = FALSE /\ downs < MaxDown /\ downs' = downs + 1 /\ inq' \in {inq, <<>>}
      /\ conn' = (IF conn = "up" THEN "closed" ELSE conn) /\ asked' = <<>> /\ rest' = <<>>
      /\ UNCHANGED <<sock, raw, txn, outcome, mt, traced, pushed, wire, lost, soured>>
  BY DEF FujiDies, cart
<1>u. /\ LinkFlags /\ LinkStores /\ LinkHistory
      /\ Coming \in Seq(Token) /\ Len(Coming) = Len(inq) + Len(rest)
      /\ Unread \in Seq(Token)
      /\ mt \notin {"reading", "parsing"} => Unread = Coming
  BY UnreadFacts
<1>2. inq \in Seq(Token) /\ rest \in Seq(Token) /\ raw \in Seq(Token) /\ inq' \in Seq(Token)
  <2>1. inq \in Seq(Token) /\ rest \in Seq(Token) /\ raw \in Seq(Token)
    BY <1>u DEF LinkStores
  <2>2. <<>> \in Seq(Token)
    OBVIOUS
  <2> QED  BY <1>1, <2>1, <2>2
<1>3. LinkTypeOK'
  <2>1. LinkFlags'
    BY <1>1, <1>u, Zenon DEF LinkFlags
  <2>2. LinkStores'
    <3>1. downs' \in 0..MaxDown
      BY <1>1, <1>u, LinkAssumption DEF LinkStores
    <3>2. asked' \in Seq(1..MaxTxn) /\ rest' \in Seq(Token)
      BY <1>1
    <3> QED  BY <1>1, <1>2, <1>u, <3>1, <3>2 DEF LinkStores
  <2>3. LinkHistory'
    BY <1>1, <1>u DEF LinkHistory
  <2> QED  BY <2>1, <2>2, <2>3, LinkTypeParts
<1>4. Coming' = inq'
  BY <1>1, <1>2, ConcatEmptySeq DEF Coming
<1>5. /\ Unread' \in Seq(Token) /\ Len(Unread') <= Len(Unread)
      /\ \A i \in 1..Len(Unread') : Unread'[i] = Unread[i]
  <2>1. /\ Len(inq') <= Len(Coming)
        /\ \A i \in 1..Len(inq') : inq'[i] = Coming[i]
    <3>1. /\ Len(inq) \in Nat /\ Len(rest) \in Nat
          /\ \A i \in 1..Len(inq) + Len(rest) :
               Coming[i] = IF i <= Len(inq) THEN inq[i] ELSE rest[i - Len(inq)]
      BY <1>2, ConcatProperties DEF Coming
    <3>2. CASE inq' = inq
      BY <1>u, <3>1, <3>2
    <3>3. CASE inq' = <<>>
      BY <1>u, <3>1, <3>3
    <3> QED  BY <1>1, <3>2, <3>3
  <2>2. CASE mt \in {"reading", "parsing"}
    <3>1. Unread = raw \o Coming /\ Unread' = raw \o inq'
      BY <1>1, <1>4, <2>2 DEF Unread
    <3>2. /\ Len(raw \o Coming) = Len(raw) + Len(Coming)
          /\ \A i \in 1..Len(raw) + Len(Coming) :
               (raw \o Coming)[i] = IF i <= Len(raw) THEN raw[i] ELSE Coming[i - Len(raw)]
          /\ raw \o inq' \in Seq(Token) /\ Len(raw \o inq') = Len(raw) + Len(inq')
          /\ \A i \in 1..Len(raw) + Len(inq') :
               (raw \o inq')[i] = IF i <= Len(raw) THEN raw[i] ELSE inq'[i - Len(raw)]
      <4>1. ASSUME NEW t \in Seq(Token)
            PROVE  /\ raw \o t \in Seq(Token) /\ Len(raw \o t) = Len(raw) + Len(t)
                   /\ \A i \in 1..Len(raw) + Len(t) :
                        (raw \o t)[i] = IF i <= Len(raw) THEN raw[i] ELSE t[i - Len(raw)]
        BY <1>2, ConcatProperties
      <4>2. /\ Len(raw \o Coming) = Len(raw) + Len(Coming)
            /\ \A i \in 1..Len(raw) + Len(Coming) :
                 (raw \o Coming)[i] = IF i <= Len(raw) THEN raw[i] ELSE Coming[i - Len(raw)]
        BY <1>u, <4>1, Zenon
      <4>3. /\ raw \o inq' \in Seq(Token) /\ Len(raw \o inq') = Len(raw) + Len(inq')
            /\ \A i \in 1..Len(raw) + Len(inq') :
                 (raw \o inq')[i] = IF i <= Len(raw) THEN raw[i] ELSE inq'[i - Len(raw)]
        BY <1>2, <4>1, Zenon
      <4> QED  BY <4>2, <4>3
    <3>3. Len(raw) \in Nat /\ Len(inq') \in Nat /\ Len(Coming) \in Nat
      BY <1>2, <1>u
    <3>4. ASSUME NEW i \in 1..Len(raw) + Len(inq') PROVE (raw \o inq')[i] = (raw \o Coming)[i]
      <4>1. i \in 1..Len(raw) + Len(Coming)
        BY <2>1, <3>3
      <4>2. i > Len(raw) => i - Len(raw) \in 1..Len(inq')
        BY <3>3
      <4> QED  BY <2>1, <3>2, <3>3, <4>1, <4>2
    <3> QED  BY <2>1, <3>1, <3>2, <3>3, <3>4
  <2>3. CASE mt \notin {"reading", "parsing"}
    BY <1>1, <1>2, <1>4, <1>u, <2>1, <2>3 DEF Unread
  <2> QED  BY <2>2, <2>3
<1>6. FramesInv'
  <2>1. conn' # "up" /\ soured' = soured
    BY <1>1
  <2>2. LinkStores'
    BY <1>3, LinkTypeParts
  <2> QED  BY <1>5, <1>u, <2>1, <2>2, StreamCut
<1>7. ReaderInv'
  BY <1>1 DEF LinkInv, ReaderInv
<1>8. OwnInv'
  <2>1. ASSUME ~soured, mt \in {"reading", "parsing"}, NEW i \in 1..Len(Unread'),
               Unread'[i].kind = "reply"
        PROVE  Unread'[i].n = txn /\ i >= Len(Unread') - 1
    <3>1. i \in 1..Len(Unread) /\ Unread[i].kind = "reply"
      BY <1>5, <1>u, <2>1
    <3>2. Unread[i].n = txn /\ i >= Len(Unread) - 1
      BY <2>1, <3>1 DEF LinkInv, OwnInv
    <3> QED  BY <1>5, <1>u, <3>2
  <2>2. ~soured /\ mt \notin {"reading", "parsing"} => inq' = <<>>
    BY <1>1 DEF LinkInv, OwnInv
  <2> QED  BY <1>1, <2>1, <2>2 DEF OwnInv
<1> QED  BY <1>3, <1>6, <1>7, <1>8 DEF LinkInv

LEMMA QuietSteps == LinkInv /\ (FujiComesUp \/ UNCHANGED link) => LinkInv'
<1> SUFFICES ASSUME LinkInv, FujiComesUp \/ UNCHANGED link PROVE LinkInv'
  OBVIOUS
<1>1. /\ fuji' \in {TRUE, fuji}
      /\ UNCHANGED <<sock, raw, txn, outcome, mt, traced, conn, inq, asked, rest, pushed, downs,
                     wire, lost, soured>>
  BY DEF FujiComesUp, link, cart, peer
<1>u. LinkFlags /\ LinkStores /\ LinkHistory
  BY UnreadFacts
<1>2. LinkTypeOK'
  <2>1. LinkFlags'
    BY <1>1, <1>u, Zenon DEF LinkFlags
  <2>2. LinkStores'
    BY <1>1, <1>u DEF LinkStores
  <2>3. LinkHistory'
    BY <1>1, <1>u DEF LinkHistory
  <2> QED  BY <2>1, <2>2, <2>3, LinkTypeParts
<1>3. Coming' = Coming /\ Unread' = Unread
  BY <1>1 DEF Coming, Unread
<1>4. FramesInv' /\ ReaderInv' /\ OwnInv'
  BY <1>1, <1>3 DEF LinkInv, FramesInv, Framing, ReaderInv, OwnInv
<1> QED  BY <1>2, <1>4 DEF LinkInv

LEMMA LinkInitInv == LinkInit => LinkInv
<1> SUFFICES ASSUME LinkInit PROVE LinkInv
  OBVIOUS
<1>1. LinkTypeOK
  <2>1. LinkFlags
    BY Zenon DEF LinkInit, LinkFlags
  <2>2. LinkStores
    BY LinkAssumption DEF LinkInit, LinkStores, Outcome
  <2>3. LinkHistory
    BY DEF LinkInit, LinkHistory
  <2> QED  BY <2>1, <2>2, <2>3, LinkTypeParts
<1>2. FramesInv
  <2>1. Unread = <<>>
    BY DEF LinkInit, Unread, Coming
  <2>2. Framing(Unread, 0) /\ (Len(Unread) + 0) % 3 = 0
    BY <2>1 DEF Framing
  <2> QED  BY <2>2 DEF FramesInv
<1>3. ReaderInv /\ OwnInv
  BY DEF LinkInit, ReaderInv, OwnInv
<1> QED  BY <1>1, <1>2, <1>3 DEF LinkInv

LEMMA NextLinkInv == LinkInv /\ [LinkNext]_link => LinkInv'
BY DialStep, TransactSteps, ReadStep, OverflowStep, GiveUpSteps, PushStep, ReplyStep, FujiFrameSteps,
   FujiSendsStep, FujiDiesStep, QuietSteps
   DEF LinkNext, Machine, FujiNet

\* The stream of tokens stays in step with the frames through every push, torn
\* delivery and death of FujiNet, and the variables keep to their types: what
\* read_frame reads is three tokens at most (fujitcp_win32.c:121-174).
THEOREM LinkInvariance == LinkSpec => []LinkInv
BY LinkInitInv, NextLinkInv, PTL DEF LinkSpec

\* A transaction ends with the reply to its own request, past any number of
\* pushed frames, as long as none before it gave up (fujitcp_win32.c:176-212).
THEOREM OwnReply == LinkSpec => ReplyIsOwn
<1>1. LinkInv /\ [LinkNext]_link =>
        [mt = "parsing" /\ mt' = "idle" /\ ~soured => outcome' = "OK" /\ raw[2].n = txn]_link
  <2> SUFFICES ASSUME LinkInv, LinkNext, mt = "parsing", mt' = "idle", ~soured
               PROVE  outcome' = "OK" /\ raw[2].n = txn
    OBVIOUS
  <2>1. /\ raw[2] \in Inbound /\ raw = Framed(raw[2])
        /\ raw[2].kind = "reply" => raw[2].n = txn
    BY ReplyFacts
  <2>2. ~ParseBad
    BY <2>1 DEF ParseBad
  <2>3. PICK n \in 1..MaxTxn : ParseReply(n)
    BY <2>2 DEF LinkNext, Machine, FujiNet, fujitcp_init, TransactUnsent, Transact, ReadFrame,
                ReadOverflows, ReadTimesOut, ParsePush, FujiPushes, FujiReplies, FujiSends, FujiDies,
                FujiComesUp, cart
  <2>4. outcome' = "OK" /\ raw[2].kind = "reply"
    BY <2>3 DEF ParseReply, Framed
  <2> QED  BY <2>1, <2>4
<1> QED  BY <1>1, LinkInvariance, PTL DEF LinkSpec, ReplyIsOwn

\* The debugger's trace is the wire, frame for frame and in order, until a send
\* fails (fujinet_cart.c:320-362).
THEOREM TraceIsWire == LinkSpec => []TraceIsTheWire
<1>1. LinkInit => TraceIsTheWire
  BY DEF LinkInit, TraceIsTheWire
<1>2. TraceIsTheWire /\ [LinkNext]_link => TraceIsTheWire'
  <2> SUFFICES ASSUME TraceIsTheWire, [LinkNext]_link PROVE TraceIsTheWire'
    OBVIOUS
  <2>1. CASE Transact
    BY <2>1 DEF Transact, SendTakes, SendFails, TraceIsTheWire
  <2>2. CASE ParsePush
    BY <2>2 DEF ParsePush, TraceIsTheWire
  <2>3. CASE \E n \in 1..MaxTxn : ParseReply(n)
    BY <2>3 DEF ParseReply, TraceIsTheWire
  <2>4. CASE UNCHANGED <<traced, wire, lost>>
    BY <2>4 DEF TraceIsTheWire
  <2>5. CASE \/ fujitcp_init \/ TransactUnsent \/ ReadFrame \/ ReadOverflows \/ ReadTimesOut
             \/ ParseBad \/ FujiNet
    BY <2>4, <2>5 DEF fujitcp_init, TransactUnsent, ReadFrame, ReadOverflows, ReadTimesOut, ParseBad, FujiNet,
       FujiPushes, FujiReplies, FujiSends, FujiDies, FujiComesUp, cart
  <2> QED  BY <2>1, <2>2, <2>3, <2>4, <2>5 DEF LinkNext, Machine, link, cart
<1> QED  BY <1>1, <1>2, PTL DEF LinkSpec

-----------------------------------------------------------------------------
(* Who answers for a runtime thread.                                       *)

\* A joinable thread is held while it starts and while the session counts it
\* as running, so not when the next is spawned.
HeldInv ==
  g_runtime_thread # NoThread => caller = "starting" \/ (caller = "idle" /\ fujinet_running)

\* The caller has a thread to wait for exactly while it waits for its end.
WaitInv ==
  /\ victim # NoThread <=> caller \in {"refused", "stopping", "joining"}
  /\ caller = "starting" => g_runtime_thread # NoThread

\* A thread that nobody has given up on is one of these two.
OwnedInv == \A t \in Alive : t \in detached \/ t = g_runtime_thread \/ t = victim

EntryInv == EntryTypeOK /\ HeldInv /\ WaitInv /\ OwnedInv

\* What the runtime threads do moves one of them and no ownership.
LEMMA ThreadStep ==
  ASSUME EntryInv, NEW t \in Thread, Runtime(t)
  PROVE  /\ EntryInv'
         /\ UNCHANGED <<g_runtime_thread, caller>>
<1>1. EntryTypeOK'
  <2> USE DEF EntryInv, Move, session, entry
  <2>1. /\ pc' \in [Thread -> {"unborn", "capture", "setup", "failing", "serve", "sam",
                              "down", "uncapture", "leave", "gone"}]
        /\ UNCHANGED <<lib, handle, g_start, fujinet_running, g_runtime_thread, detached,
                       caller, victim>>
    BY DEF EntryTypeOK, Runtime, StartCapture, SetUp, SetUpFails, FailedExit, SubmitSam,
           SamDrained, ServeEnds, ShutDown, StopCapture, Leave
  <2>2. /\ g_running' \in BOOLEAN /\ setup' \in {"pending", "complete", "failed"}
        /\ shutdown_requested' \in BOOLEAN /\ capture' \in BOOLEAN /\ queued' \in BOOLEAN
    BY DEF EntryTypeOK, Runtime, StartCapture, SetUp, SetUpFails, FailedExit, SubmitSam,
           SamDrained, ServeEnds, ShutDown, StopCapture, Leave
  <2> QED  BY <2>1, <2>2 DEF EntryTypeOK
<1>2. /\ UNCHANGED <<g_runtime_thread, caller, fujinet_running, victim, detached>>
      /\ pc[t] \notin {"unborn", "gone"}
      /\ \A u \in Thread : u # t => pc'[u] = pc[u]
  BY DEF EntryInv, EntryTypeOK, Runtime, StartCapture, SetUp, SetUpFails, FailedExit, SubmitSam,
         SamDrained, ServeEnds, ShutDown, StopCapture, Leave, Move, session, entry
<1>3. Alive' \subseteq Alive
  BY <1>2 DEF Alive
<1>4. HeldInv' /\ WaitInv' /\ OwnedInv'
  BY <1>2, <1>3 DEF EntryInv, HeldInv, WaitInv, OwnedInv
<1> QED  BY <1>1, <1>2, <1>4 DEF EntryInv

LEMMA StartStep ==
  ASSUME EntryInv,
         \/ LoadLibrary \/ LibraryLoaded \/ StartAlreadyRunning \/ StartNoThread
         \/ StartThroughNull \/ (\E t \in Thread : StartSpawn(t))
         \/ StartDone \/ StartFailed \/ JoinFailed
  PROVE  EntryInv'
<1> USE DEF EntryInv
<1>1. CASE LoadLibrary \/ LibraryLoaded
  <2>1. EntryTypeOK'
    BY <1>1 DEF EntryTypeOK, LoadLibrary, LibraryLoaded, session, entry
  <2>2. HeldInv' /\ WaitInv' /\ OwnedInv'
    BY <1>1 DEF HeldInv, WaitInv, OwnedInv, Alive, LoadLibrary, LibraryLoaded, session, entry
  <2> QED  BY <2>1, <2>2
<1>2. CASE StartAlreadyRunning \/ StartNoThread \/ StartThroughNull
  <2>1. EntryTypeOK'
    BY <1>2 DEF EntryTypeOK, StartAlreadyRunning, StartNoThread, StartThroughNull, session, entry
  <2>2. HeldInv' /\ WaitInv' /\ OwnedInv'
    BY <1>2 DEF HeldInv, WaitInv, OwnedInv, Alive, StartAlreadyRunning, StartNoThread,
                StartThroughNull, session, entry
  <2> QED  BY <2>1, <2>2
<1>3. ASSUME NEW t \in Thread, StartSpawn(t) PROVE EntryInv'
  <2>1. EntryTypeOK'
    BY <1>3 DEF EntryTypeOK, StartSpawn, Move, session
  <2>2. HeldInv' /\ WaitInv'
    BY <1>3, EntryAssumption DEF HeldInv, WaitInv, StartSpawn, session
  <2>3. Alive' \subseteq Alive \cup {t}
    BY <1>3 DEF Alive, EntryTypeOK, StartSpawn, Move
  <2>4. g_runtime_thread = NoThread /\ g_runtime_thread' = t /\ UNCHANGED <<victim, detached>>
    BY <1>3 DEF HeldInv, StartSpawn
  <2>5. OwnedInv'
    BY <2>3, <2>4, EntryAssumption DEF OwnedInv, Alive
  <2> QED  BY <2>1, <2>2, <2>5
<1>4. CASE StartDone \/ StartFailed
  <2>1. EntryTypeOK'
    BY <1>4 DEF EntryTypeOK, StartDone, StartFailed, session, entry
  <2>2. HeldInv' /\ WaitInv'
    BY <1>4 DEF HeldInv, WaitInv, StartDone, StartFailed, session, entry
  <2>3. OwnedInv'
    BY <1>4 DEF OwnedInv, WaitInv, Alive, StartDone, StartFailed, session, entry
  <2> QED  BY <2>1, <2>2, <2>3
<1>5. CASE JoinFailed
  <2>1. EntryTypeOK' /\ HeldInv' /\ WaitInv'
    BY <1>5 DEF EntryTypeOK, HeldInv, WaitInv, JoinFailed, session, entry
  <2>2. OwnedInv'
    BY <1>5 DEF OwnedInv, Alive, JoinFailed, session, entry
  <2> QED  BY <2>1, <2>2
<1> QED  BY <1>1, <1>2, <1>3, <1>4, <1>5

LEMMA StopStep ==
  ASSUME EntryInv,
         \/ StopNothing \/ StopRequest \/ StopSeesItEnd \/ StopTimesOut \/ StopJoin \/ StopFinish
  PROVE  EntryInv'
<1> USE DEF EntryInv
<1>1. CASE StopNothing \/ StopSeesItEnd \/ StopFinish
  <2>1. EntryTypeOK'
    BY <1>1 DEF EntryTypeOK, StopNothing, StopSeesItEnd, StopFinish, session, entry
  <2>2. HeldInv' /\ WaitInv' /\ OwnedInv'
    BY <1>1 DEF HeldInv, WaitInv, OwnedInv, Alive, StopNothing, StopSeesItEnd, StopFinish,
                session, entry
  <2> QED  BY <2>1, <2>2
<1>2. CASE StopRequest
  <2>1. EntryTypeOK'
    BY <1>2 DEF EntryTypeOK, StopRequest
  <2>2. HeldInv' /\ WaitInv'
    BY <1>2 DEF HeldInv, WaitInv, StopRequest
  <2>3. OwnedInv'
    BY <1>2 DEF OwnedInv, WaitInv, Alive, StopRequest
  <2> QED  BY <2>1, <2>2, <2>3
<1>3. CASE StopTimesOut
  <2>1. EntryTypeOK'
    BY <1>3, EntryAssumption DEF EntryTypeOK, WaitInv, StopTimesOut, session, entry
  <2>2. HeldInv' /\ WaitInv'
    BY <1>3 DEF HeldInv, WaitInv, StopTimesOut, session, entry
  <2>3. OwnedInv'
    BY <1>3 DEF OwnedInv, Alive, StopTimesOut, session, entry
  <2> QED  BY <2>1, <2>2, <2>3
<1>4. CASE StopJoin
  <2>1. EntryTypeOK' /\ HeldInv' /\ WaitInv'
    BY <1>4 DEF EntryTypeOK, HeldInv, WaitInv, StopJoin, session, entry
  <2>2. OwnedInv'
    BY <1>4 DEF OwnedInv, Alive, StopJoin, session, entry
  <2> QED  BY <2>1, <2>2
<1> QED  BY <1>1, <1>2, <1>3, <1>4

\* The ownership of runtime threads, over starts that fail or find one running
\* and stops that wait or give up (fujinet_desktop_entry.cpp).
THEOREM EntryCorrect == EntrySpec => []EntryInv
<1>1. EntryInit => EntryInv
  BY EntryAssumption DEF EntryInit, EntryInv, EntryTypeOK, HeldInv, WaitInv, OwnedInv, Alive
<1>2. EntryInv /\ [EntryNext]_entryVars => EntryInv'
  <2> SUFFICES ASSUME EntryInv, [EntryNext]_entryVars PROVE EntryInv'
    OBVIOUS
  <2>1. CASE Caller
    BY <2>1, StartStep, StopStep DEF Caller
  <2>2. CASE \E t \in Thread : Runtime(t)
    BY <2>2, ThreadStep
  <2>3. CASE UNCHANGED entryVars
    BY <2>3 DEF EntryInv, EntryTypeOK, HeldInv, WaitInv, OwnedInv, Alive, entryVars, session, entry
  <2> QED  BY <2>1, <2>2, <2>3 DEF EntryNext
<1> QED  BY <1>1, <1>2, PTL DEF EntrySpec

\* start_runtime never assigns over a std::thread that is still joinable, for
\* any number of threads spawned.
THEOREM ThreadsAreJoined == EntrySpec => NeverAssignedOver
<1> DEFINE A == g_runtime_thread' # g_runtime_thread /\ g_runtime_thread' # NoThread
                  => g_runtime_thread = NoThread
<1>1. EntryInv /\ [EntryNext]_entryVars => [A]_entryVars
  <2> SUFFICES ASSUME EntryInv, EntryNext PROVE A
    OBVIOUS
  <2>1. CASE \E t \in Thread : Runtime(t)
    BY <2>1, ThreadStep
  <2>2. ASSUME NEW t \in Thread, StartSpawn(t) PROVE A
    BY <2>2 DEF EntryInv, HeldInv, StartSpawn
  <2>3. CASE Caller /\ ~\E t \in Thread : StartSpawn(t)
    BY <2>3 DEF Caller, LoadLibrary, LibraryLoaded, StartAlreadyRunning, StartNoThread,
                StartThroughNull, StartDone, StartFailed, JoinFailed, StopNothing, StopRequest,
                StopSeesItEnd, StopTimesOut, StopJoin, StopFinish, entry
  <2> QED  BY <2>1, <2>2, <2>3 DEF EntryNext
<1> QED  BY <1>1, EntryCorrect, PTL DEF EntrySpec, NeverAssignedOver

\* stop_runtime, when it has waited, leaves no thread but those given up on
\* earlier, and nothing of the runtime's behind.
THEOREM NothingIsLeft == EntrySpec => StopLeavesNothing
<1> DEFINE A == caller = "finish" /\ caller' = "idle" =>
                  /\ ~shutdown_requested' /\ ~capture' /\ ~g_running' /\ ~queued'
                  /\ Alive \subseteq detached
<1>1. EntryInv /\ [EntryNext]_entryVars => [A]_entryVars
  <2> SUFFICES ASSUME EntryInv, EntryNext, caller = "finish", caller' = "idle"
               PROVE  A
    OBVIOUS
  <2>1. StopFinish
    <3>1. CASE \E t \in Thread : Runtime(t)
      BY <3>1, ThreadStep
    <3>2. CASE Caller
      BY <3>2 DEF Caller, LoadLibrary, LibraryLoaded, StartAlreadyRunning, StartNoThread,
                  StartThroughNull, StartSpawn, StartDone, StartFailed, JoinFailed, StopNothing,
                  StopRequest, StopSeesItEnd, StopTimesOut, StopJoin
    <3> QED  BY <3>1, <3>2 DEF EntryNext
  <2>2. g_runtime_thread = NoThread /\ victim = NoThread
    BY DEF EntryInv, HeldInv, WaitInv
  <2>3. Alive \subseteq detached
    BY <2>2, EntryAssumption DEF EntryInv, OwnedInv, Alive
  <2> QED  BY <2>1, <2>3 DEF StopFinish
<1> QED  BY <1>1, EntryCorrect, PTL DEF EntrySpec, StopLeavesNothing

\* Of the threads nobody has given up on there is at most one.
THEOREM OneIsOwned == EntrySpec => []OneOwnedThread
<1>1. EntryInv => OneOwnedThread
  BY EntryAssumption DEF EntryInv, HeldInv, WaitInv, OwnedInv, OneOwnedThread, Alive
<1> QED  BY <1>1, EntryCorrect, PTL
=============================================================================
