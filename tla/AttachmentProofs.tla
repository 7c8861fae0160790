-------------------------- MODULE AttachmentProofs --------------------------
(***************************************************************************)
(* Theorems about Attachments, for every set of links and obstacles, any   *)
(* number of environments and any cache size.  The types and the ownership *)
(* of disabled obstacles are inductive together.  What is owned can only   *)
(* be said of callers who leave the list of obstacles to enable to the     *)
(* manager: one who passes another list to detach strands the rest.        *)
(***************************************************************************)
EXTENDS Attachments, TLAPS

OwnLists == EnableLists = {<<>>}

AttachInv == AttachTypeOK /\ DisabledOwned

-----------------------------------------------------------------------------
(* Lemmas                                                                  *)

\* What an enable loop over obstacle names makes active has been loaded.
LEMMA EnabledLoaded ==
    ASSUME AttachTypeOK, NEW names \in Seq(Name), NEW n \in 0 .. Envs
    PROVE  /\ Enabled(names, n) \in Scene
           /\ \A e \in Env : /\ active[e] \subseteq Enabled(names, n)[e]
                             /\ Enabled(names, n)[e] \subseteq obstacles[e]
<1>1. ASSUME NEW i \in 1 .. Len(names), NEW e \in Env,
             <<i, e>> \in Reached(names, n)
      PROVE  names[i] \in obstacles[e]
  <2>1. <<i, e>> \in Pairs(names, n)
    BY <1>1 DEF Reached
  <2>2. ~Before(<<i, e>>, <<i, e>>)
    BY <1>1, AttachmentAssumption DEF Before, Env
  <2>3. <<i, e>> \notin Missing(names, n)
    BY <1>1, <2>2 DEF Reached
  <2> QED
    BY <2>1, <2>3 DEF Missing
<1>2. \A e \in Env : Enabled(names, n)[e] =
        active[e] \cup {names[i] : i \in {i \in 1 .. Len(names) :
                                     <<i, e>> \in Reached(names, n)}}
  BY DEF Enabled
<1>3. \A e \in Env : /\ active[e] \subseteq Enabled(names, n)[e]
                     /\ Enabled(names, n)[e] \subseteq obstacles[e]
  <2> SUFFICES ASSUME NEW e \in Env
               PROVE  /\ active[e] \subseteq Enabled(names, n)[e]
                      /\ Enabled(names, n)[e] \subseteq obstacles[e]
    OBVIOUS
  <2>1. active[e] \subseteq obstacles[e]
    BY DEF AttachTypeOK
  <2>2. {names[i] : i \in {i \in 1 .. Len(names) :
                             <<i, e>> \in Reached(names, n)}}
          \subseteq obstacles[e]
    BY <1>1
  <2> QED
    BY <1>2, <2>1, <2>2
<1>4. Enabled(names, n) \in Scene
  BY <1>3 DEF Enabled, AttachTypeOK, Scene
<1> QED
  BY <1>3, <1>4

\* Enabling everything the manager has disabled, when none of it is missing,
\* enables everything that is loaded.
LEMMA FreedEnablesAll ==
    ASSUME AttachInv, Freed
    PROVE  \A e \in Env : Enabled(disabled, disabledEnvs)[e] = obstacles[e]
<1> DEFINE on == Enabled(disabled, disabledEnvs)
<1>1. \A e \in Env : active[e] \subseteq on[e] /\ on[e] \subseteq obstacles[e]
  BY EnabledLoaded DEF AttachInv, AttachTypeOK
<1>2. Reached(disabled, disabledEnvs) = Pairs(disabled, disabledEnvs)
  BY DEF Reached, Freed
<1>3. ASSUME NEW e \in Env, NEW name \in obstacles[e] \ active[e]
      PROVE  name \in on[e]
  <2>1. e \in 1 .. disabledEnvs
    BY <1>3 DEF AttachInv, DisabledOwned, AttachTypeOK, Env
  <2>2. PICK i \in 1 .. Len(disabled) : disabled[i] = name
    BY <1>3 DEF AttachInv, DisabledOwned
  <2>3. <<i, e>> \in Reached(disabled, disabledEnvs)
    BY <1>2, <2>1 DEF Pairs
  <2> QED
    BY <2>2, <2>3 DEF Enabled
<1> HIDE DEF on
<1> QED
  BY <1>1, <1>3 DEF on

\* What the spheres of a link become, of a bank as wide as the joint state.
LEMMA WrittenTyped ==
    ASSUME NEW l \in Link, NEW n \in Env, bank \in Env,
           NEW before \in [Env -> SUBSET Link]
    PROVE  /\ Written(l, n, before) \in [Env -> SUBSET Link]
           /\ \A e \in Env : e > n => Written(l, n, before)[e] = {}
           /\ \A e \in Env : e <= n => l \in Written(l, n, before)[e]
           /\ \A e \in Env :
                Written(l, n, before)[e] \subseteq before[e] \cup {l}
<1>1. \A e \in Env : Resized(n, before)[e] \subseteq before[e]
  BY DEF Resized
<1>2. \A e \in Env : Written(l, n, before)[e] =
                       IF e <= n THEN Resized(n, before)[e] \cup {l} ELSE {}
  BY DEF Written
<1>3. \A e \in Env : e > n => ~(e <= n)
  BY AttachmentAssumption DEF Env
<1>4. \A e \in Env :
        Written(l, n, before)[e] \subseteq before[e] \cup {l}
  BY <1>1, <1>2
<1>5. Written(l, n, before) \in [Env -> SUBSET Link]
  BY <1>4 DEF Written
<1> QED
  BY <1>2, <1>3, <1>4, <1>5

\* The other sets of links: the link itself leaves them.
LEMMA RewrittenTyped ==
    ASSUME NEW l \in Link, NEW n \in Env, bank \in Env,
           NEW before \in [Env -> SUBSET Link]
    PROVE  /\ Rewritten(l, n, before) \in [Env -> SUBSET Link]
           /\ \A e \in Env : e > n => Rewritten(l, n, before)[e] = {}
           /\ \A e \in Env : l \notin Rewritten(l, n, before)[e]
<1>1. \A e \in Env : Resized(n, before)[e] \subseteq before[e]
  BY DEF Resized
<1>2. \A e \in Env : Rewritten(l, n, before)[e] =
                       IF e <= n THEN Resized(n, before)[e] \ {l} ELSE {}
  BY DEF Rewritten
<1>3. \A e \in Env : e > n => ~(e <= n)
  BY AttachmentAssumption DEF Env
<1>4. Rewritten(l, n, before) \in [Env -> SUBSET Link]
  BY <1>1, <1>2 DEF Rewritten
<1> QED
  BY <1>2, <1>3, <1>4

\* What is faded stays among what is carried when a link is written.
LEMMA RewrittenCarried ==
    ASSUME NEW l \in Link, NEW n \in Env,
           NEW before \in [Env -> SUBSET Link], NEW changed \in [Env -> SUBSET Link],
           \A e \in Env : changed[e] \subseteq before[e]
    PROVE  \A e \in Env : Rewritten(l, n, changed)[e] \subseteq Written(l, n, before)[e]
<1>1. \A e \in Env : Resized(n, changed)[e] \subseteq Resized(n, before)[e]
  BY DEF Resized
<1> QED
  BY <1>1 DEF Rewritten, Written

\* A link is restored in each of the sets that are kept of the bank.
LEMMA RestoredTyped ==
    ASSUME NEW l, NEW before \in [Env -> SUBSET Link]
    PROVE  /\ Restored(l, before) \in [Env -> SUBSET Link]
           /\ \A e \in Env : Restored(l, before)[e] = before[e] \ {l}
BY DEF Restored

\* The part of AttachTypeOK that is about the sphere bank.
BankTypeOK ==
    /\ bank \in Env
    /\ carried \in [Env -> SUBSET Link]
    /\ silent \in [Env -> SUBSET Link] /\ faded \in [Env -> SUBSET Link]
    /\ \A e \in Env : /\ e > bank => carried[e] = {} /\ silent[e] = {}
                      /\ faded[e] \subseteq carried[e]

\* Resetting a link keeps the bank well typed.
LEMMA ResetTyped ==
    ASSUME BankTypeOK, NEW l, ResetLink(l), UNCHANGED bank
    PROVE  BankTypeOK'
<1>1. /\ carried' = Restored(l, carried)
      /\ silent' = Restored(l, silent)
      /\ faded' = Restored(l, faded)
  BY DEF ResetLink
<1>2. /\ carried' \in [Env -> SUBSET Link] /\ silent' \in [Env -> SUBSET Link]
      /\ faded' \in [Env -> SUBSET Link]
      /\ \A e \in Env : /\ carried'[e] = carried[e] \ {l}
                        /\ silent'[e] = silent[e] \ {l}
                        /\ faded'[e] = faded[e] \ {l}
  BY <1>1, RestoredTyped DEF BankTypeOK
<1> QED
  BY <1>2 DEF BankTypeOK

\* Writing a payload into a resized bank, after the prior one was reset or not.
LEMMA WriteTyped ==
    ASSUME BankTypeOK, NEW l \in Link, NEW n \in Env,
           NEW a \in [Env -> SUBSET Link], NEW b \in [Env -> SUBSET Link],
           NEW c \in [Env -> SUBSET Link],
           \A e \in Env : c[e] \subseteq a[e],
           WriteLink(l, n, a, b, c)
    PROVE  BankTypeOK'
<1>1. /\ carried' = Written(l, n, a) /\ silent' = Rewritten(l, n, b)
      /\ faded' = Rewritten(l, n, c) /\ bank' = n
  BY DEF WriteLink
<1>2. bank \in Env
  BY DEF BankTypeOK
<1>3. /\ carried' \in [Env -> SUBSET Link]
      /\ \A e \in Env : e > n => carried'[e] = {}
  BY <1>1, <1>2, WrittenTyped
<1>4. /\ silent' \in [Env -> SUBSET Link] /\ faded' \in [Env -> SUBSET Link]
      /\ \A e \in Env : e > n => silent'[e] = {}
  BY <1>1, <1>2, RewrittenTyped
<1>5. \A e \in Env : faded'[e] \subseteq carried'[e]
  BY <1>1, RewrittenCarried
<1> QED
  BY <1>1, <1>3, <1>4, <1>5 DEF BankTypeOK

\* A manager that has forgotten its payload is in the state it started in.
LEMMA ForgotTyped ==
    ASSUME Forget
    PROVE  /\ link' \in Link \cup {None}
           /\ disabled' \in Seq(Name)
           /\ disabledEnvs' \in 0 .. Envs
           /\ disabled' = <<>> <=> disabledEnvs' = 0
           /\ link' = None => disabled' = <<>>
BY AttachmentAssumption DEF Forget

-----------------------------------------------------------------------------
(* The invariant                                                           *)

\* The invariant does not look at the name of the call.
LEMMA UnchangedPreserves ==
    ASSUME AttachInv, UNCHANGED <<world, robot, manager>>, raised' \in BOOLEAN
    PROVE  AttachInv'
BY DEF AttachInv, AttachTypeOK, DisabledOwned, world, robot, manager

LEMMA InitAttachInv == Init => AttachInv
<1> SUFFICES ASSUME Init PROVE AttachInv
  OBVIOUS
<1>1. AttachTypeOK
  <2>1. disabled \in Seq(Name) /\ (disabled = <<>> <=> disabledEnvs = 0)
    BY DEF Init
  <2>2. bank \in Env /\ disabledEnvs \in 0 .. Envs
    BY AttachmentAssumption DEF Init, Env
  <2>3. BankTypeOK
    BY <2>2 DEF Init, BankTypeOK
  <2>4. /\ obstacles \in Scene /\ active \in Scene
        /\ \A e \in Env : active[e] \subseteq obstacles[e]
        /\ capacity \in 0 .. MaxCapacity /\ broken \subseteq Env
        /\ link \in Link \cup {None} /\ raised \in BOOLEAN
    BY DEF Init
  <2> QED
    BY <2>1, <2>2, <2>3, <2>4 DEF AttachTypeOK, BankTypeOK, Init
<1>2. DisabledOwned
  BY DEF Init, DisabledOwned
<1> QED
  BY <1>1, <1>2 DEF AttachInv

\* The spheres of a link are restored and what was disabled is enabled, as far
\* as the loop gets; the payload is forgotten only when it gets to the end.
LEMMA ReleasedPreserves ==
    ASSUME AttachInv, NEW l,
           ResetLink(l),
           active' = Enabled(disabled, disabledEnvs),
           (Freed /\ Forget) \/ UNCHANGED manager,
           raised' \in BOOLEAN,
           UNCHANGED <<obstacles, capacity, broken, bank>>
    PROVE  AttachInv'
<1> DEFINE on == Enabled(disabled, disabledEnvs)
<1>1. /\ on \in Scene
      /\ \A e \in Env : active[e] \subseteq on[e] /\ on[e] \subseteq obstacles[e]
  BY EnabledLoaded DEF AttachInv, AttachTypeOK
<1>2. BankTypeOK'
  BY ResetTyped DEF BankTypeOK, AttachInv, AttachTypeOK
<1>3. active' = on
  OBVIOUS
<1>4. CASE Freed /\ Forget
  <2>1. \A e \in Env : on[e] = obstacles[e]
    BY <1>4, FreedEnablesAll
  <2> HIDE DEF on
  <2>2. AttachTypeOK'
    BY <1>1, <1>2, <1>3, <1>4, ForgotTyped DEF AttachInv, AttachTypeOK, BankTypeOK
  <2>3. DisabledOwned'
    BY <1>3, <2>1 DEF DisabledOwned
  <2> QED
    BY <2>2, <2>3 DEF AttachInv
<1>5. CASE UNCHANGED manager
  <2> HIDE DEF on
  <2>1. AttachTypeOK'
    BY <1>1, <1>2, <1>3, <1>5 DEF AttachInv, AttachTypeOK, BankTypeOK, manager
  <2>2. DisabledOwned'
    BY <1>1, <1>3, <1>5 DEF AttachInv, DisabledOwned, manager
  <2> QED
    BY <2>1, <2>2 DEF AttachInv
<1> QED
  BY <1>4, <1>5

LEMMA DetachPreserves ==
    ASSUME AttachInv, OwnLists, DetachCall
    PROVE  AttachInv'
<1>1. PICK arg \in Link \cup {None} : Detach(arg, <<>>)
  BY DEF DetachCall, OwnLists
<1> QED
  BY <1>1, ReleasedPreserves DEF Detach, Raises, Returns, Freed

LEMMA UpdatePreserves == ASSUME AttachInv, UpdateCall PROVE AttachInv'
<1>1. PICK l \in Link, n \in Env : Update(l, n)
  BY DEF UpdateCall
<1>2. BankTypeOK'
  BY <1>1, WriteTyped DEF Update, BankTypeOK, AttachInv, AttachTypeOK
<1>3. link' = l /\ l # None /\ raised' \in BOOLEAN
  BY <1>1, AttachmentAssumption DEF Update, Returns
<1>4. UNCHANGED <<obstacles, active, capacity, broken, disabled, disabledEnvs>>
  BY <1>1 DEF Update, world
<1>5. AttachTypeOK'
  BY <1>2, <1>3, <1>4 DEF AttachInv, AttachTypeOK, BankTypeOK
<1>6. DisabledOwned'
  BY <1>4 DEF AttachInv, DisabledOwned
<1> QED
  BY <1>5, <1>6 DEF AttachInv

\* What an attach disables, it records with the number of environments.
LEMMA AttachFitsPreserves ==
    ASSUME AttachInv, NEW l \in Link, NEW names \in Seq(Name), NEW n \in Env,
           AttachFits(l, names, n)
    PROVE  AttachInv'
<1> DEFINE taken == {names[i] : i \in 1 .. Len(names)}
<1>1. /\ active' = Without(names, n)
      /\ link' = l /\ disabled' = names
      /\ disabledEnvs' = IF names = <<>> THEN 0 ELSE n
      /\ raised' \in BOOLEAN
      /\ UNCHANGED <<obstacles, capacity, broken>>
  BY DEF AttachFits, Record, Returns
<1>2. /\ BankTypeOK
      /\ Restored(link, carried) \in [Env -> SUBSET Link]
      /\ Restored(link, silent) \in [Env -> SUBSET Link]
      /\ Restored(link, faded) \in [Env -> SUBSET Link]
      /\ \A e \in Env : Restored(link, faded)[e] \subseteq Restored(link, carried)[e]
  BY RestoredTyped DEF BankTypeOK, AttachInv, AttachTypeOK
<1>3. BankTypeOK'
  BY <1>2, WriteTyped DEF AttachFits
<1>4. \A e \in Env : ActiveFreed[e] = obstacles[e]
  BY FreedEnablesAll DEF AttachFits, ActiveFreed
<1>5. \A e \in Env : active'[e] =
                       IF e <= n THEN obstacles[e] \ taken ELSE obstacles[e]
  BY <1>1, <1>4 DEF Without
<1> HIDE DEF taken
<1>6. active' \in Scene /\ \A e \in Env : active'[e] \subseteq obstacles[e]
  <2>1. active' = [e \in Env |-> active'[e]]
    BY <1>1 DEF Without
  <2>2. \A e \in Env : active'[e] \subseteq obstacles[e]
    BY <1>5
  <2> QED
    BY <2>1, <2>2 DEF Scene, AttachInv, AttachTypeOK
<1>7. /\ disabledEnvs' \in 0 .. Envs
      /\ disabled' = <<>> <=> disabledEnvs' = 0
      /\ link' # None
  BY <1>1, AttachmentAssumption DEF Env
<1>8. AttachTypeOK'
  BY <1>1, <1>3, <1>6, <1>7 DEF AttachInv, AttachTypeOK, BankTypeOK
<1>9. ASSUME NEW e \in Env, NEW name \in obstacles'[e] \ active'[e]
      PROVE  /\ e <= disabledEnvs'
             /\ \E i \in 1 .. Len(disabled') : disabled'[i] = name
  <2>1. e <= n /\ name \in taken
    BY <1>1, <1>5, <1>9
  <2>2. PICK i \in 1 .. Len(names) : names[i] = name
    BY <2>1 DEF taken
  <2>3. names # <<>>
    BY <2>2
  <2> QED
    BY <1>1, <2>1, <2>2, <2>3
<1> QED
  BY <1>8, <1>9 DEF AttachInv, DisabledOwned

LEMMA AttachPreserves == ASSUME AttachInv, AttachCall PROVE AttachInv'
<1>1. PICK names \in NameLists, n \in Env :
        \/ AttachUnknown(names, n)
        \/ AttachBlocked(names, n)
        \/ AttachUnfitted(names, n)
        \/ \E l \in Link : AttachFits(l, names, n)
  BY DEF AttachCall
<1>2. names \in Seq(Name)
  BY AttachmentAssumption
<1>3. CASE AttachUnknown(names, n)
  <2>1. UNCHANGED <<world, robot, manager>> /\ raised' \in BOOLEAN
    BY <1>3 DEF AttachUnknown, Raises
  <2> QED
    BY <2>1, UnchangedPreserves
<1>4. CASE AttachBlocked(names, n)
  BY <1>4, ReleasedPreserves DEF AttachBlocked, Raises
<1>5. CASE AttachUnfitted(names, n)
  BY <1>5, ReleasedPreserves
     DEF AttachUnfitted, Raises, ActiveFreed
<1>6. CASE \E l \in Link : AttachFits(l, names, n)
  BY <1>2, <1>6, AttachFitsPreserves
<1> QED
  BY <1>1, <1>3, <1>4, <1>5, <1>6

LEMMA MovePreserves == ASSUME AttachInv, MoveCall PROVE AttachInv'
<1>1. PICK name \in Name, e \in Env : MoveObstacle(name, e) \/ MoveRaises(name, e)
  BY DEF MoveCall
<1>2. CASE MoveObstacle(name, e)
  <2>1. UNCHANGED <<obstacles, capacity, broken, robot, manager>>
        /\ raised' \in BOOLEAN
    BY <1>2 DEF MoveObstacle, Returns
  <2>2. /\ active' \in Scene
        /\ \A d \in Env : active[d] \subseteq active'[d]
                         /\ active'[d] \subseteq obstacles[d]
    BY <1>2 DEF MoveObstacle, AttachInv, AttachTypeOK, Scene
  <2>3. AttachTypeOK'
    BY <2>1, <2>2 DEF AttachInv, AttachTypeOK, robot, manager
  <2>4. DisabledOwned'
    BY <2>1, <2>2 DEF AttachInv, DisabledOwned, manager
  <2> QED
    BY <2>3, <2>4 DEF AttachInv
<1>3. CASE MoveRaises(name, e)
  <2>1. UNCHANGED <<world, robot, manager>> /\ raised' \in BOOLEAN
    BY <1>3 DEF MoveRaises, Raises
  <2> QED
    BY <2>1, UnchangedPreserves
<1> QED
  BY <1>1, <1>2, <1>3

\* A scene that has just been loaded has nothing disabled in it.
LEMMA LoadPreserves ==
    ASSUME AttachInv, NEW scene \in Scene, Load(scene),
           Forget \/ UNCHANGED manager,
           capacity' \in 0 .. MaxCapacity, raised' \in BOOLEAN,
           UNCHANGED robot
    PROVE  AttachInv'
<1>1. obstacles' = scene /\ active' = scene /\ broken' = {}
  BY DEF Load
<1>2. AttachTypeOK'
  <2>1. CASE Forget
    BY <1>1, <2>1, ForgotTyped DEF AttachInv, AttachTypeOK, robot
  <2>2. CASE UNCHANGED manager
    BY <1>1, <2>2 DEF AttachInv, AttachTypeOK, robot, manager
  <2> QED
    BY <2>1, <2>2
<1>3. DisabledOwned'
  BY <1>1 DEF DisabledOwned
<1> QED
  BY <1>2, <1>3 DEF AttachInv

LEMMA WorldPreserves == ASSUME AttachInv, WorldCall PROVE AttachInv'
<1>1. PICK scene \in Scene :
        \/ UpdateWorld(scene)
        \/ \E slots \in 0 .. MaxCapacity : ReplaceWorld(scene, slots)
        \/ \E e \in Env : \E part \in SUBSET scene[e] :
             UpdateRaises(scene, e, part)
  BY DEF WorldCall
<1>2. CASE UpdateWorld(scene)
  BY <1>2, LoadPreserves DEF UpdateWorld, Returns, AttachInv, AttachTypeOK
<1>3. CASE \E slots \in 0 .. MaxCapacity : ReplaceWorld(scene, slots)
  BY <1>3, LoadPreserves DEF ReplaceWorld, Returns
<1>4. ASSUME NEW e \in Env, NEW part \in SUBSET scene[e],
             UpdateRaises(scene, e, part)
      PROVE  AttachInv'
  <2> DEFINE left == [d \in Env |-> IF d < e THEN scene[d]
                                   ELSE IF d = e THEN part ELSE obstacles[d]]
  <2>1. /\ obstacles' = left
        /\ active' = [d \in Env |-> IF d <= e THEN left[d] ELSE active[d]]
        /\ broken' = {d \in broken : d >= e} \cup {e}
        /\ raised' \in BOOLEAN
        /\ UNCHANGED <<capacity, robot, manager>>
    BY <1>4 DEF UpdateRaises, Raises
  <2>2. left \in Scene
    BY DEF Scene, AttachInv, AttachTypeOK
  <2>3. \A d \in Env : d > e => left[d] = obstacles[d]
    BY AttachmentAssumption DEF Env
  <2> HIDE DEF left
  <2>4. \A d \in Env : /\ d <= e => active'[d] = left[d]
                       /\ ~(d <= e) => /\ active'[d] = active[d]
                                       /\ left[d] = obstacles[d]
    BY <2>1, <2>3 DEF Env
  <2>5. active' \in Scene
    BY <2>1, <2>2 DEF Scene, AttachInv, AttachTypeOK
  <2>6. \A d \in Env : active'[d] \subseteq obstacles'[d]
    BY <2>1, <2>4 DEF AttachInv, AttachTypeOK
  <2>7. AttachTypeOK'
    BY <2>1, <2>2, <2>5, <2>6 DEF AttachInv, AttachTypeOK, robot, manager
  <2>8. DisabledOwned'
    BY <2>1, <2>4 DEF AttachInv, DisabledOwned, manager
  <2> QED
    BY <2>7, <2>8 DEF AttachInv
<1> QED
  BY <1>1, <1>2, <1>3, <1>4

\* Turning links off or on touches the radii in the bank and nothing else.
LEMMA LinksPreserve ==
    ASSUME AttachInv, NEW ls \in SUBSET Link, NEW call,
           DisableLinks(ls, call) \/ EnableLinks(ls, call), raised' \in BOOLEAN
    PROVE  AttachInv'
<1>1. faded' = [e \in Env |-> faded[e] \cup (ls \cap carried[e])]
      /\ UNCHANGED <<world, bank, carried, manager>>
  BY DEF DisableLinks, EnableLinks, Overwrite
<1>2. /\ silent' \in [Env -> SUBSET Link]
      /\ \A e \in Env : e > bank => silent'[e] = {}
  <2>1. CASE silent' = TurnedOff(ls)
    <3>1. \A e \in Env : e > bank => ~(e <= bank)
      BY DEF AttachInv, AttachTypeOK, Env
    <3> QED
      BY <2>1, <3>1 DEF TurnedOff, AttachInv, AttachTypeOK
  <2>2. CASE silent' = TurnedOn(ls)
    BY <2>2 DEF TurnedOn, AttachInv, AttachTypeOK
  <2> QED
    BY <2>1, <2>2 DEF DisableLinks, EnableLinks
<1>3. /\ faded' \in [Env -> SUBSET Link]
      /\ \A e \in Env : faded'[e] \subseteq carried[e]
  BY <1>1 DEF AttachInv, AttachTypeOK
<1>4. AttachTypeOK'
  BY <1>1, <1>2, <1>3 DEF AttachInv, AttachTypeOK, world, manager
<1>5. DisabledOwned'
  BY <1>1 DEF AttachInv, DisabledOwned, world, manager
<1> QED
  BY <1>4, <1>5 DEF AttachInv

LEMMA LinkCallPreserves == ASSUME AttachInv, LinkCall PROVE AttachInv'
<1>1. PICK ls \in ContactSets :
        \/ DisableLinks(ls, "links") /\ raised' \in BOOLEAN
        \/ EnableLinks(ls, "links") /\ raised' \in BOOLEAN
  BY DEF LinkCall
<1> QED
  BY <1>1, LinksPreserve, AttachmentAssumption

LEMMA GraspPreserves == ASSUME AttachInv, GraspCall PROVE AttachInv'
<1>1. CASE GraspUnreached
  BY <1>1, UnchangedPreserves DEF GraspUnreached
<1>2. CASE \E ls \in ContactSets : GraspMisnamed(ls) \/ GraspPlanned(ls)
  <2>1. PICK ls \in ContactSets : GraspMisnamed(ls) \/ GraspPlanned(ls)
    BY <1>2
  <2>2. /\ DisableLinks(ls, "links") \/ EnableLinks(ls, "grasp")
        /\ raised' \in BOOLEAN
    BY <2>1 DEF GraspMisnamed, GraspPlanned
  <2> QED
    BY <2>2, LinksPreserve, AttachmentAssumption
<1> QED
  BY <1>1, <1>2 DEF GraspCall

\* Every call preserves the invariant.
LEMMA AttachNextPreserves ==
    ASSUME AttachInv, OwnLists, [Next]_attachVars
    PROVE  AttachInv'
<1>1. CASE DetachNothing
  <2>1. UNCHANGED <<world, robot, manager>> /\ raised' \in BOOLEAN
    BY <1>1 DEF DetachNothing, Returns
  <2> QED
    BY <2>1, UnchangedPreserves
<1>2. CASE ClearSceneCache
  <2>1. [e \in Env |-> {}] \in Scene
    BY DEF Scene
  <2> QED
    BY <1>2, <2>1, LoadPreserves
       DEF ClearSceneCache, Returns, AttachInv, AttachTypeOK
<1>3. CASE UNCHANGED attachVars
  <2>1. UNCHANGED <<world, robot, manager>> /\ raised' \in BOOLEAN
    BY <1>3 DEF attachVars, outcome, AttachInv, AttachTypeOK
  <2> QED
    BY <2>1, UnchangedPreserves
<1> QED
  BY <1>1, <1>2, <1>3, DetachPreserves, UpdatePreserves, AttachPreserves,
     MovePreserves, WorldPreserves, LinkCallPreserves, GraspPreserves DEF Next

-----------------------------------------------------------------------------
(* The theorems                                                            *)

\* The types of the planner's attachment state and the ownership of what it
\* has disabled hold in every reachable state.
THEOREM AttachInvariant == ASSUME OwnLists PROVE Spec => []AttachInv
<1>1. Init => AttachInv
  BY InitAttachInv
<1>2. AttachInv /\ [Next]_attachVars => AttachInv'
  BY AttachNextPreserves
<1> QED
  BY <1>1, <1>2, PTL DEF Spec

\* The bank of payload spheres never outgrows the environments, and there is
\* no list of disabled obstacles without a payload.
THEOREM AttachTypeCorrect == ASSUME OwnLists PROVE Spec => []AttachTypeOK
BY AttachInvariant, PTL DEF AttachInv

\* An obstacle is out of the world only while the manager knows it.
THEOREM DisabledAreOwned == ASSUME OwnLists PROVE Spec => []DisabledOwned
BY AttachInvariant, PTL DEF AttachInv

\* Which calls an attach and a detach that are over can have been.
LEMMA OutcomeOfStep ==
    ASSUME Next
    PROVE  /\ last' = "attach" => AttachCall
           /\ last' = "detach" => DetachCall \/ DetachNothing
           /\ last' = "grasp" => GraspCall
BY DEF Next, DetachNothing, UpdateCall, Update, MoveCall, MoveObstacle,
       MoveRaises, WorldCall, UpdateWorld, ReplaceWorld, UpdateRaises,
       ClearSceneCache, DetachCall, Detach, AttachCall, AttachUnknown,
       AttachBlocked, AttachUnfitted, AttachFits, LinkCall, DisableLinks,
       EnableLinks, GraspCall, GraspUnreached, GraspMisnamed, GraspPlanned,
       Returns, Raises

\* An attach that raises adds no payload, resizes nothing, disables nothing.
THEOREM FailedAttachIsHarmless ==
    ASSUME OwnLists PROVE Spec => FailedAttachHarmless
<1> DEFINE Harmless ==
      last' = "attach" /\ raised'
        => /\ bank' = bank
           /\ \A e \in Env : /\ carried'[e] \subseteq carried[e]
                             /\ silent'[e] \subseteq silent[e]
                             /\ faded'[e] \subseteq faded[e]
                             /\ active[e] \subseteq active'[e]
<1>1. ASSUME AttachInv, Next PROVE Harmless
  <2> SUFFICES ASSUME last' = "attach", raised'
               PROVE  /\ bank' = bank
                      /\ \A e \in Env : /\ carried'[e] \subseteq carried[e]
                                        /\ silent'[e] \subseteq silent[e]
                                        /\ faded'[e] \subseteq faded[e]
                                        /\ active[e] \subseteq active'[e]
    OBVIOUS
  <2>1. PICK names \in NameLists, n \in Env :
          \/ AttachUnknown(names, n)
          \/ AttachBlocked(names, n)
          \/ AttachUnfitted(names, n)
    BY <1>1, OutcomeOfStep DEF AttachCall, AttachFits, Returns
  <2>2. \A e \in Env : active[e] \subseteq Enabled(disabled, disabledEnvs)[e]
    BY <1>1, EnabledLoaded DEF AttachInv, AttachTypeOK
  <2>3. ResetLink(link) =>
          \A e \in Env : /\ carried'[e] \subseteq carried[e]
                         /\ silent'[e] \subseteq silent[e]
                         /\ faded'[e] \subseteq faded[e]
    BY DEF ResetLink, Restored
  <2>4. CASE AttachUnknown(names, n)
    BY <2>4 DEF AttachUnknown, world, robot
  <2>5. CASE AttachBlocked(names, n) \/ AttachUnfitted(names, n)
    BY <2>2, <2>3, <2>5
       DEF AttachBlocked, AttachUnfitted, ActiveFreed
  <2> QED
    BY <2>1, <2>4, <2>5
<1>2. AttachInv /\ [Next]_attachVars => [Harmless]_attachVars
  BY <1>1
<1> QED
  BY <1>2, AttachInvariant, PTL DEF Spec, FailedAttachHarmless

\* A detach of the attached link that returns gives everything back.
THEOREM DetachGivesBack == ASSUME OwnLists PROVE Spec => DetachRestores
<1> DEFINE GivesBack ==
      last' = "detach" /\ ~raised' /\ link' = None /\ link # None
        => \A e \in Env : /\ link \notin carried'[e] \cup silent'[e] \cup faded'[e]
                          /\ active'[e] = obstacles'[e]
<1>1. ASSUME AttachInv, Next PROVE GivesBack
  <2> SUFFICES ASSUME last' = "detach", ~raised', link' = None, link # None
               PROVE  \A e \in Env :
                        /\ link \notin carried'[e] \cup silent'[e] \cup faded'[e]
                        /\ active'[e] = obstacles'[e]
    OBVIOUS
  <2>1. PICK arg \in Link \cup {None} : Detach(arg, <<>>)
    BY <1>1, OutcomeOfStep DEF DetachCall, DetachNothing, OwnLists
  <2>2. /\ Freed
        /\ ResetLink(link)
        /\ active' = Enabled(disabled, disabledEnvs)
        /\ obstacles' = obstacles
    BY <2>1 DEF Detach, Freed, Raises, manager
  <2>3. \A e \in Env : active'[e] = obstacles[e]
    BY <1>1, <2>2, FreedEnablesAll
  <2>4. \A e \in Env : link \notin carried'[e] \cup silent'[e] \cup faded'[e]
    BY <2>2 DEF ResetLink, Restored
  <2> QED
    BY <2>2, <2>3, <2>4
<1>2. AttachInv /\ [Next]_attachVars => [GivesBack]_attachVars
  BY <1>1
<1> QED
  BY <1>2, AttachInvariant, PTL DEF Spec, DetachRestores

\* An attach that returns has taken the place of the payload before it.
THEOREM AttachTakesOver == ASSUME OwnLists PROVE Spec => AttachReplaces
<1> DEFINE TakesOver ==
      last' = "attach" /\ ~raised'
        => /\ \A e \in 1 .. bank' : link' \in (carried'[e] \ silent'[e]) \ faded'[e]
           /\ link # link' => \A e \in Env : link \notin carried'[e]
           /\ \A e \in Env : obstacles'[e] \ active'[e] =
                {disabled'[i] : i \in {i \in 1 .. Len(disabled') :
                                       e <= disabledEnvs'}}
<1>1. ASSUME AttachInv, Next PROVE TakesOver
  <2> SUFFICES ASSUME last' = "attach", ~raised' PROVE TakesOver
    OBVIOUS
  <2>1. PICK names \in NameLists, n \in Env, l \in Link :
          AttachFits(l, names, n)
    BY <1>1, OutcomeOfStep
       DEF AttachCall, AttachUnknown, AttachBlocked, AttachUnfitted, Raises
  <2>2. /\ carried' = Written(l, n, Restored(link, carried))
        /\ silent' = Rewritten(l, n, Restored(link, silent))
        /\ faded' = Rewritten(l, n, Restored(link, faded))
        /\ bank' = n /\ link' = l /\ obstacles' = obstacles
        /\ disabled' = names
        /\ disabledEnvs' = IF names = <<>> THEN 0 ELSE n
        /\ active' = Without(names, n)
        /\ Known(names, n)
    BY <2>1 DEF AttachFits, Record, WriteLink
  <2>3. names \in Seq(Name)
    BY AttachmentAssumption
  <2>4. /\ bank \in Env
        /\ Restored(link, carried) \in [Env -> SUBSET Link]
        /\ Restored(link, silent) \in [Env -> SUBSET Link]
        /\ Restored(link, faded) \in [Env -> SUBSET Link]
        /\ \A e \in Env : Restored(link, carried)[e] = carried[e] \ {link}
    BY <1>1, RestoredTyped DEF AttachInv, AttachTypeOK
  <2>5. /\ \A e \in Env : e <= n => l \in carried'[e]
        /\ \A e \in Env : carried'[e] \subseteq Restored(link, carried)[e] \cup {l}
        /\ \A e \in Env : l \notin silent'[e] /\ l \notin faded'[e]
    BY <2>2, <2>4, WrittenTyped, RewrittenTyped
  <2>6. \A e \in 1 .. bank' : link' \in (carried'[e] \ silent'[e]) \ faded'[e]
    BY <2>2, <2>5, AttachmentAssumption DEF Env
  <2>7. link # link' => \A e \in Env : link \notin carried'[e]
    BY <2>2, <2>4, <2>5
  <2>8. \A e \in Env : ActiveFreed[e] = obstacles[e]
    BY <1>1, <2>1, FreedEnablesAll DEF AttachFits, ActiveFreed
  <2> DEFINE taken == {names[i] : i \in 1 .. Len(names)}
  <2>9. \A e \in Env : e <= n => taken \subseteq obstacles[e]
    BY <2>2, AttachmentAssumption DEF Known, Env
  <2>10. \A e \in Env : obstacles'[e] \ active'[e] =
                        IF e <= n THEN taken ELSE {}
    BY <2>2, <2>8, <2>9 DEF Without
  <2>11. \A e \in Env : {disabled'[i] : i \in {i \in 1 .. Len(disabled') :
                                               e <= disabledEnvs'}}
                        = IF e <= n THEN taken ELSE {}
    <3>1. CASE names = <<>>
      BY <2>2, <3>1
    <3>2. CASE names # <<>>
      BY <2>2, <3>2
    <3> QED
      BY <3>1, <3>2
  <2> QED
    BY <2>6, <2>7, <2>10, <2>11
<1>2. AttachInv /\ [Next]_attachVars => [TakesOver]_attachVars
  BY <1>1
<1> QED
  BY <1>2, AttachInvariant, PTL DEF Spec, AttachReplaces

\* A grasp plan turns on every link it has turned off, in every environment of
\* the bank, however its planning ends; it needs nothing of the state before.
THEOREM GraspLinksReturn == Spec => GraspGivesBack
<1> DEFINE Returned == last' = "grasp" => \A e \in Env : silent'[e] \subseteq silent[e]
<1>1. ASSUME Next PROVE Returned
  <2> SUFFICES ASSUME last' = "grasp" PROVE \A e \in Env : silent'[e] \subseteq silent[e]
    OBVIOUS
  <2>1. GraspCall
    BY <1>1, OutcomeOfStep
  <2>2. silent' = silent \/ \E ls \in ContactSets : silent' = TurnedOn(ls)
    BY <2>1 DEF GraspCall, GraspUnreached, GraspMisnamed, GraspPlanned,
                DisableLinks, EnableLinks, robot
  <2> QED
    BY <2>2 DEF TurnedOn
<1>2. [Next]_attachVars => [Returned]_attachVars
  BY <1>1
<1> QED
  BY <1>2, PTL DEF Spec, GraspGivesBack
=============================================================================
