-------------------------- MODULE DeploymentProofs --------------------------
(***************************************************************************)
(* The invariants of Deployment, for any contracts, codes and depth of the *)
(* stacks.                                                                 *)
(*                                                                         *)
(* Every frame keeps what its failure restores.  Level l of the stacks is  *)
(* what frame l found, and the last level is the running frame's; the      *)
(* inductive invariant says of all levels what the properties say of the   *)
(* last, and how a level follows from the one before.                      *)
(***************************************************************************)
EXTENDS Deployment, TLAPS

Account == [code : Codes \cup {NoCode}, nonce : Nat,
            deployer : Addresses \cup Creators \cup {Nobody}]
OutType == [Addresses \cup Creators -> Account]
EffType == [Addresses -> Codes \cup {NoCode}]
FrameType == [kind : FrameKinds, address : Addresses, code : Codes, running : Codes,
              caller : Addresses \cup Creators, out : OutType, eff : EffType,
              next : {"run", "callback", "done"}]
GhostType == [unverified : SUBSET Addresses, stale : BOOLEAN, over : BOOLEAN]

\* A callback is due only in a frame that has had another one above it.
DeploymentTypes ==
    /\ aot \in BOOLEAN /\ verifyCode \in BOOLEAN
    /\ chain \in [code : EffType, nonce : [Creators -> Nat]]
    /\ compiled \in [Codes -> Codes \cup {NoCode}]
    /\ out \in OutType /\ eff \in EffType
    /\ codeUpdates \subseteq Addresses
    /\ frames \in Seq(FrameType) /\ Len(frames) <= MaxFrames
    /\ \A i \in DOMAIN frames : frames[i].next = "callback" => i < MaxFrames
    /\ frames = << >> => out = EmptyOutput /\ codeUpdates = {}
    /\ ghost \in GhostType

-----------------------------------------------------------------------------
(* The levels of the stacks.                                                *)
Levels == 1 .. Len(frames) + 1
Outs(l) == IF l \in DOMAIN frames THEN frames[l].out ELSE out
Effs(l) == IF l \in DOMAIN frames THEN frames[l].eff ELSE eff

\* The addresses at which the frames below a level create contracts.
Making(l) == {a \in Addresses : \E i \in 1 .. l - 1 : /\ frames[i].kind = "create"
                                                      /\ frames[i].address = a}
NestedCreation(i) == i > 1 /\ frames[i].kind = "create"

\* What the i-th frame may become of accounts: upgrades are of accounts that
\* exist, creations at an address that their creator's nonce has reached.  The
\* first frame starts without nonces.
Made(f, i) ==
    /\ i = 1 => \A c \in Creators : f.out[c].nonce = 0
    /\ f.kind = "upgrade" => f.address \in Existing /\ IsValid(WasmModule[f.code])
    /\ f.kind = "create" =>
          /\ f.caller \in Creators
          /\ i = 1 => f.caller = User /\ IsValid(WasmModule[f.code])
          /\ \E n \in DOMAIN NewAddressOf[f.caller] :
                /\ f.address = NewAddressOf[f.caller][n]
                /\ IF i = 1 THEN n < chain.nonce[User]
                   ELSE n <= GetNonce(f.out, f.caller)

FramesMade == \A i \in DOMAIN frames : Made(frames[i], i)

\* An address with code is one that its creator's nonce has passed, or that
\* is being created.
NoncesPassed(o, e, making) ==
    \A c \in Creators :
        /\ o[c].nonce = 0 \/ o[c].nonce >= chain.nonce[c]
        /\ \A n \in DOMAIN NewAddressOf[c] :
              e[NewAddressOf[c][n]] # NoCode =>
                  n < GetNonce(o, c) \/ NewAddressOf[c][n] \in making

NoncesPass == \A l \in Levels : NoncesPassed(Outs(l), Effs(l), Making(l))

Verified(e) ==
    \A a \in Addresses :
        e[a] \in Codes /\ ~IsValid(WasmModule[e[a]]) => a \in ghost.unverified

-----------------------------------------------------------------------------
(* What the output says about codes, as long as none was created over       *)
(* another one.                                                             *)

\* The code that is found is the one that took effect.
CodeFound ==
    \A l \in Levels, b \in Addresses :
        \/ GetCode(Outs(l), b) = Effs(l)[b]
        \/ l \in DOMAIN frames /\ NestedCreation(l) /\ frames[l].address = b

\* No level loses a code that a level below has.
CodesStay ==
    \A l, m \in Levels, b \in Addresses :
        l <= m => /\ Outs(l)[b].code # NoCode => Outs(m)[b].code # NoCode
                  /\ Effs(l)[b] # NoCode => Effs(m)[b] # NoCode

\* Only the accounts of codeUpdates have another code than before.
OnlyUpdates ==
    /\ Effs(1) = chain.code
    /\ \A b \in Addresses \ codeUpdates : \A l \in Levels : Effs(l)[b] = eff[b]

\* A contract is created at an address without code.
CreationsKept ==
    \A i \in DOMAIN frames :
        NestedCreation(i) =>
            LET a == frames[i].address
            IN  /\ a \in codeUpdates /\ chain.code[a] = NoCode
                /\ frames[i].eff[a] = NoCode /\ frames[i].out[a].code # NoCode
                /\ \A l \in Levels : l > i => Effs(l)[a] # NoCode

OutputInv == CodeFound /\ CodesStay /\ OnlyUpdates /\ CreationsKept

DeploymentInv ==
    /\ DeploymentTypes
    /\ InstancesRunTheirCode
    /\ FramesMade /\ NoncesPass
    /\ \A l \in Levels : Verified(Effs(l))
    /\ ~ghost.over => OutputInv

-----------------------------------------------------------------------------
(* The operators.                                                           *)

LEMMA OperatorTypes ==
    ASSUME DeploymentTypes, NEW o \in OutType, NEW a \in Addresses \cup Creators
    PROVE  /\ a \in Addresses => GetCode(o, a) \in Codes \cup {NoCode}
           /\ a \in Addresses => CacheCode(o, a) \in OutType
           /\ a \in Creators => GetNonce(o, a) \in Nat /\ IncreaseNonce(o, a) \in OutType
           /\ [o EXCEPT ![a] = EmptyAccount] \in OutType
           /\ \A c \in Codes, d \in Addresses \cup Creators : DeployCode(o, a, c, d) \in OutType
<1>1. o[a] \in Account
  BY DEF OutType
<1>2. a \in Addresses => chain.code[a] \in Codes \cup {NoCode}
  BY DEF DeploymentTypes, EffType
<1>3. a \in Creators => chain.nonce[a] \in Nat
  BY DEF DeploymentTypes
<1>4. a \in Addresses => GetCode(o, a) \in Codes \cup {NoCode}
  BY <1>1, <1>2 DEF GetCode, Account
<1>5. a \in Addresses => CacheCode(o, a) \in OutType
  BY <1>1, <1>4 DEF CacheCode, OutType, Account
<1>6. a \in Creators => GetNonce(o, a) \in Nat
  BY <1>1, <1>3 DEF GetNonce, Account
<1>7. a \in Creators => IncreaseNonce(o, a) \in OutType
  <2>1. a \in Creators => GetNonce(o, a) + 1 \in Nat
    BY <1>6
  <2> QED
    BY <1>1, <2>1 DEF IncreaseNonce, OutType, Account
<1>8. EmptyAccount \in Account
  BY DEF EmptyAccount, Account
<1>9. [o EXCEPT ![a] = EmptyAccount] \in OutType
  BY <1>8 DEF OutType
<1>10. \A c \in Codes, d \in Addresses \cup Creators : DeployCode(o, a, c, d) \in OutType
  <2> SUFFICES ASSUME NEW c \in Codes, NEW d \in Addresses \cup Creators
               PROVE  DeployCode(o, a, c, d) \in OutType
    OBVIOUS
  <2>1. [o[a] EXCEPT !.code = c, !.deployer = d] \in Account
    BY <1>1 DEF Account
  <2>2. DeployCode(o, a, c, d) = [o EXCEPT ![a] = [o[a] EXCEPT !.code = c, !.deployer = d]]
    BY <1>1 DEF DeployCode, OutType, Account
  <2> QED
    BY <2>1, <2>2 DEF OutType
<1> QED
  BY <1>4, <1>5, <1>6, <1>7, <1>9, <1>10

(* The outputs of a nested execution and of its caller, merged. *)
LEMMA MergedOutputs ==
    ASSUME NEW o \in OutType, NEW p \in OutType, NEW updates
    PROVE  LET right == GetVMOutput(p, updates)
               merged == MergeVMOutputs(o, right)
           IN  /\ right \in OutType /\ merged \in OutType
               /\ \A a \in Addresses \cup Creators :
                     /\ right[a].nonce = p[a].nonce
                     /\ right[a].code = IF a \in updates THEN p[a].code ELSE NoCode
                     /\ merged[a].code = IF right[a].code # NoCode THEN right[a].code
                                                                   ELSE o[a].code
                     /\ merged[a].nonce = IF p[a].nonce > o[a].nonce THEN p[a].nonce
                                                                     ELSE o[a].nonce
<1> DEFINE right == GetVMOutput(p, updates)
           merged == MergeVMOutputs(o, right)
           S == Addresses \cup Creators
<1>1. \A a \in S : o[a] \in Account /\ p[a] \in Account
  BY DEF OutType
<1>2. DOMAIN o = S /\ DOMAIN p = S
  BY DEF OutType
<1>3. ASSUME NEW a \in S
      PROVE  /\ right[a] \in Account /\ right[a].nonce = p[a].nonce
             /\ right[a].code = IF a \in updates THEN p[a].code ELSE NoCode
  <2>1. right[a] = IF a \in updates THEN p[a]
                   ELSE [p[a] EXCEPT !.code = NoCode, !.deployer = Nobody]
    BY <1>2 DEF GetVMOutput
  <2> HIDE DEF right
  <2> QED
    BY <1>1, <2>1 DEF Account
<1>4. right = [a \in S |-> right[a]]
  BY <1>2 DEF GetVMOutput
<1>5. ASSUME NEW a \in S
      PROVE  merged[a] =
        [code |-> IF right[a].code # NoCode THEN right[a].code ELSE o[a].code,
         deployer |-> IF right[a].deployer # Nobody THEN right[a].deployer
                                                    ELSE o[a].deployer,
         nonce |-> IF right[a].nonce > o[a].nonce THEN right[a].nonce
                                                     ELSE o[a].nonce]
  BY <1>2 DEF MergeVMOutputs
<1>6. merged = [a \in S |-> merged[a]]
  BY <1>2 DEF MergeVMOutputs
<1> HIDE DEF right, merged
<1>7. ASSUME NEW a \in S
      PROVE  /\ merged[a] \in Account
             /\ merged[a].code = IF right[a].code # NoCode THEN right[a].code ELSE o[a].code
             /\ merged[a].nonce = IF p[a].nonce > o[a].nonce THEN p[a].nonce ELSE o[a].nonce
  <2>1. right[a] \in Account /\ o[a] \in Account /\ right[a].nonce = p[a].nonce
    BY <1>1, <1>3
  <2>2. PICK code \in Codes \cup {NoCode} :
            code = IF right[a].code # NoCode THEN right[a].code ELSE o[a].code
    BY <2>1 DEF Account
  <2>3. PICK deployer \in Addresses \cup Creators \cup {Nobody} :
            deployer = IF right[a].deployer # Nobody THEN right[a].deployer ELSE o[a].deployer
    BY <2>1 DEF Account
  <2>4. PICK nonce \in Nat :
            nonce = IF right[a].nonce > o[a].nonce THEN right[a].nonce ELSE o[a].nonce
    BY <2>1 DEF Account
  <2>5. merged[a] = [code |-> code, deployer |-> deployer, nonce |-> nonce]
    BY <1>5, <2>2, <2>3, <2>4
  <2> QED
    BY <2>1, <2>2, <2>4, <2>5 DEF Account
<1>8. right \in OutType
  BY <1>3, <1>4 DEF OutType
<1>9. merged \in OutType
  BY <1>6, <1>7 DEF OutType
<1> QED
  BY <1>3, <1>7, <1>8, <1>9 DEF right, merged

(* Instances and the cache. *)
LEMMA Compiling ==
    ASSUME DeploymentTypes, NEW a \in Addresses, NEW c \in Codes, NEW new \in BOOLEAN
    PROVE  /\ Instance(a, c, new) \in Codes
           /\ CompiledAfter(a, c, new) \in [Codes -> Codes \cup {NoCode}]
           /\ (\A h \in Codes : compiled[h] \in {h, NoCode}) /\ (new \/ CodeHash(a) \in {c, NoCode})
                => /\ Instance(a, c, new) = c
                   /\ \A h \in Codes : CompiledAfter(a, c, new)[h] \in {h, NoCode}
<1>1. CodeHash(a) \in Codes \cup {NoCode}
  BY DEF CodeHash, DeploymentTypes, EffType
<1>2. HashToSave(a, c, new) \in Codes
  BY <1>1 DEF HashToSave
<1>3. Instance(a, c, new) \in Codes
  BY <1>1 DEF Instance, UsesCompiledCode, DeploymentTypes
<1>4. CompiledAfter(a, c, new) \in [Codes -> Codes \cup {NoCode}]
  BY <1>2 DEF CompiledAfter, DeploymentTypes
<1>5. ASSUME \A h \in Codes : compiled[h] \in {h, NoCode}, new \/ CodeHash(a) \in {c, NoCode}
      PROVE  /\ Instance(a, c, new) = c
             /\ \A h \in Codes : CompiledAfter(a, c, new)[h] \in {h, NoCode}
  <2>1. HashToSave(a, c, new) = c
    BY <1>5 DEF HashToSave
  <2>2. Instance(a, c, new) = c
    BY <1>5 DEF Instance, UsesCompiledCode
  <2>3. \A h \in Codes : CompiledAfter(a, c, new)[h] \in {h, NoCode}
    BY <1>5, <2>1 DEF CompiledAfter, DeploymentTypes
  <2> QED
    BY <2>2, <2>3
<1> QED
  BY <1>3, <1>4, <1>5

-----------------------------------------------------------------------------
(* The stacks.                                                              *)

\* Frames that differ in what is due next.
Like(f, g) ==
    /\ f.kind = g.kind /\ f.address = g.address /\ f.code = g.code
    /\ f.running = g.running /\ f.caller = g.caller /\ f.out = g.out /\ f.eff = g.eff

\* The first n frames are kept.
Kept(n, m) ==
    /\ n \in Nat /\ frames' \in Seq(FrameType)
    /\ DOMAIN frames' = 1 .. m /\ Len(frames') = m
    /\ \A i \in 1 .. n : i \in DOMAIN frames /\ Like(frames'[i], frames[i])

Pushing(n, f) == Len(frames) = n /\ DOMAIN frames = 1 .. n /\ Kept(n, n + 1) /\ frames'[n + 1] = f
Popping(n) == n > 0 /\ Len(frames) = n /\ DOMAIN frames = 1 .. n /\ Kept(n - 1, n - 1)
Staying(n) == Len(frames) = n /\ DOMAIN frames = 1 .. n /\ Kept(n, n)

LEMMA FrameFacts ==
    ASSUME DeploymentTypes
    PROVE  /\ Len(frames) \in Nat /\ DOMAIN frames = 1 .. Len(frames)
           /\ \A i \in DOMAIN frames : frames[i] \in FrameType
           /\ frames # << >> => Len(frames) \in DOMAIN frames /\ top \in FrameType
  BY DEF DeploymentTypes, top

(* The stack with something else due in its last frame. *)
WithNext(fs, x) == [fs EXCEPT ![Len(fs)].next = x]

LEMMA DueNext ==
    ASSUME NEW fs \in Seq(FrameType), fs # << >>, NEW x \in {"run", "callback", "done"},
           NEW gs, gs = WithNext(fs, x)
    PROVE  /\ gs \in Seq(FrameType) /\ Len(gs) = Len(fs)
           /\ \A i \in 1 .. Len(fs) : Like(gs[i], fs[i])
           /\ \A i \in 1 .. Len(fs) : gs[i].next = IF i = Len(fs) THEN x ELSE fs[i].next
<1>1. Len(fs) \in Nat /\ Len(fs) \in 1 .. Len(fs) /\ DOMAIN fs = 1 .. Len(fs)
  OBVIOUS
<1>2. \A i \in 1 .. Len(fs) : fs[i] \in FrameType
  OBVIOUS
<1>3. \A i \in 1 .. Len(fs) : gs[i] = IF i = Len(fs) THEN [fs[i] EXCEPT !.next = x] ELSE fs[i]
  BY <1>1 DEF WithNext
<1>4. \A i \in 1 .. Len(fs) : gs[i] \in FrameType /\ Like(gs[i], fs[i])
                              /\ gs[i].next = IF i = Len(fs) THEN x ELSE fs[i].next
  <2> SUFFICES ASSUME NEW i \in 1 .. Len(fs)
               PROVE  /\ gs[i] \in FrameType /\ Like(gs[i], fs[i])
                      /\ gs[i].next = IF i = Len(fs) THEN x ELSE fs[i].next
    OBVIOUS
  <2>1. PICK f \in FrameType : f = fs[i]
    BY <1>2
  <2>2. gs[i] = IF i = Len(fs) THEN [f EXCEPT !.next = x] ELSE f
    BY <1>3, <2>1
  <2>3. [f EXCEPT !.next = x] \in FrameType /\ Like([f EXCEPT !.next = x], f)
        /\ [f EXCEPT !.next = x].next = x
    BY DEF FrameType, Like
  <2> QED
    BY <2>1, <2>2, <2>3 DEF Like
<1>5. gs = [i \in 1 .. Len(fs) |-> gs[i]]
  BY <1>1 DEF WithNext
<1>6. gs \in Seq(FrameType) /\ Len(gs) = Len(fs)
  BY <1>1, <1>4, <1>5
<1> QED
  BY <1>4, <1>6

LEMMA Pushed ==
    ASSUME DeploymentTypes, NEW fs \in Seq(FrameType), NEW f \in FrameType,
           Len(fs) = Len(frames), \A i \in 1 .. Len(fs) : Like(fs[i], frames[i]),
           frames' = Append(fs, f), NEW n, n = Len(frames)
    PROVE  Pushing(n, f) /\ \A i \in 1 .. n : frames'[i] = fs[i]
<1>1. n \in Nat /\ DOMAIN frames = 1 .. n
  BY FrameFacts
<1>2. frames' \in Seq(FrameType) /\ Len(frames') = n + 1 /\ DOMAIN frames' = 1 .. n + 1
      /\ frames'[n + 1] = f /\ \A i \in 1 .. n : frames'[i] = fs[i]
  BY <1>1
<1> QED
  BY <1>1, <1>2 DEF Pushing, Kept

LEMMA Popped ==
    ASSUME DeploymentTypes, Len(frames) > 1, NEW kind, Resume(kind), NEW n, n = Len(frames)
    PROVE  /\ Popping(n)
           /\ \A i \in 1 .. n - 1 : frames'[i].next = IF i = n - 1 /\ kind = "upgrade"
                                                     THEN "callback" ELSE frames[i].next
<1>1. n \in Nat /\ DOMAIN frames = 1 .. n /\ n > 1
  BY FrameFacts
<1> DEFINE fs == Front(frames)
<1>2. fs \in Seq(FrameType) /\ Len(fs) = n - 1 /\ fs # << >>
      /\ \A i \in 1 .. n - 1 : fs[i] = frames[i]
  <2>1. fs = SubSeq(frames, 1, n - 1) /\ frames \in Seq(FrameType)
    BY DEF Front, DeploymentTypes
  <2>2. fs = [i \in 1 .. n - 1 |-> frames[i]]
    BY <1>1, <2>1
  <2>3. \A i \in 1 .. n - 1 : frames[i] \in FrameType
    BY <1>1, FrameFacts
  <2> HIDE DEF fs
  <2>4. n - 1 \in Nat /\ n - 1 # 0
    BY <1>1
  <2>5. fs \in Seq(FrameType) /\ Len(fs) = n - 1
    BY <2>2, <2>3, <2>4
  <2>6. fs # << >>
    BY <2>4, <2>5
  <2> QED
    BY <2>2, <2>5, <2>6
<1> HIDE DEF fs
<1>3. CASE kind = "upgrade"
  <2>1. frames' = WithNext(fs, "callback")
    BY <1>3 DEF Resume, DueCallback, Below, WithNext, fs
  <2>2. /\ frames' \in Seq(FrameType) /\ Len(frames') = Len(fs)
        /\ \A i \in 1 .. Len(fs) : Like(frames'[i], fs[i])
        /\ \A i \in 1 .. Len(fs) : frames'[i].next = IF i = Len(fs) THEN "callback" ELSE fs[i].next
    <3>1. PICK x \in {"run", "callback", "done"} : x = "callback"
      OBVIOUS
    <3>2. PICK gs : gs = WithNext(fs, x)
      OBVIOUS
    <3>3. /\ gs \in Seq(FrameType) /\ Len(gs) = Len(fs)
          /\ \A i \in 1 .. Len(fs) : Like(gs[i], fs[i])
          /\ \A i \in 1 .. Len(fs) : gs[i].next = IF i = Len(fs) THEN x ELSE fs[i].next
      BY <1>2, <3>2, DueNext
    <3> QED
      BY <2>1, <3>1, <3>2, <3>3
  <2>3. Popping(n)
    BY <1>1, <1>2, <2>2 DEF Popping, Kept
  <2> QED
    BY <1>2, <1>3, <2>2, <2>3
<1>4. CASE kind # "upgrade"
  <2>1. frames' = fs
    BY <1>4 DEF Resume, Below, fs
  <2>2. Popping(n)
    BY <1>1, <1>2, <2>1 DEF Popping, Kept, Like
  <2> QED
    BY <1>2, <1>4, <2>1, <2>2
<1> QED
  BY <1>3, <1>4

(* The levels of a stack with one frame more, and one less. *)
LEMMA PushedLevels ==
    ASSUME NEW n, NEW f, Pushing(n, f)
    PROVE  /\ n \in Nat /\ Levels = 1 .. n + 1 /\ Levels' = 1 .. n + 2
           /\ \A l \in 1 .. n : Outs(l)' = Outs(l) /\ Effs(l)' = Effs(l)
           /\ \A l \in 1 .. n + 1 : Making(l)' = Making(l)
           /\ Outs(n + 1) = out /\ Effs(n + 1) = eff
           /\ Outs(n + 1)' = f.out /\ Effs(n + 1)' = f.eff
           /\ Outs(n + 2)' = out' /\ Effs(n + 2)' = eff'
           /\ \A a \in Addresses :
                 a \in Making(n + 2)' <=> \/ a \in Making(n + 1)
                                          \/ f.kind = "create" /\ f.address = a
<1>1. /\ n \in Nat /\ Len(frames) = n /\ DOMAIN frames = 1 .. n
      /\ DOMAIN frames' = 1 .. n + 1 /\ Len(frames') = n + 1
      /\ \A i \in 1 .. n : Like(frames'[i], frames[i])
      /\ frames'[n + 1] = f
  BY DEF Pushing, Kept
<1>2. n + 1 \notin 1 .. n /\ n + 2 \notin 1 .. n + 1 /\ n + 1 \in 1 .. n + 1
  BY <1>1
<1>3. Levels = 1 .. n + 1 /\ Levels' = 1 .. n + 2
  BY <1>1 DEF Levels
<1>4. \A l \in 1 .. n : Outs(l)' = Outs(l) /\ Effs(l)' = Effs(l)
  BY <1>1 DEF Outs, Effs, Like
<1>5. \A l \in 1 .. n + 1 : Making(l)' = Making(l)
  BY <1>1 DEF Making, Like
<1>6. /\ Outs(n + 1) = out /\ Effs(n + 1) = eff
      /\ Outs(n + 1)' = f.out /\ Effs(n + 1)' = f.eff
      /\ Outs(n + 2)' = out' /\ Effs(n + 2)' = eff'
  BY <1>1, <1>2 DEF Outs, Effs
<1>7. ASSUME NEW a \in Addresses
      PROVE  a \in Making(n + 2)' <=> \/ a \in Making(n + 1)
                                      \/ f.kind = "create" /\ f.address = a
  <2>1. (n + 2) - 1 = n + 1 /\ (n + 1) - 1 = n
    BY <1>1
  <2>2. 1 .. n + 1 = (1 .. n) \cup {n + 1}
    BY <1>1
  <2>3. a \in Making(n + 2)' <=> \E i \in 1 .. n + 1 : /\ frames'[i].kind = "create"
                                                       /\ frames'[i].address = a
    BY <2>1 DEF Making
  <2>4. a \in Making(n + 1) <=> \E i \in 1 .. n : /\ frames[i].kind = "create"
                                                  /\ frames[i].address = a
    BY <2>1 DEF Making
  <2> QED
    BY <1>1, <2>2, <2>3, <2>4 DEF Like
<1> QED
  BY <1>1, <1>3, <1>4, <1>5, <1>6, <1>7

LEMMA PoppedLevels ==
    ASSUME NEW n, Popping(n)
    PROVE  /\ n \in Nat /\ Levels = 1 .. n + 1 /\ Levels' = 1 .. n
           /\ \A l \in 1 .. n - 1 : Outs(l)' = Outs(l) /\ Effs(l)' = Effs(l)
           /\ \A l \in 1 .. n : Making(l)' = Making(l)
           /\ Outs(n)' = out' /\ Effs(n)' = eff'
           /\ Outs(n) = frames[n].out /\ Effs(n) = frames[n].eff
           /\ Outs(n + 1) = out /\ Effs(n + 1) = eff
           /\ \A a \in Addresses :
                 a \in Making(n + 1) <=> \/ a \in Making(n)
                                         \/ frames[n].kind = "create" /\ frames[n].address = a
<1>1. /\ n \in Nat \ {0} /\ Len(frames) = n /\ DOMAIN frames = 1 .. n
      /\ DOMAIN frames' = 1 .. n - 1 /\ Len(frames') = n - 1
      /\ \A i \in 1 .. n - 1 : Like(frames'[i], frames[i])
  <2>1. n \in Int /\ n - 1 \in Nat
    BY DEF Popping, Kept
  <2> QED
    BY <2>1 DEF Popping, Kept
<1>2. n + 1 \notin 1 .. n /\ n \notin 1 .. n - 1 /\ n \in 1 .. n
  BY <1>1
<1>3. Levels = 1 .. n + 1 /\ Levels' = 1 .. n
  BY <1>1 DEF Levels
<1>4. \A l \in 1 .. n - 1 : Outs(l)' = Outs(l) /\ Effs(l)' = Effs(l)
  BY <1>1 DEF Outs, Effs, Like
<1>5. \A l \in 1 .. n : Making(l)' = Making(l)
  BY <1>1 DEF Making, Like
<1>6. /\ Outs(n)' = out' /\ Effs(n)' = eff'
      /\ Outs(n) = frames[n].out /\ Effs(n) = frames[n].eff
      /\ Outs(n + 1) = out /\ Effs(n + 1) = eff
  BY <1>1, <1>2 DEF Outs, Effs
<1>7. ASSUME NEW a \in Addresses
      PROVE  a \in Making(n + 1) <=> \/ a \in Making(n)
                                     \/ frames[n].kind = "create" /\ frames[n].address = a
  <2>1. (n + 1) - 1 = n /\ 1 .. n = (1 .. n - 1) \cup {n}
    BY <1>1
  <2>2. a \in Making(n) <=> \E i \in 1 .. n - 1 : /\ frames[i].kind = "create"
                                                  /\ frames[i].address = a
    BY DEF Making
  <2>3. a \in Making(n + 1) <=> \E i \in 1 .. n : /\ frames[i].kind = "create"
                                                  /\ frames[i].address = a
    BY <2>1 DEF Making
  <2> QED
    BY <2>1, <2>2, <2>3
<1> QED
  BY <1>1, <1>3, <1>4, <1>5, <1>6, <1>7

-----------------------------------------------------------------------------
(* A frame is started.                                                      *)

(* Nonces and verified codes: the new level is like the last one was, and   *)
(* only a creation has given an account a code that is not verified.        *)
LEMMA PushKeepsNonces ==
    ASSUME DeploymentInv, NEW n, NEW f, Pushing(n, f), UNCHANGED chain, Made(f, n + 1),
           \A c \in Creators : f.out[c].nonce = out[c].nonce /\ out'[c].nonce = out[c].nonce,
           f.eff = eff,
           \A b \in Addresses :
              \/ eff'[b] = eff[b]
              \/ f.kind = "create" /\ f.address = b /\ b \in ghost'.unverified,
           ghost.unverified \subseteq ghost'.unverified
    PROVE  FramesMade' /\ NoncesPass' /\ \A l \in Levels' : Verified(Effs(l))'
<1>1. /\ n \in Nat /\ Len(frames) = n /\ DOMAIN frames = 1 .. n
      /\ DOMAIN frames' = 1 .. n + 1 /\ frames'[n + 1] = f
      /\ \A i \in 1 .. n : Like(frames'[i], frames[i])
  BY DEF Pushing, Kept
<1>2. /\ Levels = 1 .. n + 1 /\ Levels' = 1 .. n + 2
      /\ \A l \in 1 .. n : Outs(l)' = Outs(l) /\ Effs(l)' = Effs(l)
      /\ \A l \in 1 .. n + 1 : Making(l)' = Making(l)
      /\ Outs(n + 1) = out /\ Effs(n + 1) = eff
      /\ Outs(n + 1)' = f.out /\ Effs(n + 1)' = f.eff
      /\ Outs(n + 2)' = out' /\ Effs(n + 2)' = eff'
  BY PushedLevels
<1>7. \A a \in Addresses : a \in Making(n + 1) => a \in Making(n + 2)'
  BY PushedLevels
<1>8. f.kind = "create" /\ f.address \in Addresses => f.address \in Making(n + 2)'
  BY PushedLevels
<1>3. \A l \in 1 .. n + 2 : l \in 1 .. n \/ l = n + 1 \/ l = n + 2
  BY <1>1
<1>4. FramesMade'
  <2>1. \A i \in 1 .. n : Made(frames[i], i)
    BY <1>1 DEF DeploymentInv, FramesMade
  <2>2. \A i \in 1 .. n : Made(frames'[i], i)
    BY <1>1, <2>1 DEF Made, Like
  <2>3. \A i \in 1 .. n + 1 : i \in 1 .. n \/ i = n + 1
    BY <1>1
  <2>4. \A i \in 1 .. n + 1 : Made(frames'[i], i)
    BY <1>1, <2>2, <2>3
  <2>5. \A i \in 1 .. n + 1 : Made(frames[i], i)'
    BY <2>4 DEF Made, GetNonce
  <2> QED
    BY <1>1, <2>5 DEF FramesMade
<1>5. NoncesPass'
  <2>1. \A l \in 1 .. n + 1 : NoncesPassed(Outs(l), Effs(l), Making(l))
    BY <1>2 DEF DeploymentInv, NoncesPass
  <2>2. ASSUME NEW l \in 1 .. n PROVE NoncesPassed(Outs(l), Effs(l), Making(l))'
    BY <1>1, <1>2, <2>1, <2>2 DEF NoncesPassed, GetNonce
  <2>3. NoncesPassed(out, eff, Making(n + 1))
    BY <1>1, <1>2, <2>1
  <2>4. NoncesPassed(Outs(n + 1), Effs(n + 1), Making(n + 1))'
    BY <1>1, <1>2, <2>3 DEF NoncesPassed, GetNonce
  <2>5. NoncesPassed(Outs(n + 2), Effs(n + 2), Making(n + 2))'
    <3>1. \A c \in Creators : \A k \in DOMAIN NewAddressOf[c] : NewAddressOf[c][k] \in Addresses
      BY DEF Addresses, Created
    <3>2. ASSUME NEW c \in Creators, NEW k \in DOMAIN NewAddressOf[c],
                 eff'[NewAddressOf[c][k]] # NoCode
          PROVE  k < GetNonce(out, c) \/ NewAddressOf[c][k] \in Making(n + 2)'
      <4>1. CASE eff[NewAddressOf[c][k]] # NoCode
        BY <1>7, <2>3, <3>1, <4>1 DEF NoncesPassed
      <4>2. CASE eff[NewAddressOf[c][k]] = NoCode
        BY <1>8, <3>1, <3>2, <4>2
      <4> QED
        BY <4>1, <4>2
    <3>3. \A c \in Creators : GetNonce(out, c)' = GetNonce(out, c)
      BY DEF GetNonce
    <3>4. \A c \in Creators : out[c].nonce = 0 \/ out[c].nonce >= chain.nonce[c]
      BY <2>3 DEF NoncesPassed
    <3>5. NoncesPassed(out, eff, Making(n + 2))'
      BY <3>2, <3>3, <3>4 DEF NoncesPassed
    <3> QED
      BY <1>2, <3>5 DEF NoncesPassed, GetNonce
  <2> QED
    BY <1>2, <1>3, <2>2, <2>4, <2>5 DEF NoncesPass
<1>6. \A l \in Levels' : Verified(Effs(l))'
  <2>1. \A l \in 1 .. n + 1 : Verified(Effs(l))
    BY <1>2 DEF DeploymentInv
  <2>2. \A l \in 1 .. n : Verified(Effs(l))'
    BY <1>1, <1>2, <2>1 DEF Verified
  <2>3. Verified(eff)
    BY <1>1, <1>2, <2>1
  <2>4. Verified(Effs(n + 1))'
    BY <1>2, <2>3 DEF Verified
  <2>5. Verified(Effs(n + 2))'
    BY <1>2, <2>3 DEF Verified
  <2> QED
    BY <1>2, <1>3, <2>2, <2>4, <2>5
<1> QED
  BY <1>4, <1>5, <1>6

(* What is found of codes when an account is called, called back, upgraded  *)
(* or created by a transaction: the same.                                   *)
LEMMA PushKeepsOutput ==
    ASSUME DeploymentTypes, OutputInv, NEW n, NEW f, Pushing(n, f),
           chain'.code = chain.code, UNCHANGED <<eff, codeUpdates>>,
           f.out = out, f.eff = eff, n = 0 \/ f.kind # "create",
           \A b \in Addresses : out'[b].code = out[b].code \/ out'[b].code = GetCode(out, b)
    PROVE  OutputInv'
<1>1. /\ n \in Nat /\ Len(frames) = n /\ DOMAIN frames = 1 .. n
      /\ DOMAIN frames' = 1 .. n + 1 /\ frames'[n + 1] = f
      /\ \A i \in 1 .. n : Like(frames'[i], frames[i])
  BY DEF Pushing, Kept
<1>2. /\ Levels = 1 .. n + 1 /\ Levels' = 1 .. n + 2
      /\ \A l \in 1 .. n : Outs(l)' = Outs(l) /\ Effs(l)' = Effs(l)
      /\ Outs(n + 1) = out /\ Effs(n + 1) = eff
      /\ Outs(n + 1)' = f.out /\ Effs(n + 1)' = f.eff
      /\ Outs(n + 2)' = out' /\ Effs(n + 2)' = eff'
  BY PushedLevels
<1>3. \A l \in 1 .. n + 2 : l \in 1 .. n + 1 \/ l = n + 2
  BY <1>1
<1>4. \A l \in 1 .. n + 1 : Outs(l)' = Outs(l) /\ Effs(l)' = Effs(l)
  BY <1>1, <1>2
<1>5. \A i \in 1 .. n : NestedCreation(i)' <=> NestedCreation(i)
  BY <1>1 DEF NestedCreation, Like
<1>6. ~NestedCreation(n + 1)'
  BY <1>1 DEF NestedCreation
<1>7. \A b \in Addresses : GetCode(out', b) = GetCode(out, b)
  BY DEF GetCode
<1>8. \A b \in Addresses : out[b].code # NoCode => out'[b].code # NoCode
  BY DEF GetCode
<1>9. CodeFound'
  <2>1. \A l \in 1 .. n, b \in Addresses :
            \/ GetCode(Outs(l), b) = Effs(l)[b]
            \/ NestedCreation(l) /\ frames[l].address = b
    BY <1>1, <1>2 DEF OutputInv, CodeFound
  <2>2. \A b \in Addresses : GetCode(out, b) = eff[b]
    BY <1>1, <1>2 DEF OutputInv, CodeFound
  <2>3. \A l \in 1 .. n, b \in Addresses :
            \/ GetCode(Outs(l), b)' = Effs(l)'[b]
            \/ l \in DOMAIN frames' /\ NestedCreation(l)' /\ frames'[l].address = b
    BY <1>1, <1>2, <1>5, <2>1 DEF GetCode, Like
  <2>4. \A b \in Addresses : GetCode(Outs(n + 1), b)' = Effs(n + 1)'[b]
    BY <1>2, <2>2 DEF GetCode
  <2>5. \A b \in Addresses : GetCode(Outs(n + 2), b)' = Effs(n + 2)'[b]
    BY <1>2, <1>7, <2>2 DEF GetCode
  <2>6. \A l \in 1 .. n + 2 : l \in 1 .. n \/ l = n + 1 \/ l = n + 2
    BY <1>1
  <2> QED
    BY <1>2, <2>3, <2>4, <2>5, <2>6 DEF CodeFound
<1>10. CodesStay'
  <2>1. \A l, m \in 1 .. n + 1, b \in Addresses :
            l <= m => /\ Outs(l)[b].code # NoCode => Outs(m)[b].code # NoCode
                      /\ Effs(l)[b] # NoCode => Effs(m)[b] # NoCode
    BY <1>2 DEF OutputInv, CodesStay
  <2>2. \A l \in 1 .. n + 1, b \in Addresses :
            /\ Outs(l)[b].code # NoCode => out'[b].code # NoCode
            /\ Effs(l)[b] # NoCode => eff'[b] # NoCode
    BY <1>1, <1>2, <1>8, <2>1
  <2>3. \A l, m \in 1 .. n + 2 : l <= m => l \in 1 .. n + 1 \/ (l = n + 2 /\ m = n + 2)
    BY <1>1
  <2> QED
    BY <1>2, <1>3, <1>4, <2>1, <2>2, <2>3 DEF CodesStay
<1>11. OnlyUpdates'
  <2>1. 1 \in 1 .. n + 1
    BY <1>1
  <2> QED
    BY <1>2, <1>3, <1>4, <2>1 DEF OutputInv, OnlyUpdates
<1>12. CreationsKept'
  <2>1. ASSUME NEW i \in 1 .. n, NestedCreation(i)
        PROVE  LET a == frames'[i].address
               IN  /\ a \in codeUpdates' /\ chain'.code[a] = NoCode
                   /\ frames'[i].eff[a] = NoCode /\ frames'[i].out[a].code # NoCode
                   /\ \A l \in Levels' : l > i => Effs(l)'[a] # NoCode
    <3>1. Like(frames'[i], frames[i])
      BY <1>1
    <3>2. LET a == frames[i].address
          IN  /\ a \in codeUpdates /\ chain.code[a] = NoCode
              /\ frames[i].eff[a] = NoCode /\ frames[i].out[a].code # NoCode
              /\ \A l \in 1 .. n + 1 : l > i => Effs(l)[a] # NoCode
      BY <1>1, <1>2, <2>1 DEF OutputInv, CreationsKept
    <3>3. n + 1 > i /\ n + 1 \in 1 .. n + 1
      BY <1>1
    <3>4. eff[frames[i].address] # NoCode
      BY <1>2, <3>2, <3>3
    <3> QED
      BY <1>2, <1>3, <1>4, <3>1, <3>2, <3>4 DEF Like
  <2>2. \A i \in 1 .. n + 1 : i \in 1 .. n \/ i = n + 1
    BY <1>1
  <2> QED
    BY <1>1, <1>5, <1>6, <2>1, <2>2 DEF CreationsKept
<1> QED
  BY <1>9, <1>10, <1>11, <1>12 DEF OutputInv

(* A contract creates another one, at an address without code: the account   *)
(* has its code from now on, and loses it if the frame fails.                *)
LEMMA CreationKeepsOutput ==
    ASSUME DeploymentTypes, OutputInv, NEW n, NEW f, Pushing(n, f), n > 0,
           UNCHANGED chain, NEW a \in Addresses, NEW code \in Codes,
           f.kind = "create", f.address = a, f.eff = eff, f.out = out',
           eff[a] = NoCode, chain.code[a] = NoCode,
           \A b \in Addresses : out'[b].code = IF b = a THEN code ELSE out[b].code,
           \A b \in Addresses : eff'[b] = IF b = a THEN code ELSE eff[b],
           codeUpdates' = codeUpdates \cup {a}
    PROVE  OutputInv'
<1>0. code # NoCode
  BY DeploymentAssumption
<1>1. /\ n \in Nat /\ Len(frames) = n /\ DOMAIN frames = 1 .. n
      /\ DOMAIN frames' = 1 .. n + 1 /\ frames'[n + 1] = f
      /\ \A i \in 1 .. n : Like(frames'[i], frames[i])
  BY DEF Pushing, Kept
<1>2. /\ Levels = 1 .. n + 1 /\ Levels' = 1 .. n + 2
      /\ \A l \in 1 .. n : Outs(l)' = Outs(l) /\ Effs(l)' = Effs(l)
      /\ Outs(n + 1) = out /\ Effs(n + 1) = eff
      /\ Outs(n + 1)' = out' /\ Effs(n + 1)' = eff
      /\ Outs(n + 2)' = out' /\ Effs(n + 2)' = eff'
  BY PushedLevels
<1>3. \A l \in 1 .. n + 2 : l \in 1 .. n \/ l = n + 1 \/ l = n + 2
  BY <1>1
<1>4. \A i \in 1 .. n : NestedCreation(i)' <=> NestedCreation(i)
  BY <1>1 DEF NestedCreation, Like
<1>5. NestedCreation(n + 1)'
  BY <1>1 DEF NestedCreation
<1>6. CodeFound'
  <2>1. \A l \in 1 .. n, b \in Addresses :
            \/ GetCode(Outs(l), b) = Effs(l)[b]
            \/ NestedCreation(l) /\ frames[l].address = b
    BY <1>1, <1>2 DEF OutputInv, CodeFound
  <2>2. \A b \in Addresses : GetCode(out, b) = eff[b]
    BY <1>1, <1>2 DEF OutputInv, CodeFound
  <2>3. \A l \in 1 .. n, b \in Addresses :
            \/ GetCode(Outs(l), b)' = Effs(l)'[b]
            \/ l \in DOMAIN frames' /\ NestedCreation(l)' /\ frames'[l].address = b
    BY <1>1, <1>2, <1>4, <2>1 DEF GetCode, Like
  <2>4. \A b \in Addresses :
            \/ GetCode(Outs(n + 1), b)' = Effs(n + 1)'[b]
            \/ NestedCreation(n + 1)' /\ frames'[n + 1].address = b
    BY <1>1, <1>2, <1>5, <2>2 DEF GetCode
  <2>5. \A b \in Addresses : GetCode(Outs(n + 2), b)' = Effs(n + 2)'[b]
    BY <1>0, <1>2, <2>2 DEF GetCode
  <2>6. n + 1 \in DOMAIN frames'
    BY <1>1
  <2> QED
    BY <1>2, <1>3, <2>3, <2>4, <2>5, <2>6 DEF CodeFound
<1>7. CodesStay'
  <2>1. \A l, m \in 1 .. n + 1, b \in Addresses :
            l <= m => /\ Outs(l)[b].code # NoCode => Outs(m)[b].code # NoCode
                      /\ Effs(l)[b] # NoCode => Effs(m)[b] # NoCode
    BY <1>2 DEF OutputInv, CodesStay
  <2>2. \A l \in 1 .. n, b \in Addresses :
            /\ Outs(l)[b].code # NoCode => out'[b].code # NoCode
            /\ Effs(l)[b] # NoCode => eff[b] # NoCode
    BY <1>0, <1>1, <1>2, <2>1
  <2>3. \A b \in Addresses : eff[b] # NoCode => eff'[b] # NoCode
    BY <1>0
  <2>4. ASSUME NEW l \in 1 .. n + 2, NEW m \in 1 .. n + 2, l <= m, NEW b \in Addresses
        PROVE  /\ Outs(l)'[b].code # NoCode => Outs(m)'[b].code # NoCode
               /\ Effs(l)'[b] # NoCode => Effs(m)'[b] # NoCode
    <3>1. CASE l \in 1 .. n /\ m \in 1 .. n
      <4>1. l \in 1 .. n + 1 /\ m \in 1 .. n + 1
        BY <1>1, <3>1
      <4>2. /\ Outs(l)[b].code # NoCode => Outs(m)[b].code # NoCode
            /\ Effs(l)[b] # NoCode => Effs(m)[b] # NoCode
        BY <2>1, <2>4, <4>1
      <4> QED
        BY <1>2, <3>1, <4>2
    <3>2. CASE l \in 1 .. n /\ m \in {n + 1, n + 2}
      BY <1>2, <2>2, <2>3, <3>2
    <3>3. CASE l = n + 1 /\ m \in {n + 1, n + 2}
      BY <1>2, <2>3, <3>3
    <3>4. CASE l = n + 2 /\ m = n + 2
      BY <3>4
    <3> QED
      BY <1>1, <2>4, <3>1, <3>2, <3>3, <3>4
  <2> QED
    BY <1>2, <2>4 DEF CodesStay
<1>8. OnlyUpdates'
  <2>1. 1 \in 1 .. n
    BY <1>1
  <2>2. Effs(1)' = chain'.code
    BY <1>2, <2>1 DEF OutputInv, OnlyUpdates
  <2>3. \A b \in Addresses \ codeUpdates' : b \in Addresses \ codeUpdates /\ eff'[b] = eff[b]
    BY <1>0
  <2>4. \A b \in Addresses \ codeUpdates, l \in 1 .. n : Effs(l)[b] = eff[b]
    BY <1>1, <1>2 DEF OutputInv, OnlyUpdates
  <2> QED
    BY <1>2, <1>3, <2>2, <2>3, <2>4 DEF OnlyUpdates
<1>9. CreationsKept'
  <2>1. ASSUME NEW i \in 1 .. n, NestedCreation(i)
        PROVE  LET x == frames'[i].address
               IN  /\ x \in codeUpdates' /\ chain'.code[x] = NoCode
                   /\ frames'[i].eff[x] = NoCode /\ frames'[i].out[x].code # NoCode
                   /\ \A l \in Levels' : l > i => Effs(l)'[x] # NoCode
    <3>1. Like(frames'[i], frames[i])
      BY <1>1
    <3>2. LET x == frames[i].address
          IN  /\ x \in codeUpdates /\ chain.code[x] = NoCode
              /\ frames[i].eff[x] = NoCode /\ frames[i].out[x].code # NoCode
              /\ \A l \in 1 .. n + 1 : l > i => Effs(l)[x] # NoCode
      BY <1>1, <1>2, <2>1 DEF OutputInv, CreationsKept
    <3>3. n + 1 > i /\ n + 1 \in 1 .. n + 1 /\ \A l \in 1 .. n : l \in 1 .. n + 1
      BY <1>1
    <3>4. frames[i].address \in Addresses
      BY <1>1, FrameFacts DEF FrameType
    <3>5. eff[frames[i].address] # NoCode /\ eff'[frames[i].address] # NoCode
      BY <1>0, <1>2, <3>2, <3>3, <3>4
    <3> QED
      BY <1>2, <1>3, <3>1, <3>2, <3>3, <3>5 DEF Like
  <2>2. LET x == f.address
        IN  /\ x \in codeUpdates' /\ chain'.code[x] = NoCode
            /\ f.eff[x] = NoCode /\ f.out[x].code # NoCode
            /\ \A l \in Levels' : l > n + 1 => Effs(l)'[x] # NoCode
    <3>1. \A l \in 1 .. n + 2 : l > n + 1 => l = n + 2
      BY <1>1
    <3> QED
      BY <1>0, <1>2, <3>1
  <2>3. \A i \in 1 .. n + 1 : i \in 1 .. n \/ i = n + 1
    BY <1>1
  <2> QED
    BY <1>1, <1>4, <1>5, <2>1, <2>2, <2>3 DEF CreationsKept
<1> QED
  BY <1>6, <1>7, <1>8, <1>9 DEF OutputInv

-----------------------------------------------------------------------------
(* A nested execution ends.                                                 *)

(* The nonces and the verified codes of the level below, and of the one that *)
(* takes the place of the frame's.                                           *)
LEMMA PopKeepsNonces ==
    ASSUME DeploymentInv, NEW n, Popping(n), UNCHANGED <<chain, ghost>>,
           NoncesPassed(out', eff', Making(n)), Verified(eff')
    PROVE  FramesMade' /\ NoncesPass' /\ \A l \in Levels' : Verified(Effs(l))'
<1>1. /\ n \in Nat \ {0} /\ DOMAIN frames = 1 .. n /\ DOMAIN frames' = 1 .. n - 1
      /\ \A i \in 1 .. n - 1 : Like(frames'[i], frames[i])
  <2>1. n \in Int /\ n - 1 \in Nat
    BY DEF Popping, Kept
  <2> QED
    BY <2>1 DEF Popping, Kept
<1>2. /\ Levels = 1 .. n + 1 /\ Levels' = 1 .. n
      /\ \A l \in 1 .. n - 1 : Outs(l)' = Outs(l) /\ Effs(l)' = Effs(l)
      /\ \A l \in 1 .. n : Making(l)' = Making(l)
      /\ Outs(n)' = out' /\ Effs(n)' = eff'
  BY PoppedLevels
<1>3. \A l \in 1 .. n : l \in 1 .. n - 1 \/ l = n
  BY <1>1
<1>4. FramesMade'
  <2>1. \A i \in 1 .. n - 1 : Made(frames[i], i)
    BY <1>1 DEF DeploymentInv, FramesMade
  <2>2. \A i \in 1 .. n - 1 : Made(frames'[i], i)
    BY <1>1, <2>1 DEF Made, Like
  <2>3. \A i \in 1 .. n - 1 : Made(frames[i], i)'
    BY <2>2 DEF Made, GetNonce
  <2> QED
    BY <1>1, <2>3 DEF FramesMade
<1>5. NoncesPass'
  <2>1. \A l \in 1 .. n - 1 : NoncesPassed(Outs(l), Effs(l), Making(l))
    BY <1>1, <1>2 DEF DeploymentInv, NoncesPass
  <2>2. \A l \in 1 .. n - 1 : NoncesPassed(Outs(l), Effs(l), Making(l))'
    BY <1>1, <1>2, <2>1 DEF NoncesPassed, GetNonce
  <2>3. n \in 1 .. n
    BY <1>1
  <2>4. NoncesPassed(Outs(n), Effs(n), Making(n))'
    BY <1>2, <2>3 DEF NoncesPassed, GetNonce
  <2> QED
    BY <1>2, <1>3, <2>2, <2>4 DEF NoncesPass
<1>6. \A l \in Levels' : Verified(Effs(l))'
  <2>1. \A l \in 1 .. n - 1 : Verified(Effs(l))
    BY <1>1, <1>2 DEF DeploymentInv
  <2>2. \A l \in 1 .. n - 1 : Verified(Effs(l))'
    BY <1>2, <2>1 DEF Verified
  <2>3. Verified(Effs(n))'
    BY <1>2 DEF Verified
  <2> QED
    BY <1>2, <1>3, <2>2, <2>3
<1> QED
  BY <1>4, <1>5, <1>6

(* The outputs: the level that takes the frame's place must find the codes   *)
(* that took effect, and lose none that the frame found.                     *)
LEMMA PopKeepsOutput ==
    ASSUME DeploymentTypes, OutputInv, NEW n, Popping(n), n > 1, UNCHANGED chain,
           \A b \in Addresses : GetCode(out', b) = eff'[b],
           \A b \in Addresses : \A l \in 1 .. n - 1 :
              /\ Outs(l)[b].code # NoCode => out'[b].code # NoCode
              /\ Effs(l)[b] # NoCode => eff'[b] # NoCode
              /\ b \notin codeUpdates' => Effs(l)[b] = eff'[b],
           \A i \in 1 .. n - 1 : NestedCreation(i) =>
              frames[i].address \in codeUpdates' /\ eff'[frames[i].address] # NoCode
    PROVE  OutputInv'
<1>1. /\ n \in Nat \ {0} /\ DOMAIN frames = 1 .. n /\ DOMAIN frames' = 1 .. n - 1
      /\ \A i \in 1 .. n - 1 : Like(frames'[i], frames[i])
  <2>1. n \in Int /\ n - 1 \in Nat
    BY DEF Popping, Kept
  <2> QED
    BY <2>1 DEF Popping, Kept
<1>2. /\ Levels = 1 .. n + 1 /\ Levels' = 1 .. n
      /\ \A l \in 1 .. n - 1 : Outs(l)' = Outs(l) /\ Effs(l)' = Effs(l)
      /\ Outs(n)' = out' /\ Effs(n)' = eff'
  BY PoppedLevels
<1>3. \A l \in 1 .. n : l \in 1 .. n - 1 \/ l = n
  BY <1>1
<1>4. \A i \in 1 .. n - 1 : NestedCreation(i)' <=> NestedCreation(i)
  BY <1>1 DEF NestedCreation, Like
<1>5. CodeFound'
  <2>1. \A l \in 1 .. n - 1, b \in Addresses :
            \/ GetCode(Outs(l), b) = Effs(l)[b]
            \/ NestedCreation(l) /\ frames[l].address = b
    BY <1>1, <1>2 DEF OutputInv, CodeFound
  <2>2. \A l \in 1 .. n - 1, b \in Addresses :
            \/ GetCode(Outs(l), b)' = Effs(l)'[b]
            \/ l \in DOMAIN frames' /\ NestedCreation(l)' /\ frames'[l].address = b
    BY <1>1, <1>2, <1>4, <2>1 DEF GetCode, Like
  <2>3. \A b \in Addresses : GetCode(Outs(n), b)' = Effs(n)'[b]
    BY <1>2 DEF GetCode
  <2> QED
    BY <1>2, <1>3, <2>2, <2>3 DEF CodeFound
<1>6. CodesStay'
  <2>1. \A l, m \in 1 .. n - 1, b \in Addresses :
            l <= m => /\ Outs(l)[b].code # NoCode => Outs(m)[b].code # NoCode
                      /\ Effs(l)[b] # NoCode => Effs(m)[b] # NoCode
    BY <1>1, <1>2 DEF OutputInv, CodesStay
  <2>2. ASSUME NEW l \in 1 .. n, NEW m \in 1 .. n, l <= m, NEW b \in Addresses
        PROVE  /\ Outs(l)'[b].code # NoCode => Outs(m)'[b].code # NoCode
               /\ Effs(l)'[b] # NoCode => Effs(m)'[b] # NoCode
    <3>1. CASE l \in 1 .. n - 1 /\ m \in 1 .. n - 1
      BY <1>2, <2>1, <2>2, <3>1
    <3>2. CASE l \in 1 .. n - 1 /\ m = n
      BY <1>2, <3>2
    <3>3. CASE l = n /\ m = n
      BY <3>3
    <3> QED
      BY <1>1, <2>2, <3>1, <3>2, <3>3
  <2> QED
    BY <1>2, <2>2 DEF CodesStay
<1>7. OnlyUpdates'
  <2>1. 1 \in 1 .. n - 1
    BY <1>1
  <2> QED
    BY <1>2, <1>3, <2>1 DEF OutputInv, OnlyUpdates
<1>8. CreationsKept'
  <2>1. ASSUME NEW i \in 1 .. n - 1, NestedCreation(i)
        PROVE  LET x == frames'[i].address
               IN  /\ x \in codeUpdates' /\ chain'.code[x] = NoCode
                   /\ frames'[i].eff[x] = NoCode /\ frames'[i].out[x].code # NoCode
                   /\ \A l \in Levels' : l > i => Effs(l)'[x] # NoCode
    <3>1. Like(frames'[i], frames[i])
      BY <1>1
    <3>2. LET x == frames[i].address
          IN  /\ chain.code[x] = NoCode
              /\ frames[i].eff[x] = NoCode /\ frames[i].out[x].code # NoCode
              /\ \A l \in 1 .. n - 1 : l > i => Effs(l)[x] # NoCode
      BY <1>1, <1>2, <2>1 DEF OutputInv, CreationsKept
    <3> QED
      BY <1>2, <1>3, <2>1, <3>1, <3>2 DEF Like
  <2> QED
    BY <1>1, <1>4, <2>1 DEF CreationsKept
<1> QED
  BY <1>5, <1>6, <1>7, <1>8 DEF OutputInv

-----------------------------------------------------------------------------
(* Between transactions there is one level.                                 *)

LEMMA OneLevel ==
    ASSUME frames = << >>
    PROVE  /\ Levels = {1} /\ Outs(1) = out /\ Effs(1) = eff /\ Making(1) = {}
           /\ DOMAIN frames = {}
<1>1. Len(frames) = 0 /\ DOMAIN frames = {}
  OBVIOUS
<1>2. Levels = {1} /\ Making(1) = {}
  BY <1>1 DEF Levels, Making
<1> QED
  BY <1>1, <1>2 DEF Outs, Effs

LEMMA EmptyOutputs ==
    /\ EmptyOutput \in OutType
    /\ \A a \in Addresses \cup Creators : EmptyOutput[a].nonce = 0 /\ EmptyOutput[a].code = NoCode
  BY DEF EmptyOutput, EmptyAccount, OutType, Account

LEMMA IdleFacts ==
    ASSUME DeploymentInv, frames = << >>
    PROVE  /\ out = EmptyOutput /\ codeUpdates = {}
           /\ NoncesPassed(EmptyOutput, eff, {}) /\ Verified(eff)
           /\ ~ghost.over => eff = chain.code
<1>1. /\ Levels = {1} /\ Outs(1) = out /\ Effs(1) = eff /\ Making(1) = {}
  BY OneLevel
<1>2. out = EmptyOutput /\ codeUpdates = {}
  BY DEF DeploymentInv, DeploymentTypes
<1>3. NoncesPassed(Outs(1), Effs(1), Making(1)) /\ Verified(Effs(1))
  BY <1>1 DEF DeploymentInv, NoncesPass
<1>4. ~ghost.over => Effs(1) = chain.code
  BY DEF DeploymentInv, OutputInv, OnlyUpdates
<1> QED
  BY <1>1, <1>2, <1>3, <1>4

(* What the Node has learnt is all that is left of a transaction. *)
LEMMA IdleAgain ==
    ASSUME frames' = << >>, out' = EmptyOutput, codeUpdates' = {},
           NoncesPassed(EmptyOutput, eff, {})', Verified(eff)',
           ~ghost'.over => eff' = chain'.code
    PROVE  /\ FramesMade' /\ NoncesPass' /\ \A l \in Levels' : Verified(Effs(l))'
           /\ ~ghost'.over => OutputInv'
<1>1. /\ Levels' = {1} /\ Outs(1)' = out' /\ Effs(1)' = eff' /\ Making(1)' = {}
      /\ DOMAIN frames' = {}
  <2>1. Len(frames') = 0 /\ DOMAIN frames' = {}
    OBVIOUS
  <2>2. Levels' = {1} /\ Making(1)' = {}
    BY <2>1 DEF Levels, Making
  <2> QED
    BY <2>1, <2>2 DEF Outs, Effs
<1>2. FramesMade'
  BY <1>1 DEF FramesMade
<1>3. NoncesPassed(Outs(1), Effs(1), Making(1))'
  BY <1>1 DEF NoncesPassed, GetNonce, EmptyOutput
<1>4. NoncesPass'
  BY <1>1, <1>3 DEF NoncesPass
<1>5. \A l \in Levels' : Verified(Effs(l))'
  BY <1>1 DEF Verified
<1>6. ASSUME ~ghost'.over PROVE OutputInv'
  <2>1. \A b \in Addresses : GetCode(Outs(1), b)' = Effs(1)'[b]
    BY <1>1, <1>6, EmptyOutputs DEF GetCode
  <2>2. CodeFound'
    BY <1>1, <2>1 DEF CodeFound
  <2>3. CodesStay'
    BY <1>1 DEF CodesStay
  <2>4. OnlyUpdates'
    BY <1>1, <1>6 DEF OnlyUpdates
  <2>5. CreationsKept'
    BY <1>1 DEF CreationsKept
  <2> QED
    BY <2>2, <2>3, <2>4, <2>5 DEF OutputInv
<1> QED
  BY <1>2, <1>4, <1>5, <1>6

(* The instances of a stack with one frame more, or less. *)
LEMMA PushKeepsInstances ==
    ASSUME DeploymentInv, NEW n, NEW f, Pushing(n, f), ghost.stale => ghost'.stale,
           ~ghost'.stale => /\ f.running = f.code
                            /\ \A h \in Codes : compiled'[h] \in {h, NoCode}
    PROVE  InstancesRunTheirCode'
<1>1. /\ n \in Nat /\ DOMAIN frames = 1 .. n
      /\ DOMAIN frames' = 1 .. n + 1 /\ frames'[n + 1] = f
      /\ \A i \in 1 .. n : Like(frames'[i], frames[i])
  BY DEF Pushing, Kept
<1>2. \A i \in 1 .. n + 1 : i \in 1 .. n \/ i = n + 1
  BY <1>1
<1> QED
  BY <1>1, <1>2 DEF DeploymentInv, InstancesRunTheirCode, Like

LEMMA PopKeepsInstances ==
    ASSUME DeploymentInv, NEW m, Kept(m, m), UNCHANGED ghost,
           ~ghost.stale => \A h \in Codes : compiled'[h] \in {h, NoCode}
    PROVE  InstancesRunTheirCode'
  BY DEF DeploymentInv, InstancesRunTheirCode, Kept, Like

(* Only what is due next has changed. *)
LEMMA StayKeeps ==
    ASSUME DeploymentInv, NEW n, Staying(n), UNCHANGED <<chain, out, eff, codeUpdates, ghost>>
    PROVE  /\ FramesMade' /\ NoncesPass' /\ \A l \in Levels' : Verified(Effs(l))'
           /\ ~ghost'.over => OutputInv'
<1>1. /\ n \in Nat /\ DOMAIN frames = 1 .. n /\ DOMAIN frames' = 1 .. n
      /\ Len(frames) = n /\ Len(frames') = n
      /\ \A i \in 1 .. n : Like(frames'[i], frames[i])
  BY DEF Staying, Kept
<1>2. Levels' = Levels /\ Levels = 1 .. n + 1
  BY <1>1 DEF Levels
<1>3. \A l \in Levels : Outs(l)' = Outs(l) /\ Effs(l)' = Effs(l)
  BY <1>1, <1>2 DEF Outs, Effs, Like
<1>4. \A l \in Levels : Making(l)' = Making(l)
  BY <1>1, <1>2 DEF Making, Like
<1>5. FramesMade'
  <2>1. \A i \in 1 .. n : Made(frames[i], i)
    BY <1>1 DEF DeploymentInv, FramesMade
  <2>2. \A i \in 1 .. n : Made(frames'[i], i)
    BY <1>1, <2>1 DEF Made, Like
  <2>3. \A i \in 1 .. n : Made(frames[i], i)'
    BY <2>2 DEF Made, GetNonce
  <2> QED
    BY <1>1, <2>3 DEF FramesMade
<1>6. NoncesPass'
  <2>1. \A l \in Levels : NoncesPassed(Outs(l), Effs(l), Making(l))
    BY DEF DeploymentInv, NoncesPass
  <2>2. \A l \in Levels : NoncesPassed(Outs(l), Effs(l), Making(l))'
    BY <1>3, <1>4, <2>1 DEF NoncesPassed, GetNonce
  <2> QED
    BY <1>2, <2>2 DEF NoncesPass
<1>7. \A l \in Levels' : Verified(Effs(l))'
  <2>1. \A l \in Levels : Verified(Effs(l))
    BY DEF DeploymentInv
  <2> QED
    BY <1>2, <1>3, <2>1 DEF Verified
<1>8. \A i \in 1 .. n : /\ NestedCreation(i)' <=> NestedCreation(i)
                        /\ frames'[i].address = frames[i].address
                        /\ frames'[i].eff = frames[i].eff /\ frames'[i].out = frames[i].out
  BY <1>1 DEF NestedCreation, Like
<1>9. ASSUME ~ghost'.over PROVE OutputInv'
  <2>1. OutputInv
    BY <1>9 DEF DeploymentInv
  <2>2. CodeFound'
    BY <1>1, <1>2, <1>3, <1>8, <2>1 DEF OutputInv, CodeFound, GetCode
  <2>3. CodesStay'
    BY <1>2, <1>3, <2>1 DEF OutputInv, CodesStay
  <2>4. OnlyUpdates'
    <3>1. 1 \in Levels
      BY <1>1, <1>2
    <3> QED
      BY <1>2, <1>3, <2>1, <3>1 DEF OutputInv, OnlyUpdates
  <2>5. CreationsKept'
    BY <1>1, <1>2, <1>3, <1>8, <2>1 DEF OutputInv, CreationsKept
  <2> QED
    BY <2>2, <2>3, <2>4, <2>5 DEF OutputInv
<1> QED
  BY <1>5, <1>6, <1>7, <1>9

-----------------------------------------------------------------------------
(* The operations.                                                          *)

LEMMA PushKeepsTypes ==
    ASSUME DeploymentTypes, NEW n, NEW f, Pushing(n, f), n < MaxFrames, f.next = "run",
           \A i \in 1 .. n : frames'[i].next = "callback" => frames[i].next = "callback",
           out' \in OutType, eff' \in EffType, codeUpdates' \subseteq Addresses,
           compiled' \in [Codes -> Codes \cup {NoCode}], verifyCode' \in BOOLEAN,
           chain' \in [code : EffType, nonce : [Creators -> Nat]], UNCHANGED aot,
           ghost' \in GhostType
    PROVE  DeploymentTypes'
<1>1. /\ n \in Nat /\ DOMAIN frames = 1 .. n /\ DOMAIN frames' = 1 .. n + 1
      /\ Len(frames') = n + 1 /\ frames'[n + 1] = f /\ frames' \in Seq(FrameType)
  BY DEF Pushing, Kept
<1>2. \A i \in 1 .. n + 1 : i \in 1 .. n \/ i = n + 1
  BY <1>1
<1>3. \A i \in DOMAIN frames' : frames'[i].next = "callback" => i < MaxFrames
  BY <1>1, <1>2 DEF DeploymentTypes
<1>4. frames' # << >> /\ Len(frames') <= MaxFrames
  BY <1>1, DeploymentAssumption
<1> QED
  BY <1>1, <1>3, <1>4 DEF DeploymentTypes

LEMMA PopKeepsTypes ==
    ASSUME DeploymentTypes, NEW m, Kept(m, m), m <= Len(frames), m > 0,
           \A i \in 1 .. m : frames'[i].next = "callback" => i < MaxFrames,
           out' \in OutType, eff' \in EffType, codeUpdates' \subseteq Addresses,
           compiled' \in [Codes -> Codes \cup {NoCode}], verifyCode' \in BOOLEAN,
           UNCHANGED <<aot, chain, ghost>>
    PROVE  DeploymentTypes'
<1>1. /\ m \in Nat /\ DOMAIN frames' = 1 .. m /\ Len(frames') = m
      /\ frames' \in Seq(FrameType)
  BY DEF Kept
<1>2. Len(frames) \in Nat /\ Len(frames) <= MaxFrames
  BY FrameFacts DEF DeploymentTypes
<1>3. frames' # << >> /\ Len(frames') <= MaxFrames
  BY <1>1, <1>2, DeploymentAssumption
<1> QED
  BY <1>1, <1>3 DEF DeploymentTypes

LEMMA DeploymentInitially == DeploymentInit => DeploymentInv
<1> SUFFICES ASSUME DeploymentInit PROVE DeploymentInv
  OBVIOUS
<1>1. chain.code \in EffType /\ \A a \in Addresses :
          chain.code[a] = IF a \in Existing THEN Genesis[a] ELSE NoCode
  BY DeploymentAssumption DEF DeploymentInit, EffType
<1>2. chain \in [code : EffType, nonce : [Creators -> Nat]]
  BY <1>1 DEF DeploymentInit
<1>3. compiled \in [Codes -> Codes \cup {NoCode}] /\ \A h \in Codes : compiled[h] \in {h, NoCode}
  BY DEF DeploymentInit
<1>4. frames \in Seq(FrameType) /\ Len(frames) = 0 /\ DOMAIN frames = {}
  BY DEF DeploymentInit
<1>5. ghost \in GhostType /\ eff \in EffType /\ eff = chain.code
  BY <1>1 DEF DeploymentInit, GhostType
<1>6. DeploymentTypes
  <2>1. aot \in BOOLEAN
    <3>1. aot \in AotModes /\ AotModes \subseteq BOOLEAN
      BY DeploymentAssumption, Zenon DEF DeploymentInit
    <3> QED
      BY <3>1, Zenon
  <2>2. verifyCode \in BOOLEAN /\ codeUpdates \subseteq Addresses
    BY Zenon DEF DeploymentInit
  <2>3. 0 <= MaxFrames
    BY DeploymentAssumption
  <2> QED
    BY <1>2, <1>3, <1>4, <1>5, <2>1, <2>2, <2>3, EmptyOutputs DEF DeploymentInit, DeploymentTypes
<1>7. InstancesRunTheirCode
  BY <1>3, <1>4 DEF InstancesRunTheirCode
<1>8. /\ Levels = {1} /\ Outs(1) = out /\ Effs(1) = eff /\ Making(1) = {}
  BY OneLevel DEF DeploymentInit
<1>9. FramesMade
  BY <1>4 DEF FramesMade
<1>10. NoncesPass
  <2>1. ASSUME NEW c \in Creators, NEW k \in DOMAIN NewAddressOf[c]
        PROVE  eff[NewAddressOf[c][k]] = NoCode
    <3>1. NewAddressOf[c][k] \in Created
      BY DEF Created
    <3> QED
      BY <1>1, <1>5, <3>1, DeploymentAssumption DEF Addresses
  <2>2. \A c \in Creators : out[c].nonce = 0
    BY EmptyOutputs DEF DeploymentInit
  <2>3. NoncesPassed(out, eff, {})
    BY <2>1, <2>2 DEF NoncesPassed
  <2> QED
    BY <1>8, <2>3 DEF NoncesPass
<1>11. \A l \in Levels : Verified(Effs(l))
  <2>1. ASSUME NEW a \in Addresses, eff[a] \in Codes PROVE IsValid(WasmModule[eff[a]])
    BY <1>1, <1>5, <2>1, DeploymentAssumption
  <2>2. Verified(eff)
    BY <2>1 DEF Verified
  <2> QED
    BY <1>8, <2>2
<1>12. OutputInv
  <2>1. \A b \in Addresses : GetCode(out, b) = eff[b]
    BY <1>5, EmptyOutputs DEF DeploymentInit, GetCode
  <2>2. CodeFound
    BY <1>8, <2>1 DEF CodeFound
  <2>3. CodesStay
    BY <1>8 DEF CodesStay
  <2>4. OnlyUpdates
    BY <1>5, <1>8 DEF OnlyUpdates
  <2>5. CreationsKept
    BY <1>4 DEF CreationsKept
  <2> QED
    BY <2>2, <2>3, <2>4, <2>5 DEF OutputInv
<1> QED
  BY <1>6, <1>7, <1>9, <1>10, <1>11, <1>12 DEF DeploymentInv

(* An account is started that has code: by a transaction, by a contract, or  *)
(* for a callback.                                                           *)
LEMMA StartKeeps ==
    ASSUME DeploymentInv, NEW kind \in {"call", "callback"}, NEW a \in Addresses,
           NEW caller \in Addresses \cup Creators,
           NEW fs \in Seq(FrameType), Len(fs) = Len(frames), Len(frames) < MaxFrames,
           \A i \in 1 .. Len(fs) :
              Like(fs[i], frames[i]) /\ (fs[i].next = "callback" => frames[i].next = "callback"),
           GetCode(out, a) # NoCode, Start(kind, a, caller, out, fs, eff),
           verifyCode' \in BOOLEAN, UNCHANGED <<aot, chain, codeUpdates, eff>>
    PROVE  DeploymentInv'
<1> DEFINE c == GetCode(out, a)
<1>0. DeploymentTypes
  BY DEF DeploymentInv
<1>1. /\ c \in Codes /\ out \in OutType /\ eff \in EffType /\ CacheCode(out, a) \in OutType
  BY <1>0, OperatorTypes DEF DeploymentTypes
<1>2. /\ Instance(a, c, FALSE) \in Codes
      /\ CompiledAfter(a, c, FALSE) \in [Codes -> Codes \cup {NoCode}]
      /\ (\A h \in Codes : compiled[h] \in {h, NoCode}) /\ CodeHash(a) \in {c, NoCode}
           => /\ Instance(a, c, FALSE) = c
              /\ \A h \in Codes : CompiledAfter(a, c, FALSE)[h] \in {h, NoCode}
  BY <1>0, <1>1, Compiling
<1> HIDE DEF c
<1>3. PICK f : f = Frame(kind, a, c, Instance(a, c, FALSE), caller, out, eff)
  OBVIOUS
<1>4. /\ f \in FrameType /\ f.next = "run" /\ f.out = out /\ f.eff = eff
      /\ f.kind = kind /\ f.running = Instance(a, c, FALSE) /\ f.code = c
  BY <1>1, <1>2, <1>3 DEF Frame, FrameType, FrameKinds
<1>5. /\ compiled' = CompiledAfter(a, c, FALSE) /\ out' = CacheCode(out, a)
      /\ frames' = Append(fs, f)
      /\ ghost' = [ghost EXCEPT !.stale = ghost.stale \/ CodeHash(a) \notin {c, NoCode}]
  BY <1>3 DEF Start, c
<1>6. PICK n : n = Len(frames)
  OBVIOUS
<1>7. Pushing(n, f) /\ \A i \in 1 .. n : frames'[i] = fs[i]
  BY <1>0, <1>4, <1>5, <1>6, Pushed
<1>8. /\ ghost' \in GhostType /\ ghost'.unverified = ghost.unverified /\ ghost'.over = ghost.over
      /\ ghost.stale => ghost'.stale
      /\ ~ghost'.stale => ~ghost.stale /\ CodeHash(a) \in {c, NoCode}
  BY <1>0, <1>5 DEF DeploymentTypes, GhostType
<1>9. \A b \in Addresses \cup Creators :
          /\ out'[b].nonce = out[b].nonce
          /\ out'[b].code = IF b = a THEN GetCode(out, a) ELSE out[b].code
  BY <1>1, <1>5 DEF CacheCode, OutType, Account
<1>10. DeploymentTypes'
  <2>1. \A i \in 1 .. n : frames'[i].next = "callback" => frames[i].next = "callback"
    BY <1>6, <1>7
  <2>2. codeUpdates' \subseteq Addresses /\ eff' \in EffType
        /\ chain' \in [code : EffType, nonce : [Creators -> Nat]]
    BY <1>0 DEF DeploymentTypes
  <2> QED
    BY <1>0, <1>1, <1>2, <1>4, <1>5, <1>6, <1>7, <1>8, <2>1, <2>2, PushKeepsTypes
<1>11. InstancesRunTheirCode'
  <2>1. ~ghost'.stale => /\ f.running = f.code
                         /\ \A h \in Codes : compiled'[h] \in {h, NoCode}
    BY <1>2, <1>4, <1>5, <1>8 DEF DeploymentInv, InstancesRunTheirCode
  <2> QED
    BY <1>7, <1>8, <2>1, PushKeepsInstances
<1>12. FramesMade' /\ NoncesPass' /\ \A l \in Levels' : Verified(Effs(l))'
  <2>1. Made(f, n + 1)
    <3>1. n \in Nat /\ (n = 0 => frames = << >>)
      BY <1>0, <1>6, FrameFacts DEF DeploymentTypes
    <3>2. n = 0 => out = EmptyOutput
      BY <1>0, <3>1 DEF DeploymentTypes
    <3>3. n + 1 = 1 => \A x \in Creators : f.out[x].nonce = 0
      BY <1>4, <3>1, <3>2, EmptyOutputs
    <3> QED
      BY <1>4, <3>3 DEF Made
  <2>2. \A x \in Creators : f.out[x].nonce = out[x].nonce /\ out'[x].nonce = out[x].nonce
    BY <1>4, <1>9
  <2>3. ghost.unverified \subseteq ghost'.unverified
    BY <1>8
  <2>4. \A b \in Addresses :
              \/ eff'[b] = eff[b]
              \/ f.kind = "create" /\ f.address = b /\ b \in ghost'.unverified
    OBVIOUS
  <2> QED
    BY <1>4, <1>7, <2>1, <2>2, <2>3, <2>4, PushKeepsNonces
<1>13. ASSUME ~ghost'.over PROVE OutputInv'
  <2>1. OutputInv
    BY <1>8, <1>13 DEF DeploymentInv
  <2>2. \A b \in Addresses : out'[b].code = out[b].code \/ out'[b].code = GetCode(out, b)
    BY <1>9
  <2>3. chain'.code = chain.code /\ f.kind # "create" /\ UNCHANGED <<eff, codeUpdates>>
    BY <1>4
  <2> QED
    BY <1>0, <1>4, <1>7, <2>1, <2>2, <2>3, PushKeepsOutput
<1> QED
  BY <1>10, <1>11, <1>12, <1>13 DEF DeploymentInv

(* The nonces that the Node counts only pass more addresses. *)
LEMMA NonceCounted ==
    ASSUME NEW o \in OutType, NEW e, NEW making, NEW making2, NoncesPassed(o, e, making),
           making \cap Addresses \subseteq making2,
           \A c \in Creators : /\ o[c].nonce = 0
                               /\ chain.nonce[c] \in Nat /\ chain'.nonce[c] \in Nat
                                /\ chain'.nonce[c] >= chain.nonce[c]
    PROVE  NoncesPassed(o, e, making2)'
<1>1. \A c \in Creators : GetNonce(o, c) = chain.nonce[c] /\ GetNonce(o, c)' = chain'.nonce[c]
  BY DEF GetNonce
<1>2. \A c \in Creators : \A k \in DOMAIN NewAddressOf[c] :
          NewAddressOf[c][k] \in Addresses /\ k \in Nat
  BY DeploymentAssumption DEF Addresses, Created
<1>3. ASSUME NEW c \in Creators, NEW k \in DOMAIN NewAddressOf[c],
             e[NewAddressOf[c][k]] # NoCode
      PROVE  k < GetNonce(o, c)' \/ NewAddressOf[c][k] \in making2
  <2>1. k < GetNonce(o, c) \/ NewAddressOf[c][k] \in making
    BY <1>3 DEF NoncesPassed
  <2>2. k \in Nat /\ NewAddressOf[c][k] \in Addresses
    BY <1>2
  <2>3. k < GetNonce(o, c) => k < GetNonce(o, c)'
    BY <1>1, <2>2
  <2> QED
    BY <2>1, <2>2, <2>3
<1> QED
  BY <1>3 DEF NoncesPassed

(* A transaction deploys or upgrades code: a frame is started if the code    *)
(* is valid.                                                                 *)
LEMMA DeploymentStarts ==
    ASSUME DeploymentInv, frames = << >>, NEW kind \in {"create", "upgrade"},
           NEW a \in Addresses, NEW c \in Codes, performCodeDeployment(kind, a, c),
           chain' \in [code : EffType, nonce : [Creators -> Nat]],
           chain'.code = chain.code,
           \A x \in Creators : chain'.nonce[x] >= chain.nonce[x],
           kind = "upgrade" => a \in Existing,
           kind = "create" => \E k \in DOMAIN NewAddressOf[User] :
                                a = NewAddressOf[User][k] /\ k < chain'.nonce[User],
           UNCHANGED <<aot, eff, ghost, codeUpdates>>
    PROVE  DeploymentInv'
<1> DEFINE valid == VerifyContractCode(a, c, TRUE, MustVerifyNextContractCode)
<1>0. DeploymentTypes
  BY DEF DeploymentInv
<1>1. /\ out = EmptyOutput /\ codeUpdates = {} /\ NoncesPassed(EmptyOutput, eff, {})
      /\ Verified(eff) /\ (~ghost.over => eff = chain.code)
  BY IdleFacts
<1>2. /\ Instance(a, c, TRUE) \in Codes
      /\ CompiledAfter(a, c, TRUE) \in [Codes -> Codes \cup {NoCode}]
      /\ (\A h \in Codes : compiled[h] \in {h, NoCode})
           => /\ Instance(a, c, TRUE) = c
              /\ \A h \in Codes : CompiledAfter(a, c, TRUE)[h] \in {h, NoCode}
  BY <1>0, Compiling
<1>3. PICK f : f = Frame(kind, a, c, Instance(a, c, TRUE), User, EmptyOutput, eff)
  OBVIOUS
<1>4. User \in Creators /\ eff \in EffType
  BY <1>0, DeploymentAssumption DEF DeploymentTypes
<1>5. /\ f \in FrameType /\ f.next = "run" /\ f.out = EmptyOutput /\ f.eff = eff
      /\ f.kind = kind /\ f.running = Instance(a, c, TRUE) /\ f.code = c
      /\ f.caller = User /\ f.address = a
  BY <1>2, <1>3, <1>4, EmptyOutputs DEF Frame, FrameType, FrameKinds
<1>6. /\ compiled' = CompiledAfter(a, c, TRUE) /\ out' = EmptyOutput /\ verifyCode' = FALSE
      /\ frames' = IF valid THEN <<f>> ELSE << >>
  BY <1>3 DEF performCodeDeployment
<1>7. valid => IsValid(WasmModule[c])
  BY DEF VerifyContractCode, UsesCompiledCode, MustVerifyNextContractCode
<1> HIDE DEF valid
<1>8. \A x \in Creators : /\ EmptyOutput[x].nonce = 0
                          /\ chain.nonce[x] \in Nat /\ chain'.nonce[x] \in Nat
  BY <1>0, EmptyOutputs DEF DeploymentTypes
<1>9. \A making2 : NoncesPassed(EmptyOutput, eff, making2)'
  <2> TAKE making2
  <2>1. PICK o \in OutType : o = EmptyOutput
    BY EmptyOutputs
  <2>2. PICK e : e = eff
    OBVIOUS
  <2>3. NoncesPassed(o, e, making2)'
    BY <1>1, <1>8, <2>1, <2>2, NonceCounted
  <2>4. EmptyOutput' = o /\ eff' = e
    BY <2>1, <2>2 DEF EmptyOutput, EmptyAccount
  <2> QED
    BY <2>3, <2>4 DEF NoncesPassed, GetNonce
<1>10. Verified(eff)'
  BY <1>1 DEF Verified
<1>11. ~ghost.stale => \A h \in Codes : compiled'[h] \in {h, NoCode}
  BY <1>2, <1>6 DEF DeploymentInv, InstancesRunTheirCode
<1>12. CASE ~valid
  <2>1. frames' = << >>
    BY <1>6, <1>12
  <2>2. DeploymentTypes'
    BY <1>0, <1>1, <1>2, <1>6, <2>1, EmptyOutputs DEF DeploymentTypes
  <2>3. InstancesRunTheirCode'
    BY <1>11, <2>1 DEF InstancesRunTheirCode
  <2>4. /\ FramesMade' /\ NoncesPass' /\ \A l \in Levels' : Verified(Effs(l))'
        /\ ~ghost'.over => OutputInv'
    BY <1>1, <1>6, <1>9, <1>10, <2>1, IdleAgain
  <2> QED
    BY <2>2, <2>3, <2>4 DEF DeploymentInv
<1>13. CASE valid
  <2>1. frames' = Append(<< >>, f) /\ << >> \in Seq(FrameType)
    BY <1>6, <1>13
  <2>2. Pushing(0, f)
    <3>1. PICK fs \in Seq(FrameType) : fs = << >>
      BY <2>1
    <3>2. Len(fs) = Len(frames) /\ 0 = Len(frames) /\ frames' = Append(fs, f)
          /\ \A i \in 1 .. Len(fs) : Like(fs[i], frames[i])
      BY <2>1, <3>1
    <3> QED
      BY <1>0, <1>5, <3>2, Pushed
  <2>3. DeploymentTypes'
    <3>1. 0 < MaxFrames
      BY DeploymentAssumption
    <3>2. out' \in OutType /\ eff' \in EffType /\ codeUpdates' \subseteq Addresses /\ ghost' \in GhostType
      BY <1>0, <1>6, EmptyOutputs DEF DeploymentTypes
    <3>3. verifyCode' \in BOOLEAN
      BY <1>6
    <3>4. \A i \in 1 .. 0 : frames'[i].next = "callback" => frames[i].next = "callback"
      OBVIOUS
    <3>5. compiled' \in [Codes -> Codes \cup {NoCode}]
      BY <1>2, <1>6
    <3> QED
      BY <1>0, <1>5, <2>2, <3>1, <3>2, <3>3, <3>4, <3>5, PushKeepsTypes
  <2>4. InstancesRunTheirCode'
    <3>1. ~ghost.stale => f.running = f.code
      BY <1>2, <1>5 DEF DeploymentInv, InstancesRunTheirCode
    <3> QED
      BY <1>11, <2>2, <3>1, PushKeepsInstances
  <2>5. /\ Levels' = 1 .. 2 /\ DOMAIN frames' = 1 .. 1 /\ frames'[1] = f
        /\ Outs(1)' = EmptyOutput /\ Effs(1)' = eff'
        /\ Outs(2)' = EmptyOutput /\ Effs(2)' = eff'
    <3>1. /\ Levels' = 1 .. 0 + 2 /\ Outs(0 + 1)' = f.out /\ Effs(0 + 1)' = f.eff
          /\ Outs(0 + 2)' = out' /\ Effs(0 + 2)' = eff'
      BY <2>2, PushedLevels
    <3> QED
      BY <1>5, <1>6, <2>2, <3>1 DEF Pushing, Kept
  <2>6. FramesMade'
    <3>1. Made(f, 1)'
      BY <1>4, <1>5, <1>7, <1>8, <1>13 DEF Made
    <3> QED
      BY <2>5, <3>1 DEF FramesMade
  <2>7. NoncesPass'
    <3>1. EmptyOutput' = EmptyOutput
      BY DEF EmptyOutput, EmptyAccount
    <3>2. \A making2 : NoncesPassed(Outs(1), Effs(1), making2)' /\ NoncesPassed(Outs(2), Effs(2), making2)'
      BY <1>9, <2>5, <3>1 DEF NoncesPassed, GetNonce
    <3>3. \A l \in 1 .. 2 : l = 1 \/ l = 2
      OBVIOUS
    <3> QED
      BY <2>5, <3>2, <3>3 DEF NoncesPass
  <2>8. \A l \in Levels' : Verified(Effs(l))'
    <3>1. \A l \in 1 .. 2 : l = 1 \/ l = 2
      OBVIOUS
    <3> QED
      BY <1>10, <2>5, <3>1 DEF Verified
  <2>9. ASSUME ~ghost'.over PROVE OutputInv'
    <3>1. OutputInv
      BY <2>9 DEF DeploymentInv
    <3> QED
      BY <1>0, <1>1, <1>5, <1>6, <2>2, <3>1, PushKeepsOutput
  <2> QED
    BY <2>3, <2>4, <2>6, <2>7, <2>8, <2>9 DEF DeploymentInv
<1> QED
  BY <1>12, <1>13

(* The address of a new contract. *)
LEMMA NewContractAddress ==
    ASSUME DeploymentTypes, frames # << >>, self \in Creators,
           HasNewAddress(self, GetNonce(out, self))
    PROVE  LET k == GetNonce(out, self)
           IN  /\ k \in DOMAIN NewAddressOf[self] /\ k \in Nat
               /\ NewAddress(self, k) = NewAddressOf[self][k]
               /\ NewAddress(self, k) \in Addresses
               /\ NewAddress(self, k) \in Created
               /\ self \in Addresses
<1>1. self \in Addresses
  BY FrameFacts DEF self, FrameType
<1>2. self # User
  BY <1>1, DeploymentAssumption
<1> QED
  BY <1>1, <1>2, DeploymentAssumption DEF HasNewAddress, NewAddress, Addresses, Created

LEMMA CreateKeeps ==
    ASSUME DeploymentInv, NEW c \in Codes, CreateNewContract(c)
    PROVE  DeploymentInv'
<1>0. DeploymentTypes /\ frames # << >> /\ Len(frames) < MaxFrames
  BY DEF DeploymentInv, CreateNewContract, Running, CanStart
<1>1. PICK k, a, s : k = GetNonce(out, self) /\ a = NewAddress(self, k) /\ s = self
  OBVIOUS
<1>2. /\ s \in Creators /\ k \in DOMAIN NewAddressOf[s] /\ k \in Nat /\ a = NewAddressOf[s][k]
      /\ a \in Addresses /\ a \in Created /\ s \in Addresses
  BY <1>0, <1>1, NewContractAddress DEF CreateNewContract
<1>3. PICK o : o = DeployCode(out, a, c, s)
  OBVIOUS
<1>4. out \in OutType /\ eff \in EffType /\ o \in OutType
  BY <1>0, <1>2, <1>3, OperatorTypes DEF DeploymentTypes
<1>5. PICK f : f = Frame("create", a, c, Instance(a, c, FALSE), s, o, eff)
  OBVIOUS
<1>6. /\ chain.code[a] = NoCode
      /\ codeUpdates' = codeUpdates \cup {a} /\ verifyCode' = TRUE
      /\ eff' = [eff EXCEPT ![a] = c]
      /\ compiled' = CompiledAfter(a, c, FALSE) /\ out' = o
      /\ frames' = Append(frames, f)
      /\ ghost' = [ghost EXCEPT !.unverified = ghost.unverified \cup {a},
                                !.over = ghost.over \/ eff[a] # NoCode]
      /\ UNCHANGED <<aot, chain>>
  BY <1>1, <1>3, <1>5 DEF CreateNewContract, MustVerifyNextContractCode, AccountExists
<1>7. /\ Instance(a, c, FALSE) \in Codes
      /\ CompiledAfter(a, c, FALSE) \in [Codes -> Codes \cup {NoCode}]
      /\ (\A h \in Codes : compiled[h] \in {h, NoCode})
           => /\ Instance(a, c, FALSE) = c
              /\ \A h \in Codes : CompiledAfter(a, c, FALSE)[h] \in {h, NoCode}
  BY <1>0, <1>2, <1>6, Compiling DEF CodeHash
<1>8. /\ f \in FrameType /\ f.next = "run" /\ f.out = o /\ f.eff = eff
      /\ f.kind = "create" /\ f.running = Instance(a, c, FALSE) /\ f.code = c
      /\ f.caller = s /\ f.address = a
  BY <1>2, <1>4, <1>5, <1>7 DEF Frame, FrameType, FrameKinds
<1>9. PICK n : n = Len(frames)
  OBVIOUS
<1>10. Pushing(n, f) /\ \A i \in 1 .. n : frames'[i] = frames[i]
  <2>1. PICK fs \in Seq(FrameType) : fs = frames
    BY <1>0 DEF DeploymentTypes
  <2>2. Len(fs) = Len(frames) /\ frames' = Append(fs, f)
        /\ \A i \in 1 .. Len(fs) : Like(fs[i], frames[i])
    BY <1>6, <2>1 DEF Like
  <2> QED
    BY <1>0, <1>8, <1>9, <2>1, <2>2, Pushed
<1>11. n \in Nat /\ n > 0
  BY <1>0, <1>9, FrameFacts
<1>12. /\ ghost' \in GhostType /\ ghost'.unverified = ghost.unverified \cup {a}
       /\ ghost'.stale = ghost.stale
       /\ (~ghost'.over => ~ghost.over /\ eff[a] = NoCode)
  BY <1>0, <1>2, <1>6 DEF DeploymentTypes, GhostType
<1>13. \A b \in Addresses \cup Creators :
          /\ o[b].nonce = out[b].nonce
          /\ o[b].code = IF b = a THEN c ELSE out[b].code
  BY <1>2, <1>3, <1>4 DEF DeployCode, OutType, Account
<1>14. \A b \in Addresses : eff'[b] = IF b = a THEN c ELSE eff[b]
  BY <1>4, <1>6 DEF EffType
<1>15. DeploymentTypes'
  <2>1. codeUpdates' \subseteq Addresses /\ eff' \in EffType
        /\ chain' \in [code : EffType, nonce : [Creators -> Nat]]
    BY <1>0, <1>2, <1>6 DEF DeploymentTypes, EffType
  <2>2. verifyCode' \in BOOLEAN
    BY <1>6
  <2>3. \A i \in 1 .. n : frames'[i].next = "callback" => frames[i].next = "callback"
    BY <1>10
  <2>4. out' \in OutType /\ compiled' \in [Codes -> Codes \cup {NoCode}]
    BY <1>4, <1>6, <1>7
  <2> QED
    BY <1>0, <1>6, <1>8, <1>9, <1>10, <1>12, <2>1, <2>2, <2>3, <2>4, PushKeepsTypes
<1>16. InstancesRunTheirCode'
  <2>1. ~ghost'.stale => /\ f.running = f.code
                         /\ \A h \in Codes : compiled'[h] \in {h, NoCode}
    BY <1>6, <1>7, <1>8, <1>12 DEF DeploymentInv, InstancesRunTheirCode
  <2> QED
    BY <1>10, <1>12, <2>1, PushKeepsInstances
<1>17. FramesMade' /\ NoncesPass' /\ \A l \in Levels' : Verified(Effs(l))'
  <2>1. Made(f, n + 1)
    <3>1. GetNonce(o, s) = k
      BY <1>1, <1>2, <1>13 DEF GetNonce
    <3>2. k <= GetNonce(f.out, f.caller) /\ n + 1 # 1
      BY <1>2, <1>8, <1>11, <3>1
    <3>3. \E j \in DOMAIN NewAddressOf[f.caller] :
             f.address = NewAddressOf[f.caller][j] /\ j <= GetNonce(f.out, f.caller)
      BY <1>2, <1>8, <3>2
    <3> QED
      BY <1>2, <1>8, <3>2, <3>3 DEF Made
  <2>2. \A x \in Creators : f.out[x].nonce = out[x].nonce /\ out'[x].nonce = out[x].nonce
    BY <1>6, <1>8, <1>13
  <2>3. ghost.unverified \subseteq ghost'.unverified
    BY <1>12
  <2>4. \A b \in Addresses :
              \/ eff'[b] = eff[b]
              \/ f.kind = "create" /\ f.address = b /\ b \in ghost'.unverified
    BY <1>8, <1>12, <1>14
  <2> QED
    BY <1>6, <1>8, <1>10, <2>1, <2>2, <2>3, <2>4, PushKeepsNonces
<1>18. ASSUME ~ghost'.over PROVE OutputInv'
  <2>1. OutputInv /\ eff[a] = NoCode
    BY <1>12, <1>18 DEF DeploymentInv
  <2>2. \A b \in Addresses : out'[b].code = IF b = a THEN c ELSE out[b].code
    BY <1>6, <1>13
  <2>3. f.out = out' /\ UNCHANGED chain
    BY <1>6, <1>8
  <2> QED
    BY <1>0, <1>2, <1>6, <1>8, <1>10, <1>11, <1>14, <2>1, <2>2, <2>3, CreationKeepsOutput
<1> QED
  BY <1>15, <1>16, <1>17, <1>18 DEF DeploymentInv

(* Something else is due next in the frame that runs. *)
Due(x) == frames' = WithNext(frames, x)

LEMMA DueStays ==
    ASSUME DeploymentTypes, frames # << >>, NEW x \in {"run", "callback", "done"}, Due(x),
           NEW n, n = Len(frames)
    PROVE  /\ Staying(n) /\ Kept(n, n) /\ n <= Len(frames) /\ n > 0
           /\ \A i \in 1 .. n : frames'[i].next = IF i = n THEN x ELSE frames[i].next
<1>1. n \in Nat /\ n > 0 /\ DOMAIN frames = 1 .. n
  BY FrameFacts
<1>2. PICK hs \in Seq(FrameType) : hs = frames
  BY DEF DeploymentTypes
<1>3. PICK ks : ks = WithNext(hs, x)
  OBVIOUS
<1>4. /\ ks \in Seq(FrameType) /\ Len(ks) = Len(hs)
      /\ \A i \in 1 .. Len(hs) : Like(ks[i], hs[i])
      /\ \A i \in 1 .. Len(hs) : ks[i].next = IF i = Len(hs) THEN x ELSE hs[i].next
  <2>1. hs # << >>
    BY <1>2
  <2> QED
    BY <1>3, <2>1, DueNext
<1>5. frames' = ks
  BY <1>2, <1>3 DEF Due
<1>6. /\ frames' \in Seq(FrameType) /\ Len(frames') = n /\ DOMAIN frames' = 1 .. n
      /\ \A i \in 1 .. n : Like(frames'[i], frames[i])
      /\ \A i \in 1 .. n : frames'[i].next = IF i = n THEN x ELSE frames[i].next
  BY <1>2, <1>4, <1>5
<1>7. Kept(n, n)
  BY <1>1, <1>6 DEF Kept
<1> QED
  BY <1>1, <1>6, <1>7 DEF Staying

LEMMA DueKeeps ==
    ASSUME DeploymentInv, frames # << >>, NEW x \in {"callback", "done"},
           Due(x), x = "callback" => Len(frames) < MaxFrames,
           compiled' \in [Codes -> Codes \cup {NoCode}], verifyCode' \in BOOLEAN,
           ~ghost.stale => \A h \in Codes : compiled'[h] \in {h, NoCode},
           UNCHANGED <<aot, chain, out, codeUpdates, eff, ghost>>
    PROVE  DeploymentInv'
<1>0. DeploymentTypes
  BY DEF DeploymentInv
<1>1. PICK n : n = Len(frames)
  OBVIOUS
<1>2. DOMAIN frames = 1 .. n
  BY <1>0, <1>1, FrameFacts
<1>7. PICK y \in {"run", "callback", "done"} : y = x
  OBVIOUS
<1>8. /\ Staying(n) /\ Kept(n, n) /\ n <= Len(frames) /\ n > 0
      /\ \A i \in 1 .. n : frames'[i].next = IF i = n THEN y ELSE frames[i].next
  BY <1>0, <1>1, <1>7, DueStays
<1>9. DeploymentTypes'
  <2>1. \A i \in 1 .. n : frames'[i].next = "callback" => i < MaxFrames
    BY <1>0, <1>1, <1>2, <1>7, <1>8 DEF DeploymentTypes
  <2>2. out' \in OutType /\ eff' \in EffType /\ codeUpdates' \subseteq Addresses
    BY <1>0 DEF DeploymentTypes
  <2>3. UNCHANGED <<aot, chain, ghost>>
    OBVIOUS
  <2> QED
    BY <1>0, <1>8, <2>1, <2>2, <2>3, PopKeepsTypes
<1>10. InstancesRunTheirCode'
  BY <1>8, PopKeepsInstances
<1>11. /\ FramesMade' /\ NoncesPass' /\ \A l \in Levels' : Verified(Effs(l))'
       /\ ~ghost'.over => OutputInv'
  BY <1>8, StayKeeps
<1> QED
  BY <1>9, <1>10, <1>11 DEF DeploymentInv

(* A contract upgrades another one: a frame is started if the code is valid. *)
LEMMA UpgradeKeeps ==
    ASSUME DeploymentInv, NEW a \in Existing, NEW c \in Codes, executeUpgrade(a, c)
    PROVE  DeploymentInv'
<1> DEFINE valid == VerifyContractCode(a, c, TRUE, MustVerifyNextContractCode)
<1>0. DeploymentTypes /\ frames # << >> /\ Len(frames) < MaxFrames
  BY DEF DeploymentInv, executeUpgrade, Running, CanStart
<1>1. a \in Addresses /\ self \in Addresses /\ out \in OutType /\ eff \in EffType
  BY <1>0, FrameFacts DEF Addresses, self, FrameType, DeploymentTypes
<1>2. PICK f : f = Frame("upgrade", a, c, Instance(a, c, TRUE), self, out, eff)
  OBVIOUS
<1>3. /\ compiled' = CompiledAfter(a, c, TRUE) /\ verifyCode' = FALSE
      /\ frames' = IF valid THEN Append(frames, f) ELSE DueCallback(frames)
      /\ UNCHANGED <<aot, chain, out, codeUpdates, eff, ghost>>
  BY <1>2 DEF executeUpgrade
<1>4. valid => IsValid(WasmModule[c])
  BY DEF VerifyContractCode, UsesCompiledCode, MustVerifyNextContractCode
<1> HIDE DEF valid
<1>5. /\ Instance(a, c, TRUE) \in Codes
      /\ CompiledAfter(a, c, TRUE) \in [Codes -> Codes \cup {NoCode}]
      /\ (\A h \in Codes : compiled[h] \in {h, NoCode})
           => /\ Instance(a, c, TRUE) = c
              /\ \A h \in Codes : CompiledAfter(a, c, TRUE)[h] \in {h, NoCode}
  BY <1>0, <1>1, Compiling
<1>6. /\ f \in FrameType /\ f.next = "run" /\ f.out = out /\ f.eff = eff
      /\ f.kind = "upgrade" /\ f.running = Instance(a, c, TRUE) /\ f.code = c
      /\ f.address = a
  BY <1>1, <1>2, <1>5 DEF Frame, FrameType, FrameKinds
<1>7. PICK n : n = Len(frames)
  OBVIOUS
<1>8. n \in Nat /\ n > 0 /\ DOMAIN frames = 1 .. n /\ n < MaxFrames
  BY <1>0, <1>7, FrameFacts
<1>9. ~ghost.stale => \A h \in Codes : compiled'[h] \in {h, NoCode}
  BY <1>3, <1>5 DEF DeploymentInv, InstancesRunTheirCode
<1>10. out' \in OutType /\ eff' \in EffType /\ codeUpdates' \subseteq Addresses
       /\ compiled' \in [Codes -> Codes \cup {NoCode}]
       /\ chain' \in [code : EffType, nonce : [Creators -> Nat]] /\ ghost' \in GhostType
  BY <1>0, <1>3, <1>5 DEF DeploymentTypes
<1>11. verifyCode' \in BOOLEAN
  BY <1>3, Zenon
<1>12. CASE valid
  <2>1. Pushing(n, f) /\ \A i \in 1 .. n : frames'[i] = frames[i]
    <3>1. PICK fs \in Seq(FrameType) : fs = frames
      BY <1>0 DEF DeploymentTypes
    <3>2. Len(fs) = Len(frames) /\ frames' = Append(fs, f)
          /\ \A i \in 1 .. Len(fs) : Like(fs[i], frames[i])
      BY <1>3, <1>12, <3>1 DEF Like
    <3> QED
      BY <1>0, <1>6, <1>7, <3>1, <3>2, Pushed
  <2>2. DeploymentTypes'
    BY <1>0, <1>3, <1>6, <1>8, <1>10, <1>11, <2>1, PushKeepsTypes
  <2>3. InstancesRunTheirCode'
    <3>1. ~ghost'.stale => f.running = f.code
      BY <1>3, <1>5, <1>6 DEF DeploymentInv, InstancesRunTheirCode
    <3> QED
      BY <1>3, <1>9, <2>1, <3>1, PushKeepsInstances
  <2>4. FramesMade' /\ NoncesPass' /\ \A l \in Levels' : Verified(Effs(l))'
    <3>1. Made(f, n + 1)
      BY <1>4, <1>6, <1>8, <1>12 DEF Made
    <3> QED
      BY <1>3, <1>6, <2>1, <3>1, PushKeepsNonces
  <2>5. ASSUME ~ghost'.over PROVE OutputInv'
    <3>1. OutputInv
      BY <1>3, <2>5 DEF DeploymentInv
    <3>2. chain'.code = chain.code /\ \A b \in Addresses : out'[b].code = out[b].code
      BY <1>3
    <3> QED
      BY <1>0, <1>3, <1>6, <2>1, <3>1, <3>2, PushKeepsOutput
  <2> QED
    BY <2>2, <2>3, <2>4, <2>5 DEF DeploymentInv
<1>13. CASE ~valid
  <2>1. PICK x : x = "callback"
    OBVIOUS
  <2>2. /\ Due(x) /\ x \in {"callback", "done"}
        /\ Len(frames) < MaxFrames
    BY <1>0, <1>3, <1>13, <2>1 DEF DueCallback, Due, WithNext
  <2> QED
    BY <1>0, <1>3, <1>9, <1>10, <1>11, <2>2, DueKeeps
<1> QED
  BY <1>12, <1>13

LEMMA UpgradeRefusedKeeps ==
    ASSUME DeploymentInv, NEW a \in Existing, UpgradeRefused(a)
    PROVE  DeploymentInv'
<1>1. DeploymentTypes /\ frames # << >> /\ Len(frames) < MaxFrames
  BY DEF DeploymentInv, UpgradeRefused, Running, CanStart
<1>2. UNCHANGED <<aot, chain, compiled, out, codeUpdates, verifyCode, eff, ghost>>
  BY DEF UpgradeRefused
<1>3. compiled' \in [Codes -> Codes \cup {NoCode}] /\ verifyCode' \in BOOLEAN
  BY <1>1, <1>2, Zenon DEF DeploymentTypes
<1>4. ~ghost.stale => \A h \in Codes : compiled'[h] \in {h, NoCode}
  BY <1>2 DEF DeploymentInv, InstancesRunTheirCode
<1>5. PICK x : x = "callback"
  OBVIOUS
<1>6. Due(x) /\ x \in {"callback", "done"}
  BY <1>5 DEF UpgradeRefused, DueCallback, Due, WithNext
<1>7. UNCHANGED <<aot, chain, out, codeUpdates, eff, ghost>>
  BY <1>2
<1> QED
  BY <1>1, <1>3, <1>4, <1>6, <1>7, DueKeeps

LEMMA CallBackFindsNoCodeKeeps ==
    ASSUME DeploymentInv, CallBackFindsNoCode
    PROVE  DeploymentInv'
<1>1. DeploymentTypes /\ frames # << >>
  BY DEF DeploymentInv, CallBackFindsNoCode
<1>2. UNCHANGED <<aot, chain, compiled, out, codeUpdates, verifyCode, eff, ghost>>
  BY DEF CallBackFindsNoCode
<1>3. compiled' \in [Codes -> Codes \cup {NoCode}] /\ verifyCode' \in BOOLEAN
  BY <1>1, <1>2, Zenon DEF DeploymentTypes
<1>4. ~ghost.stale => \A h \in Codes : compiled'[h] \in {h, NoCode}
  BY <1>2 DEF DeploymentInv, InstancesRunTheirCode
<1>5. PICK x : x = "done"
  OBVIOUS
<1>6. /\ Due(x) /\ x \in {"callback", "done"}
      /\ x # "callback"
  BY <1>5 DEF CallBackFindsNoCode, AfterCallback, Due, WithNext
<1>7. UNCHANGED <<aot, chain, out, codeUpdates, eff, ghost>>
  BY <1>2
<1> QED
  BY <1>1, <1>3, <1>4, <1>6, <1>7, DueKeeps

(* Contracts are called, by the transaction, by contracts and back. *)
LEMMA CallKeeps ==
    ASSUME DeploymentInv, NEW a \in Addresses, Call(a)
    PROVE  DeploymentInv'
<1>1. DeploymentTypes /\ frames # << >> /\ Len(frames) < MaxFrames
  BY DEF DeploymentInv, Call, Running, CanStart
<1>2. PICK fs \in Seq(FrameType) : fs = frames
  BY <1>1 DEF DeploymentTypes
<1>3. /\ Len(fs) = Len(frames)
      /\ \A i \in 1 .. Len(fs) :
           Like(fs[i], frames[i]) /\ (fs[i].next = "callback" => frames[i].next = "callback")
  BY <1>2 DEF Like
<1>4. PICK caller \in Addresses \cup Creators : caller = self
  BY <1>1, FrameFacts DEF self, FrameType
<1>5. PICK kind \in {"call", "callback"} : kind = "call"
  OBVIOUS
<1>6. GetCode(out, a) # NoCode /\ Start(kind, a, caller, out, fs, eff)
  BY <1>2, <1>4, <1>5 DEF Call
<1>7. verifyCode' \in BOOLEAN
  BY <1>1, Zenon DEF DeploymentTypes, Call, VerifyCodeAfter
<1>8. UNCHANGED <<aot, chain, codeUpdates, eff>>
  BY DEF Call
<1> QED
  BY <1>1, <1>3, <1>6, <1>7, <1>8, StartKeeps

LEMMA CallBackKeeps ==
    ASSUME DeploymentInv, CallBack
    PROVE  DeploymentInv'
<1>1. DeploymentTypes /\ frames # << >>
  BY DEF DeploymentInv, CallBack
<1>2. Len(frames) < MaxFrames
  BY <1>1, FrameFacts DEF CallBack, top, DeploymentTypes
<1>3. PICK gs \in Seq(FrameType) : gs = frames
  BY <1>1 DEF DeploymentTypes
<1>4. PICK fs : fs = WithNext(gs, "done")
  OBVIOUS
<1>5. /\ fs \in Seq(FrameType) /\ Len(fs) = Len(gs)
      /\ \A i \in 1 .. Len(gs) : Like(fs[i], gs[i])
      /\ \A i \in 1 .. Len(gs) : fs[i].next = IF i = Len(gs) THEN "done" ELSE gs[i].next
  <2>1. PICK x \in {"run", "callback", "done"} : x = "done"
    OBVIOUS
  <2>2. gs # << >> /\ fs = WithNext(gs, x)
    BY <1>1, <1>3, <1>4, <2>1
  <2>3. /\ fs \in Seq(FrameType) /\ Len(fs) = Len(gs)
        /\ \A i \in 1 .. Len(gs) : Like(fs[i], gs[i])
        /\ \A i \in 1 .. Len(gs) : fs[i].next = IF i = Len(gs) THEN x ELSE gs[i].next
    BY <2>2, DueNext
  <2> QED
    BY <2>1, <2>3
<1>6. /\ Len(fs) = Len(frames)
      /\ \A i \in 1 .. Len(fs) :
           Like(fs[i], frames[i]) /\ (fs[i].next = "callback" => frames[i].next = "callback")
  BY <1>3, <1>5
<1>7. PICK a : a = self
  OBVIOUS
<1>8. a \in Addresses /\ a \in Addresses \cup Creators
  BY <1>1, <1>7, FrameFacts DEF self, FrameType
<1>9. PICK kind \in {"call", "callback"} : kind = "callback"
  OBVIOUS
<1>10. GetCode(out, a) # NoCode /\ Start(kind, a, a, out, fs, eff)
  BY <1>3, <1>4, <1>7, <1>9 DEF CallBack, AfterCallback, WithNext
<1>11. verifyCode' \in BOOLEAN
  BY <1>1, Zenon DEF DeploymentTypes, CallBack, VerifyCodeAfter
<1>12. UNCHANGED <<aot, chain, codeUpdates, eff>>
  BY DEF CallBack
<1> QED
  BY <1>2, <1>5, <1>6, <1>8, <1>10, <1>11, <1>12, StartKeeps

LEMMA RunSmartContractCallKeeps ==
    ASSUME DeploymentInv, NEW a \in Addresses, RunSmartContractCall(a)
    PROVE  DeploymentInv'
<1>1. DeploymentTypes /\ frames = << >>
  BY DEF DeploymentInv, RunSmartContractCall, BeginTransaction, Idle
<1>2. out = EmptyOutput
  BY <1>1, IdleFacts
<1>3. PICK fs \in Seq(FrameType) : fs = << >>
  <2>1. << >> \in Seq(FrameType)
    OBVIOUS
  <2> QED
    BY <2>1
<1>4. /\ Len(fs) = Len(frames) /\ Len(frames) < MaxFrames
      /\ \A i \in 1 .. Len(fs) :
           Like(fs[i], frames[i]) /\ (fs[i].next = "callback" => frames[i].next = "callback")
  BY <1>1, <1>3, DeploymentAssumption
<1>5. User \in Addresses \cup Creators
  BY DeploymentAssumption
<1>6. PICK kind \in {"call", "callback"} : kind = "call"
  OBVIOUS
<1>7. GetCode(out, a) # NoCode
  BY <1>2, EmptyOutputs DEF RunSmartContractCall, GetCode
<1>8. Start(kind, a, User, out, fs, eff)
  BY <1>2, <1>3, <1>6 DEF RunSmartContractCall
<1>9. verifyCode' \in BOOLEAN
  BY Zenon DEF RunSmartContractCall
<1>10. UNCHANGED <<aot, chain, codeUpdates, eff>>
  BY DEF RunSmartContractCall, BeginTransaction
<1> QED
  BY <1>4, <1>5, <1>7, <1>8, <1>9, <1>10, StartKeeps

LEMMA RunSmartContractCreateKeeps ==
    ASSUME DeploymentInv, NEW c \in Codes, RunSmartContractCreate(c)
    PROVE  DeploymentInv'
<1>1. DeploymentTypes /\ frames = << >>
  BY DEF DeploymentInv, RunSmartContractCreate, BeginTransaction, Idle
<1>2. PICK k : k = chain.nonce[User]
  OBVIOUS
<1>3. User \in Creators /\ k \in Nat /\ k \in DOMAIN NewAddressOf[User]
  BY <1>1, <1>2, DeploymentAssumption DEF DeploymentTypes, RunSmartContractCreate, HasNewAddress
<1>4. chain' = [chain EXCEPT !.nonce[User] = chain.nonce[User] + 1]
  BY DEF RunSmartContractCreate
<1>5. /\ chain' \in [code : EffType, nonce : [Creators -> Nat]]
      /\ chain'.code = chain.code /\ chain'.nonce[User] = k + 1
      /\ \A x \in Creators : chain'.nonce[x] >= chain.nonce[x]
  <2>1. chain \in [code : EffType, nonce : [Creators -> Nat]]
    BY <1>1 DEF DeploymentTypes
  <2>2. PICK nonces : nonces = [chain.nonce EXCEPT ![User] = k + 1]
    OBVIOUS
  <2>3. chain' = [chain EXCEPT !.nonce = nonces]
    BY <1>2, <1>4, <2>1, <2>2
  <2>4. /\ nonces \in [Creators -> Nat] /\ nonces[User] = k + 1
        /\ \A x \in Creators : nonces[x] >= chain.nonce[x]
    BY <1>2, <1>3, <2>1, <2>2
  <2>5. chain'.nonce = nonces /\ chain'.code = chain.code
        /\ chain' \in [code : EffType, nonce : [Creators -> Nat]]
    BY <2>1, <2>3, <2>4
  <2> QED
    BY <2>4, <2>5
<1>6. PICK a : a = NewAddressOf[User][k]
  OBVIOUS
<1>7. a = NewAddress(User, chain'.nonce[User])
  BY <1>3, <1>5, <1>6 DEF NewAddress
<1>8. a \in Addresses
  BY <1>3, <1>6 DEF Addresses, Created
<1>9. PICK kind \in {"create", "upgrade"} : kind = "create"
  OBVIOUS
<1>10. performCodeDeployment(kind, a, c)
  BY <1>4, <1>7, <1>9 DEF RunSmartContractCreate
<1>11. \E j \in DOMAIN NewAddressOf[User] : a = NewAddressOf[User][j] /\ j < chain'.nonce[User]
  BY <1>3, <1>5, <1>6
<1>12. UNCHANGED <<aot, eff, ghost, codeUpdates>>
  BY DEF RunSmartContractCreate, BeginTransaction
<1> QED
  BY <1>1, <1>5, <1>8, <1>9, <1>10, <1>11, <1>12, DeploymentStarts

LEMMA RunSmartContractUpgradeKeeps ==
    ASSUME DeploymentInv, NEW a \in Existing, NEW c \in Codes, RunSmartContractUpgrade(a, c)
    PROVE  DeploymentInv'
<1>1. DeploymentTypes /\ frames = << >>
  BY DEF DeploymentInv, RunSmartContractUpgrade, BeginTransaction, Idle
<1>2. UNCHANGED <<aot, chain, eff, ghost, codeUpdates>>
  BY DEF RunSmartContractUpgrade, BeginTransaction
<1>3. /\ chain' \in [code : EffType, nonce : [Creators -> Nat]]
      /\ chain'.code = chain.code
      /\ \A x \in Creators : chain'.nonce[x] >= chain.nonce[x]
  BY <1>1, <1>2 DEF DeploymentTypes
<1>4. a \in Addresses
  BY DEF Addresses
<1>5. PICK kind \in {"create", "upgrade"} : kind = "upgrade"
  OBVIOUS
<1>6. performCodeDeployment(kind, a, c)
  BY <1>5 DEF RunSmartContractUpgrade
<1>7. UNCHANGED <<aot, eff, ghost, codeUpdates>>
  BY <1>2
<1> QED
  BY <1>1, <1>3, <1>4, <1>5, <1>6, <1>7, DeploymentStarts

-----------------------------------------------------------------------------
(* The end of executions.                                                   *)

LEMMA NestedEnds ==
    ASSUME DeploymentInv, NEW n, n = Len(frames), n > 1, NEW kind, Resume(kind),
           out' \in OutType, eff' \in EffType, codeUpdates' \subseteq Addresses,
           UNCHANGED <<aot, chain, compiled, verifyCode, ghost>>
    PROVE  Popping(n) /\ DeploymentTypes' /\ InstancesRunTheirCode'
<1>0. DeploymentTypes
  BY DEF DeploymentInv
<1>1. /\ Popping(n)
      /\ \A i \in 1 .. n - 1 : frames'[i].next = IF i = n - 1 /\ kind = "upgrade"
                                                THEN "callback" ELSE frames[i].next
  BY <1>0, Popped
<1>2. PICK m : m = n - 1
  OBVIOUS
<1>3. n \in Nat /\ Kept(m, m) /\ m <= Len(frames) /\ m > 0 /\ DOMAIN frames = 1 .. n
  BY <1>0, <1>1, <1>2, FrameFacts DEF Popping
<1>4. \A i \in 1 .. m : frames'[i].next = "callback" => i < MaxFrames
  <2>1. MaxFrames \in Nat /\ n <= MaxFrames
    BY <1>0, DeploymentAssumption DEF DeploymentTypes
  <2>2. \A i \in 1 .. m : i \in DOMAIN frames /\ (i = m => i < MaxFrames)
    BY <1>2, <1>3, <2>1
  <2> QED
    BY <1>0, <1>1, <1>2, <2>2 DEF DeploymentTypes
<1>5. compiled' \in [Codes -> Codes \cup {NoCode}] /\ verifyCode' \in BOOLEAN
  BY <1>0, Zenon DEF DeploymentTypes
<1>6. UNCHANGED <<aot, chain, ghost>>
  OBVIOUS
<1>7. DeploymentTypes'
  BY <1>0, <1>3, <1>4, <1>5, <1>6, PopKeepsTypes
<1>8. ~ghost.stale => \A h \in Codes : compiled'[h] \in {h, NoCode}
  BY DEF DeploymentInv, InstancesRunTheirCode
<1>9. InstancesRunTheirCode'
  BY <1>3, <1>8, PopKeepsInstances
<1> QED
  BY <1>1, <1>7, <1>9

(* The frame that ends, and the levels above and below it. *)
LEMMA LastFrame ==
    ASSUME DeploymentInv, frames # << >>, NEW n, n = Len(frames), NEW f, f = top
    PROVE  /\ n \in Nat /\ n > 0 /\ f = frames[n] /\ f \in FrameType /\ Made(f, n)
           /\ n \in Levels /\ n + 1 \in Levels /\ DOMAIN frames = 1 .. n /\ n \in DOMAIN frames
           /\ n + 1 \notin DOMAIN frames
           /\ Outs(n) = f.out /\ Effs(n) = f.eff /\ Outs(n + 1) = out /\ Effs(n + 1) = eff
           /\ NoncesPassed(f.out, f.eff, Making(n)) /\ Verified(f.eff)
           /\ NoncesPassed(out, eff, Making(n + 1)) /\ Verified(eff)
           /\ \A a \in Addresses :
                 a \in Making(n + 1) => \/ a \in Making(n)
                                        \/ f.kind = "create" /\ f.address = a
           /\ n = 1 => Making(n) = {}
<1>1. /\ n \in Nat /\ n > 0 /\ DOMAIN frames = 1 .. n /\ n \in DOMAIN frames /\ f = frames[n]
      /\ f \in FrameType
  BY FrameFacts DEF DeploymentInv, top
<1>2. Made(f, n)
  BY <1>1 DEF DeploymentInv, FramesMade
<1>3. n \in Levels /\ n + 1 \in Levels /\ n + 1 \notin DOMAIN frames
  BY <1>1 DEF Levels
<1>4. Outs(n) = f.out /\ Effs(n) = f.eff /\ Outs(n + 1) = out /\ Effs(n + 1) = eff
  BY <1>1, <1>3 DEF Outs, Effs
<1>5. /\ NoncesPassed(f.out, f.eff, Making(n)) /\ Verified(f.eff)
      /\ NoncesPassed(out, eff, Making(n + 1)) /\ Verified(eff)
  <2>1. \A l \in Levels : NoncesPassed(Outs(l), Effs(l), Making(l)) /\ Verified(Effs(l))
    BY DEF DeploymentInv, NoncesPass
  <2>2. NoncesPassed(Outs(n), Effs(n), Making(n)) /\ Verified(Effs(n))
    BY <1>3, <2>1
  <2>3. NoncesPassed(Outs(n + 1), Effs(n + 1), Making(n + 1)) /\ Verified(Effs(n + 1))
    BY <1>3, <2>1
  <2> QED
    BY <1>4, <2>2, <2>3
<1>6. ASSUME NEW a \in Addresses, a \in Making(n + 1)
      PROVE  a \in Making(n) \/ (f.kind = "create" /\ f.address = a)
  <2>1. (n + 1) - 1 = n /\ \A i \in 1 .. n : i = n \/ i \in 1 .. n - 1
    BY <1>1
  <2>2. PICK i \in 1 .. n : frames[i].kind = "create" /\ frames[i].address = a
    BY <1>6, <2>1 DEF Making
  <2> QED
    BY <1>1, <2>1, <2>2 DEF Making
<1>7. n = 1 => Making(n) = {}
  <2>1. \A i : i \notin 1 .. 1 - 1
    OBVIOUS
  <2> QED
    BY <2>1 DEF Making
<1>8. \A a \in Addresses :
         a \in Making(n + 1) => \/ a \in Making(n)
                                \/ f.kind = "create" /\ f.address = a
  BY <1>6
<1> QED
  BY <1>1, <1>2, <1>3, <1>4, <1>5, <1>7, <1>8

LEMMA FailNestedKeeps ==
    ASSUME DeploymentInv, FailNested
    PROVE  DeploymentInv'
<1>0. DeploymentTypes /\ frames # << >> /\ Len(frames) > 1
  BY DEF DeploymentInv, FailNested, MayFail
<1>1. PICK n, f, a : n = Len(frames) /\ f = top /\ a = top.address
  OBVIOUS
<1>2. /\ n \in Nat /\ n > 0 /\ f = frames[n] /\ f \in FrameType /\ Made(f, n)
      /\ n \in Levels /\ DOMAIN frames = 1 .. n /\ n \in DOMAIN frames
      /\ Outs(n) = f.out /\ Effs(n) = f.eff
      /\ NoncesPassed(f.out, f.eff, Making(n)) /\ Verified(f.eff)
  BY <1>0, <1>1, LastFrame
<1>3. n > 1 /\ a = f.address /\ a \in Addresses /\ f.out \in OutType /\ f.eff \in EffType
  BY <1>0, <1>1, <1>2 DEF FrameType
<1>4. /\ out' = IF f.kind = "create" THEN [f.out EXCEPT ![a] = EmptyAccount] ELSE f.out
      /\ codeUpdates' = IF f.kind = "create" THEN codeUpdates \ {a} ELSE codeUpdates
      /\ eff' = f.eff /\ Resume(f.kind)
  BY <1>1 DEF FailNested, DeleteOutputAccount
<1>5. UNCHANGED <<aot, chain, compiled, verifyCode, ghost>>
  BY DEF FailNested
<1>6. out' \in OutType /\ eff' \in EffType /\ codeUpdates' \subseteq Addresses
  <2>1. [f.out EXCEPT ![a] = EmptyAccount] \in OutType
    BY <1>0, <1>3, OperatorTypes
  <2>2. codeUpdates \subseteq Addresses
    BY <1>0 DEF DeploymentTypes
  <2> QED
    BY <1>3, <1>4, <2>1, <2>2
<1>7. Popping(n) /\ DeploymentTypes' /\ InstancesRunTheirCode'
  BY <1>1, <1>3, <1>4, <1>5, <1>6, NestedEnds
<1>8. f.kind = "create" => a \notin Creators
  <2>1. f.kind = "create" => a \in Created
    BY <1>2, <1>3 DEF Made, Created
  <2> QED
    BY <2>1, DeploymentAssumption
<1>9. \A b \in Addresses \cup Creators :
         out'[b] = IF f.kind = "create" /\ b = a THEN EmptyAccount ELSE f.out[b]
  BY <1>3, <1>4 DEF OutType
<1>10. FramesMade' /\ NoncesPass' /\ \A l \in Levels' : Verified(Effs(l))'
  <2>1. \A c \in Creators : out'[c].nonce = f.out[c].nonce
    BY <1>8, <1>9
  <2>2. PICK o, e : o = out' /\ e = eff'
    OBVIOUS
  <2>3. NoncesPassed(o, e, Making(n)) /\ Verified(e)
    BY <1>2, <1>4, <2>1, <2>2 DEF NoncesPassed, GetNonce
  <2>4. NoncesPassed(out', eff', Making(n)) /\ Verified(eff')
    BY <2>2, <2>3
  <2>5. UNCHANGED <<chain, ghost>>
    BY <1>5
  <2> QED
    BY <1>7, <2>4, <2>5, PopKeepsNonces
<1>11. ASSUME ~ghost'.over PROVE OutputInv'
  <2>0. OutputInv
    BY <1>5, <1>11 DEF DeploymentInv
  <2>1. ASSUME f.kind = "create"
        PROVE  /\ a \in codeUpdates /\ chain.code[a] = NoCode /\ f.eff[a] = NoCode
               /\ \A l \in 1 .. n : Effs(l)[a] = NoCode
               /\ \A l \in 1 .. n - 1 : Outs(l)[a].code = NoCode
    <3>1. a \in codeUpdates /\ chain.code[a] = NoCode /\ f.eff[a] = NoCode
      BY <1>2, <1>3, <2>0, <2>1 DEF OutputInv, CreationsKept, NestedCreation
    <3>2. \A l \in 1 .. n : l \in Levels /\ l <= n
      BY <1>2 DEF Levels
    <3>3. \A l \in 1 .. n : Effs(l)[a] = NoCode
      BY <1>2, <1>3, <2>0, <3>1, <3>2 DEF OutputInv, CodesStay
    <3>4. ASSUME NEW l \in 1 .. n - 1 PROVE Outs(l)[a].code = NoCode
      <4>1. l \in 1 .. n /\ l \in DOMAIN frames /\ n > l
        BY <1>2
      <4>2. ~(NestedCreation(l) /\ frames[l].address = a)
        BY <1>2, <2>0, <3>1, <4>1 DEF OutputInv, CreationsKept
      <4>3. GetCode(Outs(l), a) = Effs(l)[a]
        BY <1>3, <2>0, <3>2, <4>1, <4>2 DEF OutputInv, CodeFound
      <4> QED
        BY <3>3, <4>1, <4>3 DEF GetCode
    <3> QED
      BY <3>1, <3>3, <3>4
  <2>2. \A b \in Addresses : GetCode(out', b) = eff'[b]
    <3> SUFFICES ASSUME NEW b \in Addresses PROVE GetCode(out', b) = eff'[b]
      OBVIOUS
    <3>1. CASE f.kind = "create" /\ b = a
      BY <1>4, <1>9, <2>1, <3>1 DEF GetCode, EmptyAccount
    <3>2. CASE ~(f.kind = "create" /\ b = a)
      <4>1. GetCode(f.out, b) = f.eff[b]
        BY <1>2, <1>3, <2>0, <3>2 DEF OutputInv, CodeFound, NestedCreation
      <4>2. out'[b] = f.out[b]
        BY <1>9, <3>2
      <4> QED
        BY <1>4, <4>1, <4>2 DEF GetCode
    <3> QED
      BY <3>1, <3>2
  <2>3. ASSUME NEW b \in Addresses, NEW l \in 1 .. n - 1
        PROVE  /\ Outs(l)[b].code # NoCode => out'[b].code # NoCode
               /\ Effs(l)[b] # NoCode => eff'[b] # NoCode
               /\ b \notin codeUpdates' => Effs(l)[b] = eff'[b]
    <3>1. l \in Levels /\ l <= n /\ l \in 1 .. n
      BY <1>2 DEF Levels
    <3>2. /\ Outs(l)[b].code # NoCode => f.out[b].code # NoCode
          /\ Effs(l)[b] # NoCode => f.eff[b] # NoCode
      BY <1>2, <2>0, <3>1 DEF OutputInv, CodesStay
    <3>3. b \notin codeUpdates => Effs(l)[b] = eff[b] /\ Effs(n)[b] = eff[b]
      BY <1>2, <2>0, <3>1 DEF OutputInv, OnlyUpdates
    <3>4. CASE f.kind = "create" /\ b = a
      BY <1>4, <2>1, <3>1, <3>4
    <3>5. CASE ~(f.kind = "create" /\ b = a)
      <4>1. out'[b] = f.out[b]
        BY <1>9, <3>5
      <4>2. b \notin codeUpdates' => b \notin codeUpdates
        BY <1>4, <3>5
      <4> QED
        BY <1>2, <1>4, <3>2, <3>3, <4>1, <4>2
    <3> QED
      BY <3>4, <3>5
  <2>4. ASSUME NEW i \in 1 .. n - 1, NestedCreation(i)
        PROVE  frames[i].address \in codeUpdates' /\ eff'[frames[i].address] # NoCode
    <3>1. i \in DOMAIN frames /\ n > i
      BY <1>2
    <3>2. frames[i].address \in codeUpdates /\ f.eff[frames[i].address] # NoCode
      BY <1>2, <2>0, <2>4, <3>1 DEF OutputInv, CreationsKept
    <3> QED
      BY <1>4, <2>1, <3>2
  <2>5. UNCHANGED chain
    BY <1>5
  <2> QED
    BY <1>0, <1>3, <1>7, <2>0, <2>2, <2>3, <2>4, <2>5, PopKeepsOutput
<1> QED
  BY <1>7, <1>10, <1>11 DEF DeploymentInv

(* Nonces that are merged have passed what either side has. *)
LEMMA MergedNonces ==
    ASSUME DeploymentTypes, NEW o \in OutType, NEW p \in OutType, NEW q \in OutType,
           NEW c \in Creators,
           o[c].nonce = 0 \/ o[c].nonce >= chain.nonce[c],
           p[c].nonce = 0 \/ p[c].nonce >= chain.nonce[c],
           q[c].nonce = IF p[c].nonce > o[c].nonce THEN p[c].nonce ELSE o[c].nonce
    PROVE  /\ q[c].nonce = 0 \/ q[c].nonce >= chain.nonce[c]
           /\ GetNonce(q, c) \in Nat /\ GetNonce(q, c) >= chain.nonce[c]
           /\ GetNonce(q, c) >= GetNonce(o, c) /\ GetNonce(q, c) >= GetNonce(p, c)
<1>1. PICK i \in Nat : i = o[c].nonce
  BY DEF OutType, Account
<1>2. PICK j \in Nat : j = p[c].nonce
  BY DEF OutType, Account
<1>3. PICK k \in Nat : k = chain.nonce[c]
  BY DEF DeploymentTypes
<1>4. PICK m \in Nat : m = q[c].nonce
  BY DEF OutType, Account
<1>5. (i = 0 \/ i >= k) /\ (j = 0 \/ j >= k) /\ m = (IF j > i THEN j ELSE i)
  BY <1>1, <1>2, <1>3, <1>4
<1>6. /\ GetNonce(o, c) = IF i # 0 THEN i ELSE k
      /\ GetNonce(p, c) = IF j # 0 THEN j ELSE k
      /\ GetNonce(q, c) = IF m # 0 THEN m ELSE k
  BY <1>1, <1>2, <1>3, <1>4 DEF GetNonce
<1> QED
  BY <1>3, <1>4, <1>5, <1>6

LEMMA AddressesDiffer ==
    ASSUME NEW c \in Creators, NEW d \in Creators, NEW k \in DOMAIN NewAddressOf[c],
           NEW j \in DOMAIN NewAddressOf[d], NewAddressOf[c][k] = NewAddressOf[d][j]
    PROVE  c = d /\ k = j
  BY DeploymentAssumption

(* What a nested execution that succeeds leaves. *)
LEMMA ReturnedOutput ==
    ASSUME DeploymentInv, ReturnNested, NEW f, f = top
    PROVE  /\ out' \in OutType /\ eff' \in EffType /\ codeUpdates' \subseteq Addresses
           /\ \A b \in Addresses \cup Creators :
                 out'[b].code = IF b = f.address /\ f.kind = "upgrade" THEN f.code
                                ELSE IF b \in codeUpdates /\ out[b].code # NoCode
                                THEN out[b].code ELSE f.out[b].code
           /\ \A b \in Addresses :
                 /\ eff'[b] = IF b = f.address /\ f.kind = "upgrade" THEN f.code ELSE eff[b]
                 /\ b \in codeUpdates' <=>
                       b \in codeUpdates \/ (b = f.address /\ f.kind = "upgrade")
           /\ \E q \in OutType :
                 \A c \in Creators :
                    /\ q[c].nonce = IF out[c].nonce > f.out[c].nonce THEN out[c].nonce
                                                                     ELSE f.out[c].nonce
                    /\ out'[c].nonce = IF f.kind = "create" /\ c = f.caller
                                       THEN GetNonce(q, c) + 1 ELSE q[c].nonce
<1>0. DeploymentTypes /\ frames # << >>
  BY DEF DeploymentInv, ReturnNested, MayEnd
<1>1. /\ f \in FrameType /\ out \in OutType /\ f.out \in OutType /\ eff \in EffType
      /\ f.address \in Addresses /\ f.code \in Codes /\ f.caller \in Addresses \cup Creators
      /\ codeUpdates \subseteq Addresses
  BY <1>0, FrameFacts DEF FrameType, DeploymentTypes
<1>2. f.code # NoCode
  BY <1>1, DeploymentAssumption
<1>3. PICK p : p = IF f.kind = "upgrade" THEN DeployCode(out, f.address, f.code, f.caller) ELSE out
  OBVIOUS
<1>4. p \in OutType
  BY <1>0, <1>1, <1>3, OperatorTypes
<1>5. \A b \in Addresses \cup Creators :
         /\ p[b].nonce = out[b].nonce
         /\ p[b].code = IF b = f.address /\ f.kind = "upgrade" THEN f.code ELSE out[b].code
  BY <1>1, <1>3 DEF DeployCode, OutType, Account
<1>6. PICK u : u = Updates(f)
  OBVIOUS
<1>7. PICK r, q : r = GetVMOutput(p, u) /\ q = MergeVMOutputs(f.out, r)
  OBVIOUS
<1>8. /\ q \in OutType
      /\ \A b \in Addresses \cup Creators :
            /\ r[b].code = IF b \in u THEN p[b].code ELSE NoCode
            /\ q[b].code = IF r[b].code # NoCode THEN r[b].code ELSE f.out[b].code
            /\ q[b].nonce = IF p[b].nonce > f.out[b].nonce THEN p[b].nonce ELSE f.out[b].nonce
  BY <1>1, <1>4, <1>7, MergedOutputs
<1>9. /\ codeUpdates' = u /\ eff' = EffOf(f)
      /\ out' = IF f.kind = "create" THEN IncreaseNonce(q, f.caller) ELSE q
  BY <1>3, <1>6, <1>7 DEF ReturnNested, OutputOf, Deploys
<1>10. u = IF f.kind = "upgrade" THEN codeUpdates \cup {f.address} ELSE codeUpdates
  BY <1>6 DEF Updates, Deploys
<1>11. f.kind = "create" => f.caller \in Creators
  BY <1>0, LastFrame DEF Made
<1>12. out' \in OutType
  BY <1>0, <1>8, <1>9, <1>11, OperatorTypes
<1>13. eff' = IF f.kind = "upgrade" THEN [eff EXCEPT ![f.address] = f.code] ELSE eff
  BY <1>9 DEF EffOf, Deploys
<1>14. eff' \in EffType /\ codeUpdates' \subseteq Addresses
  BY <1>1, <1>9, <1>10, <1>13 DEF EffType
<1>15. \A b \in Addresses :
          /\ eff'[b] = IF b = f.address /\ f.kind = "upgrade" THEN f.code ELSE eff[b]
          /\ b \in codeUpdates' <=> b \in codeUpdates \/ (b = f.address /\ f.kind = "upgrade")
  BY <1>1, <1>9, <1>10, <1>13 DEF EffType
<1>16. \A b \in Addresses \cup Creators :
          /\ out'[b].code = q[b].code
          /\ out'[b].nonce = IF f.kind = "create" /\ b = f.caller THEN GetNonce(q, b) + 1 ELSE q[b].nonce
  BY <1>8, <1>9, <1>11 DEF IncreaseNonce, OutType, Account
<1>17. \A b \in Addresses \cup Creators :
          out'[b].code = IF b = f.address /\ f.kind = "upgrade" THEN f.code
                         ELSE IF b \in codeUpdates /\ out[b].code # NoCode
                         THEN out[b].code ELSE f.out[b].code
  BY <1>2, <1>5, <1>8, <1>10, <1>16
<1>18. \A c \in Creators :
          /\ q[c].nonce = IF out[c].nonce > f.out[c].nonce THEN out[c].nonce ELSE f.out[c].nonce
          /\ out'[c].nonce = IF f.kind = "create" /\ c = f.caller
                             THEN GetNonce(q, c) + 1 ELSE q[c].nonce
  BY <1>5, <1>8, <1>16
<1> QED
  BY <1>8, <1>12, <1>14, <1>15, <1>17, <1>18

LEMMA ReturnNestedKeeps ==
    ASSUME DeploymentInv, ReturnNested
    PROVE  DeploymentInv'
<1>0. DeploymentTypes /\ frames # << >> /\ Len(frames) > 1
  BY DEF DeploymentInv, ReturnNested, MayEnd
<1>1. PICK n, f : n = Len(frames) /\ f = top
  OBVIOUS
<1>2. /\ n \in Nat /\ n > 0 /\ f = frames[n] /\ f \in FrameType /\ Made(f, n)
      /\ n \in Levels /\ n + 1 \in Levels /\ DOMAIN frames = 1 .. n /\ n \in DOMAIN frames
      /\ n + 1 \notin DOMAIN frames
      /\ Outs(n) = f.out /\ Effs(n) = f.eff /\ Outs(n + 1) = out /\ Effs(n + 1) = eff
      /\ NoncesPassed(f.out, f.eff, Making(n)) /\ Verified(f.eff)
      /\ NoncesPassed(out, eff, Making(n + 1)) /\ Verified(eff)
      /\ \A a \in Addresses :
            a \in Making(n + 1) => a \in Making(n) \/ (f.kind = "create" /\ f.address = a)
  BY <1>0, <1>1, LastFrame
<1>3. n > 1 /\ f.address \in Addresses /\ f.code \in Codes /\ f.out \in OutType /\ out \in OutType
  BY <1>0, <1>1, <1>2 DEF FrameType, DeploymentTypes
<1>4. /\ out' \in OutType /\ eff' \in EffType /\ codeUpdates' \subseteq Addresses
      /\ \A b \in Addresses \cup Creators :
            out'[b].code = IF b = f.address /\ f.kind = "upgrade" THEN f.code
                           ELSE IF b \in codeUpdates /\ out[b].code # NoCode
                           THEN out[b].code ELSE f.out[b].code
      /\ \A b \in Addresses :
            /\ eff'[b] = IF b = f.address /\ f.kind = "upgrade" THEN f.code ELSE eff[b]
            /\ b \in codeUpdates' <=> b \in codeUpdates \/ (b = f.address /\ f.kind = "upgrade")
  BY <1>1, ReturnedOutput
<1>5. PICK q \in OutType :
         \A c \in Creators :
            /\ q[c].nonce = IF out[c].nonce > f.out[c].nonce THEN out[c].nonce ELSE f.out[c].nonce
            /\ out'[c].nonce = IF f.kind = "create" /\ c = f.caller
                               THEN GetNonce(q, c) + 1 ELSE q[c].nonce
  BY <1>1, ReturnedOutput
<1>6. Resume(f.kind) /\ UNCHANGED <<aot, chain, compiled, verifyCode, ghost>>
  BY <1>1 DEF ReturnNested
<1>7. Popping(n) /\ DeploymentTypes' /\ InstancesRunTheirCode'
  BY <1>1, <1>3, <1>4, <1>6, NestedEnds
<1>8. f.code # NoCode
  BY <1>3, DeploymentAssumption
<1>9. UNCHANGED <<chain, ghost>>
  BY <1>6
<1>10. NoncesPassed(out', eff', Making(n))
  <2>1. PICK o, e : o = out' /\ e = eff'
    OBVIOUS
  <2> SUFFICES NoncesPassed(o, e, Making(n))
    BY <2>1
  <2>2. ASSUME NEW c \in Creators
        PROVE  /\ o[c].nonce = 0 \/ o[c].nonce >= chain.nonce[c]
               /\ GetNonce(o, c) \in Nat /\ GetNonce(out, c) \in Nat /\ GetNonce(f.out, c) \in Nat
               /\ GetNonce(o, c) >= GetNonce(out, c)
               /\ f.kind = "create" /\ c = f.caller => GetNonce(o, c) > GetNonce(f.out, c)
    <3>1. /\ f.out[c].nonce = 0 \/ f.out[c].nonce >= chain.nonce[c]
          /\ out[c].nonce = 0 \/ out[c].nonce >= chain.nonce[c]
      BY <1>2 DEF NoncesPassed
    <3>2. /\ q[c].nonce = 0 \/ q[c].nonce >= chain.nonce[c]
          /\ GetNonce(q, c) \in Nat /\ GetNonce(q, c) >= chain.nonce[c]
          /\ GetNonce(q, c) >= GetNonce(f.out, c) /\ GetNonce(q, c) >= GetNonce(out, c)
      BY <1>0, <1>3, <1>5, <3>1, MergedNonces
    <3>3. GetNonce(out, c) \in Nat /\ GetNonce(f.out, c) \in Nat /\ chain.nonce[c] \in Nat
      BY <1>0, <1>3, OperatorTypes DEF DeploymentTypes
    <3>4. CASE f.kind = "create" /\ c = f.caller
      <4>1. o[c].nonce = GetNonce(q, c) + 1
        BY <1>5, <2>1, <3>4
      <4>2. GetNonce(o, c) = GetNonce(q, c) + 1
        BY <3>2, <4>1 DEF GetNonce
      <4> QED
        BY <3>2, <3>3, <4>1, <4>2
    <3>5. CASE ~(f.kind = "create" /\ c = f.caller)
      <4>1. o[c].nonce = q[c].nonce
        BY <1>5, <2>1, <3>5
      <4>2. GetNonce(o, c) = GetNonce(q, c)
        BY <4>1 DEF GetNonce
      <4> QED
        BY <3>2, <3>3, <3>5, <4>1, <4>2
    <3> QED
      BY <3>4, <3>5
  <2>3. ASSUME NEW c \in Creators, NEW k \in DOMAIN NewAddressOf[c],
               e[NewAddressOf[c][k]] # NoCode
        PROVE  k < GetNonce(o, c) \/ NewAddressOf[c][k] \in Making(n)
    <3>1. PICK x : x = NewAddressOf[c][k]
      OBVIOUS
    <3>2. k \in Nat /\ x \in Created /\ x \in Addresses
      BY <3>1, DeploymentAssumption DEF Addresses, Created
    <3>3. ~(x = f.address /\ f.kind = "upgrade")
      BY <1>2, <3>2, DeploymentAssumption DEF Made
    <3>4. eff[x] # NoCode
      BY <1>4, <2>1, <2>3, <3>1, <3>2, <3>3
    <3>5. k < GetNonce(out, c) \/ x \in Making(n + 1)
      BY <1>2, <3>1, <3>4 DEF NoncesPassed
    <3>6. CASE k < GetNonce(out, c)
      BY <2>2, <3>2, <3>6
    <3>7. CASE x \in Making(n)
      BY <3>1, <3>7
    <3>8. CASE f.kind = "create" /\ f.address = x
      <4>1. PICK j \in DOMAIN NewAddressOf[f.caller] :
               x = NewAddressOf[f.caller][j] /\ j <= GetNonce(f.out, f.caller)
        BY <1>2, <1>3, <3>8 DEF Made
      <4>2. f.caller \in Creators
        BY <1>2, <3>8 DEF Made
      <4>3. c = f.caller /\ k = j
        BY <3>1, <4>1, <4>2, AddressesDiffer
      <4>4. /\ GetNonce(o, c) \in Nat /\ GetNonce(f.out, c) \in Nat
            /\ GetNonce(o, c) > GetNonce(f.out, c)
        BY <2>2, <3>8, <4>3
      <4>5. k <= GetNonce(f.out, c)
        BY <4>1, <4>3
      <4> QED
        BY <3>2, <4>4, <4>5
    <3> QED
      BY <1>2, <3>2, <3>5, <3>6, <3>7, <3>8
  <2> QED
    BY <2>2, <2>3 DEF NoncesPassed
<1>11. Verified(eff')
  <2>1. f.kind = "upgrade" => IsValid(WasmModule[f.code])
    BY <1>2 DEF Made
  <2>2. PICK e : e = eff'
    OBVIOUS
  <2>3. Verified(e)
    BY <1>2, <1>4, <2>1, <2>2 DEF Verified
  <2> QED
    BY <2>2, <2>3
<1>12. FramesMade' /\ NoncesPass' /\ \A l \in Levels' : Verified(Effs(l))'
  BY <1>7, <1>9, <1>10, <1>11, PopKeepsNonces
<1>13. ASSUME ~ghost'.over PROVE OutputInv'
  <2>0. OutputInv
    BY <1>6, <1>13 DEF DeploymentInv
  <2>1. \A l \in 1 .. n + 1 : l \in Levels
    BY <1>2 DEF Levels
  <2>2. \A b \in Addresses : GetCode(out', b) = eff'[b]
    <3> SUFFICES ASSUME NEW b \in Addresses PROVE GetCode(out', b) = eff'[b]
      OBVIOUS
    <3>1. GetCode(out, b) = eff[b]
      BY <1>2, <2>0 DEF OutputInv, CodeFound
    <3>2. f.out[b].code # NoCode => out[b].code # NoCode
      <4>1. n <= n + 1
        BY <1>2
      <4> QED
        BY <1>2, <2>0, <4>1 DEF OutputInv, CodesStay
    <3>3. CASE b = f.address /\ f.kind = "upgrade"
      BY <1>4, <1>8, <3>3 DEF GetCode
    <3>4. CASE ~(b = f.address /\ f.kind = "upgrade") /\ b \in codeUpdates
      <4>1. out'[b].code = out[b].code
        BY <1>4, <3>2, <3>4
      <4>2. eff'[b] = eff[b]
        BY <1>4, <3>4
      <4> QED
        BY <3>1, <4>1, <4>2 DEF GetCode
    <3>5. CASE ~(b = f.address /\ f.kind = "upgrade") /\ b \notin codeUpdates
      <4>1. out'[b].code = f.out[b].code /\ eff'[b] = eff[b]
        BY <1>4, <3>5
      <4>2. ~(NestedCreation(n) /\ frames[n].address = b)
        BY <1>2, <2>0, <3>5 DEF OutputInv, CreationsKept
      <4>3. GetCode(f.out, b) = f.eff[b]
        BY <1>2, <2>0, <4>2 DEF OutputInv, CodeFound
      <4>4. f.eff[b] = eff[b]
        BY <1>2, <2>0, <3>5 DEF OutputInv, OnlyUpdates
      <4> QED
        BY <4>1, <4>3, <4>4 DEF GetCode
    <3> QED
      BY <3>3, <3>4, <3>5
  <2>3. ASSUME NEW b \in Addresses, NEW l \in 1 .. n - 1
        PROVE  /\ Outs(l)[b].code # NoCode => out'[b].code # NoCode
               /\ Effs(l)[b] # NoCode => eff'[b] # NoCode
               /\ b \notin codeUpdates' => Effs(l)[b] = eff'[b]
    <3>1. l \in Levels /\ l <= n /\ l <= n + 1
      BY <1>2, <2>1
    <3>2. Outs(l)[b].code # NoCode => f.out[b].code # NoCode
      BY <1>2, <2>0, <3>1 DEF OutputInv, CodesStay
    <3>3. Effs(l)[b] # NoCode => eff[b] # NoCode
      BY <1>2, <2>0, <3>1 DEF OutputInv, CodesStay
    <3>4. b \notin codeUpdates => Effs(l)[b] = eff[b]
      BY <2>0, <3>1 DEF OutputInv, OnlyUpdates
    <3> QED
      BY <1>4, <1>8, <3>2, <3>3, <3>4
  <2>4. ASSUME NEW i \in 1 .. n - 1, NestedCreation(i)
        PROVE  frames[i].address \in codeUpdates' /\ eff'[frames[i].address] # NoCode
    <3>1. i \in DOMAIN frames /\ n + 1 > i
      BY <1>2
    <3>2. frames[i].address \in Addresses
      BY <1>0, <3>1, FrameFacts DEF FrameType
    <3>3. frames[i].address \in codeUpdates /\ eff[frames[i].address] # NoCode
      BY <1>2, <2>0, <2>4, <3>1 DEF OutputInv, CreationsKept
    <3> QED
      BY <1>4, <1>8, <3>2, <3>3
  <2>5. UNCHANGED chain
    BY <1>6
  <2> QED
    BY <1>0, <1>3, <1>7, <2>0, <2>2, <2>3, <2>4, <2>5, PopKeepsOutput
<1> QED
  BY <1>7, <1>12, <1>13 DEF DeploymentInv

LEMMA ReturnTransactionKeeps ==
    ASSUME DeploymentInv, ReturnTransaction
    PROVE  DeploymentInv'
<1>0. DeploymentTypes /\ frames # << >> /\ Len(frames) = 1
  BY DEF DeploymentInv, ReturnTransaction, MayEnd
<1>1. PICK f, a : f = top /\ a = self
  OBVIOUS
<1>2. /\ f = frames[1] /\ f \in FrameType /\ Made(f, 1)
      /\ 2 \in Levels /\ 1 \in DOMAIN frames /\ 2 \notin DOMAIN frames
      /\ Outs(2) = out /\ Effs(2) = eff
      /\ NoncesPassed(out, eff, Making(2)) /\ Verified(eff)
      /\ \A x \in Addresses : x \in Making(2) => f.kind = "create" /\ f.address = x
  <2>1. PICK n : n = Len(frames)
    OBVIOUS
  <2>2. /\ f = frames[n] /\ f \in FrameType /\ Made(f, n)
        /\ n + 1 \in Levels /\ n \in DOMAIN frames /\ n + 1 \notin DOMAIN frames
        /\ Outs(n + 1) = out /\ Effs(n + 1) = eff
        /\ NoncesPassed(out, eff, Making(n + 1)) /\ Verified(eff)
        /\ \A x \in Addresses :
              x \in Making(n + 1) => x \in Making(n) \/ (f.kind = "create" /\ f.address = x)
        /\ n = 1 => Making(n) = {}
    BY <1>0, <1>1, <2>1, LastFrame
  <2>3. n = 1 /\ n + 1 = 2
    BY <1>0, <2>1
  <2> QED
    BY <2>2, <2>3
<1>3. /\ a = f.address /\ a \in Addresses /\ f.code \in Codes /\ f.code # NoCode
      /\ out \in OutType /\ eff \in EffType /\ User \in Creators
  BY <1>0, <1>1, <1>2, DeploymentAssumption DEF FrameType, DeploymentTypes, self
<1>4. PICK deploys : deploys = DeploysAtTop(f)
  OBVIOUS
<1>5. deploys <=> f.kind \in {"create", "upgrade"}
  BY <1>4 DEF DeploysAtTop
<1>6. PICK p, u : /\ p = IF deploys THEN DeployCode(out, a, f.code, User) ELSE out
                  /\ u = IF deploys THEN codeUpdates \cup {a} ELSE codeUpdates
  OBVIOUS
<1>7. p \in OutType
  BY <1>0, <1>3, <1>6, OperatorTypes
<1>8. \A b \in Addresses \cup Creators :
         p[b].nonce = out[b].nonce /\ p[b].code = IF deploys /\ b = a THEN f.code ELSE out[b].code
  BY <1>3, <1>6 DEF DeployCode, OutType, Account
<1>9. PICK r : r = GetVMOutput(p, u)
  OBVIOUS
<1>10. /\ r \in OutType
       /\ \A b \in Addresses \cup Creators :
             r[b].nonce = p[b].nonce /\ r[b].code = IF b \in u THEN p[b].code ELSE NoCode
  BY <1>7, <1>9, MergedOutputs
<1>11. /\ frames' = << >> /\ out' = EmptyOutput /\ codeUpdates' = {} /\ verifyCode' = FALSE
       /\ UNCHANGED <<aot, compiled, ghost>>
       /\ eff' = IF deploys THEN [eff EXCEPT ![a] = f.code] ELSE eff
       /\ chain' = [code |-> [b \in Addresses |->
                               IF r[b].code # NoCode THEN r[b].code ELSE chain.code[b]],
                    nonce |-> [c \in Creators |-> GetNonce(r, c)]]
  <2>1. r = FinalOutput
    BY <1>1, <1>4, <1>6, <1>9 DEF FinalOutput, FinalUpdates
  <2> QED
    BY <1>1, <1>4, <2>1 DEF ReturnTransaction, InitState
<1>12. /\ eff' \in EffType
       /\ \A b \in Addresses : eff'[b] = IF deploys /\ b = a THEN f.code ELSE eff[b]
  BY <1>3, <1>11 DEF EffType
<1>13. \A c \in Creators : GetNonce(r, c) = GetNonce(out, c) /\ GetNonce(r, c) \in Nat
  BY <1>0, <1>8, <1>10, OperatorTypes DEF GetNonce
<1>14. /\ chain' \in [code : EffType, nonce : [Creators -> Nat]]
       /\ \A c \in Creators : chain'.nonce[c] = GetNonce(out, c)
       /\ chain'.code \in EffType
       /\ \A b \in Addresses :
             chain'.code[b] = IF r[b].code # NoCode THEN r[b].code ELSE chain.code[b]
  <2>1. PICK codes : codes = [b \in Addresses |->
                                IF r[b].code # NoCode THEN r[b].code ELSE chain.code[b]]
    OBVIOUS
  <2>2. PICK nonces : nonces = [c \in Creators |-> GetNonce(r, c)]
    OBVIOUS
  <2>3. codes \in EffType
    <3>1. \A b \in Addresses : r[b].code \in Codes \cup {NoCode} /\ chain.code[b] \in Codes \cup {NoCode}
      BY <1>0, <1>10 DEF OutType, Account, DeploymentTypes, EffType
    <3> QED
      BY <2>1, <3>1 DEF EffType
  <2>4. nonces \in [Creators -> Nat] /\ \A c \in Creators : nonces[c] = GetNonce(out, c)
    BY <1>13, <2>2
  <2>5. chain' = [code |-> codes, nonce |-> nonces]
    BY <1>11, <2>1, <2>2
  <2> QED
    BY <2>1, <2>3, <2>4, <2>5
<1>15. DeploymentTypes'
  <2>1. verifyCode' \in BOOLEAN /\ aot' \in BOOLEAN
    BY <1>0, <1>11, Zenon DEF DeploymentTypes
  <2>2. out' \in OutType /\ codeUpdates' \subseteq Addresses /\ EmptyOutput' = EmptyOutput
    BY <1>11, EmptyOutputs DEF EmptyOutput, EmptyAccount
  <2>3. /\ frames' \in Seq(FrameType) /\ Len(frames') <= MaxFrames
        /\ \A i \in DOMAIN frames' : frames'[i].next = "callback" => i < MaxFrames
    BY <1>11, DeploymentAssumption
  <2>4. compiled' \in [Codes -> Codes \cup {NoCode}] /\ ghost' \in GhostType
    BY <1>0, <1>11 DEF DeploymentTypes
  <2> QED
    BY <1>11, <1>12, <1>14, <2>1, <2>2, <2>3, <2>4 DEF DeploymentTypes
<1>16. InstancesRunTheirCode'
  BY <1>11 DEF DeploymentInv, InstancesRunTheirCode
<1>17. NoncesPassed(EmptyOutput, eff, {})'
  <2>1. PICK e : e = eff'
    OBVIOUS
  <2>2. \A c \in Creators : EmptyOutput'[c].nonce = 0 /\ GetNonce(EmptyOutput, c)' = GetNonce(out, c)
    <3>1. EmptyOutput' = EmptyOutput /\ \A c \in Creators : EmptyOutput[c].nonce = 0
      BY EmptyOutputs DEF EmptyOutput, EmptyAccount
    <3> QED
      BY <1>14, <3>1 DEF GetNonce
  <2>3. ASSUME NEW c \in Creators, NEW k \in DOMAIN NewAddressOf[c],
               e[NewAddressOf[c][k]] # NoCode
        PROVE  k < GetNonce(out, c)
    <3>1. PICK x : x = NewAddressOf[c][k]
      OBVIOUS
    <3>2. k \in Nat /\ x \in Created /\ x \in Addresses
      BY <3>1, DeploymentAssumption DEF Addresses, Created
    <3>3. f.kind = "upgrade" => x # a
      BY <1>2, <1>3, <3>2, DeploymentAssumption DEF Made
    <3>4. CASE f.kind = "create" /\ f.address = x
      <4>1. PICK j \in DOMAIN NewAddressOf[User] : x = NewAddressOf[User][j] /\ j < chain.nonce[User]
        BY <1>2, <3>4 DEF Made
      <4>2. c = User /\ k = j
        BY <1>3, <3>1, <4>1, AddressesDiffer
      <4>3. out[c].nonce = 0 \/ out[c].nonce >= chain.nonce[c]
        BY <1>2 DEF NoncesPassed
      <4>4. out[c].nonce \in Nat /\ chain.nonce[c] \in Nat
        BY <1>0, <1>3 DEF OutType, Account, DeploymentTypes
      <4>5. k < chain.nonce[c]
        BY <4>1, <4>2
      <4> QED
        BY <3>2, <4>3, <4>4, <4>5 DEF GetNonce
    <3>5. CASE ~(f.kind = "create" /\ f.address = x)
      <4>1. eff[x] # NoCode
        BY <1>3, <1>5, <1>12, <2>1, <2>3, <3>1, <3>2, <3>3, <3>5
      <4> QED
        BY <1>2, <3>1, <3>2, <3>5, <4>1 DEF NoncesPassed
    <3> QED
      BY <3>4, <3>5
  <2> QED
    BY <2>1, <2>2, <2>3 DEF NoncesPassed
<1>18. Verified(eff)'
  <2>1. deploys => IsValid(WasmModule[f.code])
    BY <1>2, <1>5 DEF Made
  <2> QED
    BY <1>2, <1>11, <1>12, <2>1 DEF Verified
<1>19. ASSUME ~ghost'.over PROVE eff' = chain'.code
  <2>0. OutputInv
    BY <1>11, <1>19 DEF DeploymentInv
  <2>1. ASSUME NEW b \in Addresses PROVE eff'[b] = chain'.code[b]
    <3>1. GetCode(out, b) = eff[b]
      BY <1>2, <2>0 DEF OutputInv, CodeFound
    <3>2. CASE deploys /\ b = a
      BY <1>3, <1>6, <1>8, <1>10, <1>12, <1>14, <3>2
    <3>3. CASE ~(deploys /\ b = a) /\ b \in codeUpdates
      <4>1. r[b].code = out[b].code /\ eff'[b] = eff[b]
        BY <1>6, <1>8, <1>10, <1>12, <3>3
      <4> QED
        BY <1>14, <3>1, <4>1 DEF GetCode
    <3>4. CASE ~(deploys /\ b = a) /\ b \notin codeUpdates
      <4>1. r[b].code = NoCode /\ eff'[b] = eff[b]
        BY <1>6, <1>8, <1>10, <1>12, <3>4
      <4>2. 1 \in Levels
        BY <1>0 DEF Levels
      <4>3. chain.code[b] = eff[b]
        BY <2>0, <3>4, <4>2 DEF OutputInv, OnlyUpdates
      <4> QED
        BY <1>14, <4>1, <4>3
    <3> QED
      BY <3>2, <3>3, <3>4
  <2> QED
    BY <1>12, <1>14, <2>1 DEF EffType
<1>20. /\ FramesMade' /\ NoncesPass' /\ \A l \in Levels' : Verified(Effs(l))'
       /\ ~ghost'.over => OutputInv'
  BY <1>11, <1>17, <1>18, <1>19, IdleAgain
<1> QED
  BY <1>15, <1>16, <1>20 DEF DeploymentInv

LEMMA FailTransactionKeeps ==
    ASSUME DeploymentInv, FailTransaction
    PROVE  DeploymentInv'
<1>0. DeploymentTypes /\ frames # << >> /\ Len(frames) = 1
  BY DEF DeploymentInv, FailTransaction, MayFail
<1>1. PICK f, n : f = top /\ n = Len(frames)
  OBVIOUS
<1>2. /\ f \in FrameType /\ Made(f, n) /\ n \in Levels /\ n \in DOMAIN frames
      /\ Outs(n) = f.out /\ Effs(n) = f.eff
      /\ NoncesPassed(f.out, f.eff, Making(n)) /\ Verified(f.eff)
      /\ n = 1 => Making(n) = {}
  BY <1>0, <1>1, LastFrame
<1>3. n = 1 /\ Making(n) = {} /\ f.out \in OutType /\ f.eff \in EffType
  BY <1>0, <1>1, <1>2 DEF FrameType
<1>4. /\ frames' = << >> /\ out' = EmptyOutput /\ codeUpdates' = {} /\ verifyCode' = FALSE
      /\ UNCHANGED <<aot, chain, compiled, ghost>>
      /\ eff' = f.eff
  BY <1>1 DEF FailTransaction, InitState
<1>5. DeploymentTypes'
  <2>1. verifyCode' \in BOOLEAN /\ aot' \in BOOLEAN
    BY <1>0, <1>4, Zenon DEF DeploymentTypes
  <2>2. out' \in OutType /\ codeUpdates' \subseteq Addresses /\ EmptyOutput' = EmptyOutput
    BY <1>4, EmptyOutputs DEF EmptyOutput, EmptyAccount
  <2>3. /\ frames' \in Seq(FrameType) /\ Len(frames') <= MaxFrames
        /\ \A i \in DOMAIN frames' : frames'[i].next = "callback" => i < MaxFrames
    BY <1>4, DeploymentAssumption
  <2>4. /\ compiled' \in [Codes -> Codes \cup {NoCode}] /\ ghost' \in GhostType
        /\ chain' \in [code : EffType, nonce : [Creators -> Nat]]
    BY <1>0, <1>4 DEF DeploymentTypes
  <2> QED
    BY <1>3, <1>4, <2>1, <2>2, <2>3, <2>4 DEF DeploymentTypes
<1>6. InstancesRunTheirCode'
  BY <1>4 DEF DeploymentInv, InstancesRunTheirCode
<1>7. NoncesPassed(EmptyOutput, eff, {})'
  <2>1. /\ EmptyOutput' = EmptyOutput
        /\ \A c \in Creators : EmptyOutput[c].nonce = 0 /\ f.out[c].nonce = 0
    BY <1>2, <1>3, EmptyOutputs DEF EmptyOutput, EmptyAccount, Made
  <2> QED
    BY <1>2, <1>3, <1>4, <2>1 DEF NoncesPassed, GetNonce
<1>8. Verified(eff)'
  BY <1>2, <1>4 DEF Verified
<1>9. ~ghost'.over => eff' = chain'.code
  BY <1>2, <1>3, <1>4 DEF DeploymentInv, OutputInv, OnlyUpdates
<1>10. /\ FramesMade' /\ NoncesPass' /\ \A l \in Levels' : Verified(Effs(l))'
       /\ ~ghost'.over => OutputInv'
  BY <1>4, <1>7, <1>8, <1>9, IdleAgain
<1> QED
  BY <1>5, <1>6, <1>10 DEF DeploymentInv

(* Steps that change none of the contexts. *)
LEMMA OthersKeep ==
    ASSUME DeploymentInv, compiled' \in [Codes -> Codes \cup {NoCode}],
           \A h \in Codes : compiled'[h] \in {compiled[h], NoCode},
           UNCHANGED <<aot, chain, out, codeUpdates, verifyCode, frames, eff, ghost>>
    PROVE  DeploymentInv'
<1>1. DeploymentTypes'
  BY DEF DeploymentInv, DeploymentTypes, EmptyOutput, EmptyAccount
<1>2. InstancesRunTheirCode'
  BY DEF DeploymentInv, InstancesRunTheirCode
<1>3. FramesMade'
  BY DEF DeploymentInv, FramesMade, Made, GetNonce
<1>4. /\ Levels' = Levels
      /\ \A l : Outs(l)' = Outs(l) /\ Effs(l)' = Effs(l) /\ Making(l)' = Making(l)
  BY DEF Levels, Outs, Effs, Making
<1>5. NoncesPass'
  BY <1>4 DEF DeploymentInv, NoncesPass, NoncesPassed, GetNonce
<1>6. \A l \in Levels' : Verified(Effs(l))'
  BY <1>4 DEF DeploymentInv, Verified
<1>7. ASSUME ~ghost'.over PROVE OutputInv'
  <2>0. OutputInv
    BY <1>7 DEF DeploymentInv
  <2>1. CodeFound'
    BY <1>4, <2>0 DEF OutputInv, CodeFound, NestedCreation, GetCode
  <2>2. CodesStay'
    BY <1>4, <2>0 DEF OutputInv, CodesStay
  <2>3. OnlyUpdates'
    BY <1>4, <2>0 DEF OutputInv, OnlyUpdates
  <2>4. CreationsKept'
    BY <1>4, <2>0 DEF OutputInv, CreationsKept, NestedCreation
  <2> QED
    BY <2>1, <2>2, <2>3, <2>4 DEF OutputInv
<1> QED
  BY <1>1, <1>2, <1>3, <1>5, <1>6, <1>7 DEF DeploymentInv

LEMMA DeploymentStep ==
    ASSUME DeploymentInv, [DeploymentNext]_vars
    PROVE  DeploymentInv'
<1>1. ASSUME NEW h \in Codes, EvictCompiledCode(h) PROVE DeploymentInv'
  <2>1. compiled \in [Codes -> Codes \cup {NoCode}]
    BY DEF DeploymentInv, DeploymentTypes
  <2>2. /\ compiled' = [compiled EXCEPT ![h] = NoCode]
        /\ UNCHANGED <<aot, chain, out, codeUpdates, verifyCode, frames, eff, ghost>>
    BY <1>1 DEF EvictCompiledCode
  <2>3. /\ compiled' \in [Codes -> Codes \cup {NoCode}]
        /\ \A g \in Codes : compiled'[g] \in {compiled[g], NoCode}
    BY <2>1, <2>2
  <2> QED
    BY <2>2, <2>3, OthersKeep
<1>2. ASSUME UNCHANGED vars PROVE DeploymentInv'
  <2>1. UNCHANGED <<aot, chain, out, codeUpdates, verifyCode, frames, eff, ghost>>
    BY <1>2 DEF vars
  <2>2. /\ compiled' \in [Codes -> Codes \cup {NoCode}]
        /\ \A h \in Codes : compiled'[h] \in {compiled[h], NoCode}
    BY <1>2 DEF vars, DeploymentInv, DeploymentTypes
  <2> QED
    BY <2>1, <2>2, OthersKeep
<1>3. ASSUME DeploymentNext PROVE DeploymentInv'
  <2>1. ASSUME NEW c \in Codes, RunSmartContractCreate(c) PROVE DeploymentInv'
    BY <2>1, RunSmartContractCreateKeeps
  <2>2. ASSUME NEW a \in Existing, NEW c \in Codes, RunSmartContractUpgrade(a, c)
        PROVE  DeploymentInv'
    BY <2>2, RunSmartContractUpgradeKeeps
  <2>3. ASSUME NEW a \in Addresses, RunSmartContractCall(a) PROVE DeploymentInv'
    BY <2>3, RunSmartContractCallKeeps
  <2>4. ASSUME NEW a \in Addresses, Call(a) PROVE DeploymentInv'
    BY <2>4, CallKeeps
  <2>5. ASSUME NEW c \in Codes, CreateNewContract(c) PROVE DeploymentInv'
    BY <2>5, CreateKeeps
  <2>6. ASSUME NEW a \in Existing, NEW c \in Codes, executeUpgrade(a, c)
        PROVE  DeploymentInv'
    BY <2>6, UpgradeKeeps
  <2>7. ASSUME NEW a \in Existing, UpgradeRefused(a) PROVE DeploymentInv'
    BY <2>7, UpgradeRefusedKeeps
  <2>8. ASSUME CallBack PROVE DeploymentInv'
    BY <2>8, CallBackKeeps
  <2>9. ASSUME CallBackFindsNoCode PROVE DeploymentInv'
    BY <2>9, CallBackFindsNoCodeKeeps
  <2>10. ASSUME ReturnNested PROVE DeploymentInv'
    BY <2>10, ReturnNestedKeeps
  <2>11. ASSUME FailNested PROVE DeploymentInv'
    BY <2>11, FailNestedKeeps
  <2>12. ASSUME ReturnTransaction PROVE DeploymentInv'
    BY <2>12, ReturnTransactionKeeps
  <2>13. ASSUME FailTransaction PROVE DeploymentInv'
    BY <2>13, FailTransactionKeeps
  <2> QED
    BY <1>1, <1>3, <2>1, <2>2, <2>3, <2>4, <2>5, <2>6, <2>7, <2>8, <2>9, <2>10,
       <2>11, <2>12, <2>13 DEF DeploymentNext
<1> QED
  BY <1>2, <1>3

(* DeploymentInv is an invariant of the code paths of deployments, upgrades  *)
(* and calls.                                                                *)
LEMMA DeploymentInvariant == DeploymentSpec => []DeploymentInv
<1>1. DeploymentInit => DeploymentInv
  BY DeploymentInitially
<1>2. DeploymentInv /\ [DeploymentNext]_vars => DeploymentInv'
  BY DeploymentStep
<1> QED
  BY <1>1, <1>2, PTL DEF DeploymentSpec

-----------------------------------------------------------------------------
(* The theorems.                                                            *)

(* The state of the contexts, the Node and the stacks has its types, and no   *)
(* more than MaxFrames executions are on the stacks (maxWasmerInstances of    *)
(* arwen/contexts/runtime.go), for any contracts, codes and nesting.          *)
THEOREM DeploymentTypesHold == DeploymentSpec => []DeploymentTypeOK
<1>1. DeploymentInv => DeploymentTypeOK
  <2> SUFFICES ASSUME DeploymentInv PROVE DeploymentTypeOK
    OBVIOUS
  <2>1. DeploymentTypes
    BY DEF DeploymentInv
  <2>2. aot \in BOOLEAN /\ verifyCode \in BOOLEAN
    BY <2>1, Zenon DEF DeploymentTypes
  <2>3. /\ chain.code \in [Addresses -> Codes \cup {NoCode}]
        /\ chain.nonce \in [Creators -> Nat]
        /\ compiled \in [Codes -> Codes \cup {NoCode}]
        /\ eff \in [Addresses -> Codes \cup {NoCode}]
    BY <2>1 DEF DeploymentTypes, EffType
  <2>4. out \in [Addresses \cup Creators ->
                   [code : Codes \cup {NoCode}, nonce : Nat,
                    deployer : Addresses \cup Creators \cup {Nobody}]]
    BY <2>1 DEF DeploymentTypes, OutType, Account
  <2>5. codeUpdates \subseteq Addresses /\ Len(frames) <= MaxFrames
    BY <2>1 DEF DeploymentTypes
  <2>6. \A i \in DOMAIN frames :
           /\ frames[i].kind \in FrameKinds /\ frames[i].address \in Addresses
           /\ frames[i].code \in Codes /\ frames[i].running \in Codes
    BY <2>1, FrameFacts DEF FrameType
  <2> QED
    BY <2>2, <2>3, <2>4, <2>5, <2>6 DEF DeploymentTypeOK
<1> QED
  BY <1>1, DeploymentInvariant, PTL

(* The Node learns what happened: when a transaction has ended, every account *)
(* has the code that the deployments and upgrades that took effect gave it,   *)
(* although the code updates of failed executions are not taken back.  It is  *)
(* GetVMOutput, mergeVMOutputs and DeleteOutputAccount of the output context   *)
(* that bring it about.                                                       *)
THEOREM OutputIsWhatHappened == DeploymentSpec => []OutputTellsWhatHappened
<1>1. DeploymentInv => OutputTellsWhatHappened
  BY IdleFacts DEF OutputTellsWhatHappened, Idle
<1> QED
  BY <1>1, DeploymentInvariant, PTL

(* Code that a transaction deploys or upgrades, and code that a contract      *)
(* upgrades, has passed VerifyContractCode of the runtime context, whatever   *)
(* the cache of compiled code holds.                                          *)
THEOREM CodeIsVerified == DeploymentSpec => []DeployedIsVerified
<1>1. DeploymentInv => DeployedIsVerified
  <2> SUFFICES ASSUME DeploymentInv PROVE DeployedIsVerified
    OBVIOUS
  <2>1. CASE frames = << >>
    BY <2>1, IdleFacts DEF DeployedIsVerified, Verified
  <2>2. CASE frames # << >>
    <3>1. PICK n, f : n = Len(frames) /\ f = top
      OBVIOUS
    <3>2. Verified(eff)
      BY <2>2, <3>1, LastFrame
    <3> QED
      BY <3>2 DEF DeployedIsVerified, Verified
  <2> QED
    BY <2>1, <2>2
<1> QED
  BY <1>1, DeploymentInvariant, PTL

(* An instance runs the code it was started for, and the cache holds under a  *)
(* hash the compilation of that code (StartWasmerInstance of the runtime      *)
(* context), as long as no account is run after its upgrade in the same       *)
(* transaction.                                                               *)
THEOREM InstancesRunWhatTheyShould == DeploymentSpec => []InstancesRunTheirCode
<1>1. DeploymentInv => InstancesRunTheirCode
  BY DEF DeploymentInv
<1> QED
  BY <1>1, DeploymentInvariant, PTL

LEMMA LastOfAppend ==
    ASSUME NEW fs \in Seq(FrameType), NEW f, frames' = Append(fs, f)
    PROVE  frames'[Len(frames')] = f /\ Len(frames') = Len(fs) + 1
  OBVIOUS

(* Only two actions start a creation. *)
LEMMA OtherStepsCreateNothing ==
    ASSUME DeploymentInv, DeploymentNext, StartsCreation
    PROVE  \E c \in Codes : RunSmartContractCreate(c) \/ CreateNewContract(c)
<1>0. DeploymentTypes /\ frames \in Seq(FrameType)
  BY DEF DeploymentInv, DeploymentTypes
<1>1. ASSUME NEW kind, kind # "create", NEW a, NEW caller, NEW o, NEW fs \in Seq(FrameType),
             NEW e, Start(kind, a, caller, o, fs, e)
      PROVE  FALSE
  <2>1. PICK f : frames' = Append(fs, f) /\ f.kind = kind
    <3>1. PICK c, f : c = GetCode(o, a) /\ f = Frame(kind, a, c, Instance(a, c, FALSE), caller, o, e)
      OBVIOUS
    <3>2. frames' = Append(fs, f)
      BY <1>1, <3>1 DEF Start
    <3>3. f.kind = kind
      BY <3>1 DEF Frame
    <3> QED
      BY <3>2, <3>3
  <2> QED
    BY <1>1, <2>1, LastOfAppend DEF StartsCreation
<1>2. ASSUME NEW a \in Existing, NEW c \in Codes, RunSmartContractUpgrade(a, c) PROVE FALSE
  <2>1. PICK f : f.kind = "upgrade" /\ frames' \in {<< >>, <<f>>}
    <3>1. PICK f : f = Frame("upgrade", a, c, Instance(a, c, TRUE), User, EmptyOutput, eff)
      OBVIOUS
    <3>2. frames' \in {<< >>, <<f>>}
      BY <1>2, <3>1 DEF RunSmartContractUpgrade, performCodeDeployment
    <3>3. f.kind = "upgrade"
      BY <3>1 DEF Frame
    <3> QED
      BY <3>2, <3>3
  <2>2. Len(frames) \in Nat
    BY <1>0
  <2> QED
    BY <2>1, <2>2 DEF StartsCreation
<1>3. ASSUME NEW a \in Addresses, RunSmartContractCall(a) PROVE FALSE
  <2>1. PICK fs \in Seq(FrameType) : fs = << >>
    <3>1. << >> \in Seq(FrameType)
      OBVIOUS
    <3> QED
      BY <3>1
  <2>2. Start("call", a, User, EmptyOutput, fs, eff) /\ "call" # "create"
    BY <1>3, <2>1 DEF RunSmartContractCall
  <2> QED
    BY <1>1, <2>2
<1>4. ASSUME NEW a \in Addresses, Call(a) PROVE FALSE
  <2>1. Start("call", a, self, out, frames, eff) /\ "call" # "create"
    BY <1>4 DEF Call
  <2> QED
    BY <1>0, <1>1, <2>1
<1>5. ASSUME NEW x \in {"run", "callback", "done"}, frames # << >>, Due(x) PROVE FALSE
  <2>1. PICK n : n = Len(frames)
    OBVIOUS
  <2>2. Staying(n)
    BY <1>0, <1>5, <2>1, DueStays
  <2> QED
    BY <2>2 DEF Staying, Kept, StartsCreation
<1>6. ASSUME NEW a \in Existing, NEW c \in Codes, executeUpgrade(a, c) PROVE FALSE
  <2>1. CASE frames' = DueCallback(frames)
    <3>1. Due("callback") /\ frames # << >>
      BY <1>6, <2>1 DEF Due, WithNext, DueCallback, executeUpgrade, Running
    <3> QED
      BY <1>5, <3>1
  <2>2. CASE frames' # DueCallback(frames)
    <3>1. PICK f : frames' = Append(frames, f) /\ f.kind = "upgrade"
      <4>1. PICK f : f = Frame("upgrade", a, c, Instance(a, c, TRUE), self, out, eff)
        OBVIOUS
      <4>2. frames' = Append(frames, f)
        BY <1>6, <2>2, <4>1 DEF executeUpgrade
      <4>3. f.kind = "upgrade"
        BY <4>1 DEF Frame
      <4> QED
        BY <4>2, <4>3
    <3> QED
      BY <1>0, <3>1, LastOfAppend DEF StartsCreation
  <2> QED
    BY <2>1, <2>2
<1>7. ASSUME NEW a \in Existing, UpgradeRefused(a) PROVE FALSE
  <2>1. Due("callback") /\ frames # << >>
    BY <1>7 DEF Due, WithNext, DueCallback, UpgradeRefused, Running
  <2> QED
    BY <1>5, <2>1
<1>8. ASSUME CallBack PROVE FALSE
  <2>1. PICK hs \in Seq(FrameType) : hs = frames
    BY <1>0
  <2>2. PICK x \in {"run", "callback", "done"} : x = "done"
    OBVIOUS
  <2>3. PICK fs : fs = WithNext(hs, x)
    OBVIOUS
  <2>4. fs \in Seq(FrameType)
    <3>1. hs # << >>
      BY <1>8, <2>1 DEF CallBack
    <3> QED
      BY <2>3, <3>1, DueNext
  <2>5. Start("callback", self, self, out, fs, eff) /\ "callback" # "create"
    BY <1>8, <2>1, <2>2, <2>3 DEF CallBack, AfterCallback, WithNext
  <2> QED
    BY <1>1, <2>4, <2>5
<1>9. ASSUME CallBackFindsNoCode PROVE FALSE
  <2>1. Due("done") /\ frames # << >>
    BY <1>9 DEF Due, WithNext, AfterCallback, CallBackFindsNoCode
  <2> QED
    BY <1>5, <2>1
<1>10. ASSUME Len(frames) > 1, Resume(top.kind) PROVE FALSE
  <2>1. PICK n, kind : n = Len(frames) /\ kind = top.kind
    OBVIOUS
  <2>2. Popping(n)
    BY <1>0, <1>10, <2>1, Popped
  <2>3. Len(frames) = n /\ Len(frames') = n - 1 /\ n - 1 \in Nat
    BY <2>2 DEF Popping, Kept
  <2> QED
    BY <2>3 DEF StartsCreation
<1>11. ASSUME ReturnNested \/ FailNested PROVE FALSE
  BY <1>10, <1>11 DEF ReturnNested, FailNested
<1>12. ASSUME ReturnTransaction \/ FailTransaction PROVE FALSE
  <2>1. frames' = << >> /\ Len(frames) \in Nat
    BY <1>0, <1>12 DEF ReturnTransaction, FailTransaction, InitState
  <2> QED
    BY <2>1 DEF StartsCreation
<1>13. ASSUME NEW h \in Codes, EvictCompiledCode(h) PROVE FALSE
  <2>1. frames' = frames /\ Len(frames) \in Nat
    BY <1>0, <1>13 DEF EvictCompiledCode
  <2> QED
    BY <2>1 DEF StartsCreation
<1> QED
  BY <1>2, <1>3, <1>4, <1>6, <1>7, <1>8, <1>9, <1>11, <1>12, <1>13 DEF DeploymentNext

(* A contract is created (CreateNewContract, RunSmartContractCreate) at an    *)
(* address without code, because the nonce of its creator has passed the      *)
(* addresses of all that it created; the one exception is a creation inside   *)
(* the creation of the same address.                                          *)
THEOREM CreationsAreFresh == DeploymentSpec => CreatedAtFreshAddress
<1> DEFINE Fresh == \/ eff[NewContract] = NoCode
                    \/ \E i \in DOMAIN frames : /\ frames[i].kind = "create"
                                                /\ frames[i].address = NewContract
<1>1. ASSUME DeploymentInv, DeploymentNext, StartsCreation PROVE Fresh
  <2>0. DeploymentTypes /\ frames \in Seq(FrameType)
    BY <1>1 DEF DeploymentInv, DeploymentTypes
  <2>1. ASSUME NEW c \in Codes, RunSmartContractCreate(c) PROVE Fresh
    <3>1. frames = << >>
      BY <2>1 DEF RunSmartContractCreate, BeginTransaction, Idle
    <3>2. NoncesPassed(EmptyOutput, eff, {})
      BY <1>1, <3>1, IdleFacts
    <3>3. PICK k : k = chain.nonce[User]
      OBVIOUS
    <3>4. User \in Creators /\ k \in Nat /\ k \in DOMAIN NewAddressOf[User]
      BY <2>0, <2>1, <3>3, DeploymentAssumption
      DEF DeploymentTypes, RunSmartContractCreate, HasNewAddress
    <3>5. [chain EXCEPT !.nonce[User] = @ + 1].nonce[User] = k + 1
      BY <2>0, <3>3, <3>4 DEF DeploymentTypes
    <3>6. NewAddress(User, k + 1) = NewAddressOf[User][k]
      BY <3>4 DEF NewAddress
    <3>7. PICK f : frames' \in {<< >>, <<f>>} /\ f.address = NewAddressOf[User][k]
      <4>1. PICK a : a = NewAddressOf[User][k]
        OBVIOUS
      <4>2. PICK f : f = Frame("create", a, c, Instance(a, c, TRUE), User, EmptyOutput, eff)
        OBVIOUS
      <4>3. performCodeDeployment("create", a, c)
        BY <2>1, <3>5, <3>6, <4>1 DEF RunSmartContractCreate
      <4>4. frames' \in {<< >>, <<f>>}
        BY <4>2, <4>3 DEF performCodeDeployment
      <4>5. f.address = a
        BY <4>2 DEF Frame
      <4> QED
        BY <4>1, <4>4, <4>5
    <3>8. frames' # << >>
      BY <1>1, <3>1 DEF StartsCreation
    <3>9. NewContract = NewAddressOf[User][k]
      BY <3>7, <3>8 DEF NewContract
    <3>10. GetNonce(EmptyOutput, User) = k
      BY <3>3, <3>4, EmptyOutputs DEF GetNonce
    <3>11. eff[NewAddressOf[User][k]] # NoCode => k < k
      BY <3>2, <3>4, <3>10 DEF NoncesPassed
    <3> QED
      BY <3>4, <3>9, <3>11
  <2>2. ASSUME NEW c \in Codes, CreateNewContract(c) PROVE Fresh
    <3>1. frames # << >>
      BY <2>2 DEF CreateNewContract, Running
    <3>2. PICK k, s, n, g : k = GetNonce(out, self) /\ s = self /\ n = Len(frames) /\ g = top
      OBVIOUS
    <3>3. /\ s \in Creators /\ k \in DOMAIN NewAddressOf[s] /\ k \in Nat
          /\ NewAddress(s, k) = NewAddressOf[s][k] /\ NewAddressOf[s][k] \in Addresses
      BY <2>0, <2>2, <3>1, <3>2, NewContractAddress DEF CreateNewContract
    <3>4. /\ NoncesPassed(out, eff, Making(n + 1)) /\ n \in Nat /\ DOMAIN frames = 1 .. n
      BY <1>1, <3>1, <3>2, LastFrame
    <3>5. PICK f : frames' = Append(frames, f) /\ f.address = NewAddressOf[s][k]
      <4>1. PICK a, o : a = NewAddress(self, GetNonce(out, self)) /\ o = DeployCode(out, a, c, self)
        OBVIOUS
      <4>2. PICK f : f = Frame("create", a, c, Instance(a, c, FALSE), self, o, eff)
        OBVIOUS
      <4>3. frames' = Append(frames, f)
        BY <2>2, <4>1, <4>2 DEF CreateNewContract
      <4>4. f.address = a
        BY <4>2 DEF Frame
      <4> QED
        BY <3>2, <3>3, <4>1, <4>3, <4>4
    <3>6. NewContract = NewAddressOf[s][k]
      BY <2>0, <3>5, LastOfAppend DEF NewContract
    <3>7. eff[NewContract] # NoCode => NewContract \in Making(n + 1)
      BY <3>2, <3>3, <3>4, <3>6 DEF NoncesPassed
    <3>8. (n + 1) - 1 = n
      BY <3>4
    <3> QED
      BY <3>4, <3>7, <3>8 DEF Making
  <2> QED
    BY <1>1, <2>1, <2>2, OtherStepsCreateNothing
<1>2. DeploymentInv /\ [DeploymentNext]_vars => [StartsCreation => Fresh]_vars
  BY <1>1
<1>3. DeploymentInv /\ [DeploymentNext]_vars
         => [StartsCreation =>
               \/ eff[NewContract] = NoCode
               \/ \E i \in DOMAIN frames : /\ frames[i].kind = "create"
                                           /\ frames[i].address = NewContract]_vars
  BY <1>2
<1> QED
  BY <1>3, DeploymentInvariant, PTL DEF DeploymentSpec, CreatedAtFreshAddress
=============================================================================
