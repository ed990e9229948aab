------------------------------ MODULE MachineProofs ------------------------------
(***************************************************************************)
(* Theorems about Machine: code that is level keeps the four stacks in     *)
(* step, on every path, through every call and every error.                *)
(***************************************************************************)
EXTENDS Machine, TLAPS, SequenceTheorems, WellFoundedInduction

-------------------------------------------------------------------------------
(* What a plan says of one instruction.                                    *)

LEMMA ViewFacts ==
  ASSUME NEW c, NEW p, IsPlan(c, p), NEW i \in DOMAIN p
  PROVE  /\ i \in DOMAIN c.code /\ i \in Nat /\ i # 0
         /\ p[i] \in Views(c) /\ p[i].height \in Nat /\ p[i].scopes \in Nat /\ p[i].catch \in Nat
         /\ Low(p, p[i]) \in Nat /\ Low(p, p[i]) <= p[i].height
         /\ LowScopes(p, p[i]) \in Nat /\ LowScopes(p, p[i]) <= p[i].scopes
         /\ Kept(c, p, p[i]) /\ Fits(c, p, i)
<1>1. /\ i \in DOMAIN c.code /\ i \in Nat /\ i # 0 /\ DOMAIN c.code \subseteq Nat
      /\ p[i] \in Views(c) /\ Kept(c, p, p[i]) /\ Fits(c, p, i)
      /\ p[i].height >= Low(p, p[i]) /\ p[i].scopes >= LowScopes(p, p[i])
  BY DEF IsPlan
<1>2. p[i].height \in Nat /\ p[i].scopes \in Nat /\ p[i].catch \in Nat
  BY <1>1 DEF Views
<1>3. p[i].catch # 0 => /\ p[p[i].catch].height \in Nat /\ p[p[i].catch].scopes \in Nat
                        /\ p[p[i].catch].height > 0
  <2>. SUFFICES ASSUME p[i].catch # 0 
                PROVE  /\ p[p[i].catch].height \in Nat /\ p[p[i].catch].scopes \in Nat
                       /\ p[p[i].catch].height > 0
    OBVIOUS
  <2>1. p[i].catch \in DOMAIN p /\ p[p[i].catch].height > 0
    BY <1>1 DEF Kept
  <2>2. p[p[i].catch] \in Views(c)
    BY <2>1 DEF IsPlan
  <2>. QED  BY <2>1, <2>2 DEF Views
<1>4. Low(p, p[i]) \in Nat /\ LowScopes(p, p[i]) \in Nat
  BY <1>2, <1>3 DEF Low, LowScopes
<1>. QED  BY <1>1, <1>2, <1>4

LEMMA Follow ==
  ASSUME NEW c, NEW p, IsPlan(c, p), NEW i \in DOMAIN p, c.code[i][1] # "catch", NEW j \in Follows(c, i)
  PROVE  j \in DOMAIN p /\ p[j] = Moved(c, i, p[i])
<1>1. <<j, Moved(c, i, p[i])>> \in Steps(c, i, p[i])
  BY DEF Steps
<1>2. \A s \in Steps(c, i, p[i]) : s[1] \in DOMAIN p /\ p[s[1]] = s[2]
  BY DEF IsPlan
<1>. QED  BY <1>1, <1>2

(* An instruction that goes on to the next and changes the height alone.   *)
Plain == {"push", "push_from_stack", "pop", "pop_to_stack", "chew_top", "bind_var", "resolve_sym",
          "add", "subtract", "multiply", "divide", "num_eq", "call"}
LEMMA PlainStep ==
  ASSUME NEW c, NEW p, IsPlan(c, p), NEW i \in DOMAIN p,
         c.code[i][1] \in Plain, c.code[i][1] = "divide" => c.code[i][2] # 0
  PROVE  i + 1 \in DOMAIN p /\ p[i + 1] = [p[i] EXCEPT !.height = @ + Rise(c, i)]
<1>1. i + 1 \in Follows(c, i)
  BY DEF Follows, Plain
<1>2. Moved(c, i, p[i]) = [p[i] EXCEPT !.height = @ + Rise(c, i)]
  BY DEF Moved, Plain
<1>. QED  BY <1>1, <1>2, Follow DEF Plain

LEMMA JumpStep ==
  ASSUME NEW c, NEW p, IsPlan(c, p), NEW i \in DOMAIN p,
         c.code[i][1] \in {"go", "go_if_nil", "go_if_not_nil"},
         NEW j, j = Place(c, c.code[i][2]) \/ (c.code[i][1] # "go" /\ j = i + 1)
  PROVE  j \in DOMAIN p /\ p[j] = [p[i] EXCEPT !.height = @ + IF c.code[i][1] = "go" THEN 0 ELSE -1]
<1>1. j \in Follows(c, i)
  BY DEF Follows
<1>2. Moved(c, i, p[i]) = [p[i] EXCEPT !.height = @ + IF c.code[i][1] = "go" THEN 0 ELSE -1]
  BY DEF Moved, Rise
<1>. QED  BY <1>1, <1>2, Follow

LEMMA ScopeStep ==
  ASSUME NEW c, NEW p, IsPlan(c, p), NEW i \in DOMAIN p,
         c.code[i][1] \in {"push_lex_context", "pop_lex_context", "save_stackoff", "restore_stackoff", "pop_catch"}
  PROVE  i + 1 \in DOMAIN p /\ p[i + 1] = Moved(c, i, p[i])
<1>1. i + 1 \in Follows(c, i)
  BY DEF Follows
<1>. QED  BY <1>1, Follow

(* A catch goes on behind the jump, or to where that jumps.                *)
LEMMA CatchStep ==
  ASSUME NEW c, NEW p, IsPlan(c, p), NEW i \in DOMAIN p, c.code[i][1] = "catch"
  PROVE  /\ i + 1 \notin DOMAIN p /\ i + 1 \in DOMAIN c.code /\ c.code[i + 1][1] = "go_if_not_nil"
         /\ p[i].catch = 0 /\ p[i].height > 0
         /\ i + 2 \in DOMAIN p /\ p[i + 2].catch = i /\ p[i + 2].height = p[i].height - 1
         /\ p[i + 2].scopes = p[i].scopes /\ p[i + 2].saved = p[i].saved
         /\ \A j : j = Place(c, c.code[i + 1][2]) => j \in DOMAIN p /\ p[j] = p[i]
<1>1. Steps(c, i, p[i]) =
        {<<i + 2, [Entered(p[i], i) EXCEPT !.height = @ - 1]>>, <<Place(c, c.code[i + 1][2]), p[i]>>}
  BY DEF Steps
<1>2. \A s \in Steps(c, i, p[i]) : s[1] \in DOMAIN p /\ p[s[1]] = s[2]
  BY DEF IsPlan
<1>3. Fits(c, p, i) /\ p[i].height \in Nat /\ Low(p, p[i]) \in Nat /\ p[i] \in Views(c)
  BY ViewFacts
<1>4. PICK u : u = [Entered(p[i], i) EXCEPT !.height = @ - 1]
  OBVIOUS
<1>5. u.catch = i /\ u.height = p[i].height - 1 /\ u.scopes = p[i].scopes /\ u.saved = p[i].saved
  BY <1>3, <1>4 DEF Entered, Views
<1>6. i + 2 \in DOMAIN p /\ p[i + 2] = u
  BY <1>1, <1>2, <1>4
<1>7. \A j : j = Place(c, c.code[i + 1][2]) => j \in DOMAIN p /\ p[j] = p[i]
  BY <1>1, <1>2
<1>. QED  BY <1>3, <1>5, <1>6, <1>7 DEF Fits

-------------------------------------------------------------------------------
(* Frames and traps as numbers: a frame's values start at base, its result *)
(* will be put above back, low and lows are what an active catch form      *)
(* keeps, own is the level of contexts it was entered with.                *)

IsSeq(s) == \E S : s \in Seq(S)

Pictures == [base : Int, back : Int, low : Int, own : Nat \ {0}, lows : Nat, catch : Nat,
             kind : {"call", "eval", "repl"}]
Stacked(P) ==
  /\ P \in Seq(Pictures)
  /\ \A j \in 1 .. Len(P) : /\ P[j].back <= P[j].base /\ P[j].base <= P[j].low /\ P[j].own <= P[j].lows
                            /\ P[j].kind = "repl" <=> j = 1
  /\ Len(P) > 0 => P[1].base = 0 /\ P[1].back = 0 /\ P[1].own = 1
  /\ \A i, j \in 1 .. Len(P) : i < j => P[i].low <= P[j].back /\ P[i].lows <= P[j].own

Key(t) == 2 * t.frame + IF t.owner = "catch" THEN 1 ELSE 0
TrapFits(t, P) ==
  /\ t.live = TRUE
  /\ \/ t.owner = "main" /\ t.frame = 0 /\ t.lvl = 1 /\ t.off \in 0 .. 1 /\ t.catcher = Nil
     \/ /\ t.owner = "eval" /\ t.frame \in 2 .. Len(P) /\ P[t.frame].kind = "eval"
        /\ t.lvl = P[t.frame].own /\ t.off = P[t.frame].base + 1
     \/ /\ t.owner = "catch" /\ t.frame \in 1 .. Len(P)
        /\ t.at = P[t.frame].catch /\ t.at # 0
        /\ t.off = P[t.frame].low /\ t.lvl = P[t.frame].lows
Increasing(ts) == \A i, j \in 1 .. Len(ts) : i < j => Key(ts[i]) < Key(ts[j])
HasKey(ts, k) == \E i \in 1 .. Len(ts) : Key(ts[i]) = k
TrapsFit(P, ts) ==
  /\ IsSeq(ts) /\ Increasing(ts)
  /\ \A i \in 1 .. Len(ts) : TrapFits(ts[i], P)
  /\ \A j \in 1 .. Len(P) : /\ P[j].kind = "eval" => HasKey(ts, 2 * j)
                            /\ P[j].catch # 0 => HasKey(ts, 2 * j + 1)
  /\ Len(ts) > 0 /\ ts[1].owner = "main"
Good(P, ts) == Stacked(P) /\ TrapsFit(P, ts)

(* Sequences without a set of their elements.                              *)
LEMMA SeqFacts ==
  ASSUME NEW s, IsSeq(s)
  PROVE  /\ Len(s) \in Nat /\ DOMAIN s = 1 .. Len(s)
         /\ \A x : /\ IsSeq(Append(s, x)) /\ Len(Append(s, x)) = Len(s) + 1
                  /\ Append(s, x)[Len(s) + 1] = x
                  /\ \A i \in 1 .. Len(s) : Append(s, x)[i] = s[i]
         /\ \A n \in 0 .. Len(s) : /\ IsSeq(SubSeq(s, 1, n)) /\ Len(SubSeq(s, 1, n)) = n
                                   /\ \A i \in 1 .. n : SubSeq(s, 1, n)[i] = s[i]
         /\ s = [i \in DOMAIN s |-> s[i]]
<1>. PICK S : s \in Seq(S)
  BY DEF IsSeq
<1>1. Len(s) \in Nat /\ DOMAIN s = 1 .. Len(s) /\ \A i \in 1 .. Len(s) : s[i] \in S
  OBVIOUS
<1>2. ASSUME NEW x
      PROVE  /\ IsSeq(Append(s, x)) /\ Len(Append(s, x)) = Len(s) + 1
             /\ Append(s, x)[Len(s) + 1] = x
             /\ \A i \in 1 .. Len(s) : Append(s, x)[i] = s[i]
  <2>1. s \in Seq(S \cup {x}) /\ x \in S \cup {x}
    BY <1>1
  <2>2. /\ Append(s, x) \in Seq(S \cup {x}) /\ Len(Append(s, x)) = Len(s) + 1
        /\ Append(s, x)[Len(s) + 1] = x
        /\ \A i \in 1 .. Len(s) : Append(s, x)[i] = s[i]
    BY <2>1
  <2>. QED  BY <2>2 DEF IsSeq
<1>3. ASSUME NEW n \in 0 .. Len(s)
      PROVE  /\ IsSeq(SubSeq(s, 1, n)) /\ Len(SubSeq(s, 1, n)) = n
             /\ \A i \in 1 .. n : SubSeq(s, 1, n)[i] = s[i]
  <2>1. /\ SubSeq(s, 1, n) \in Seq(S) /\ Len(SubSeq(s, 1, n)) = n
        /\ \A i \in 1 .. n : SubSeq(s, 1, n)[i] = s[i]
    BY <1>1
  <2>. QED  BY <2>1 DEF IsSeq
<1>4. s = [i \in DOMAIN s |-> s[i]]
  BY <1>1
<1>. QED  BY <1>1, <1>2, <1>3, <1>4

(* The order of the traps.                                                 *)
LEMMA KeyFacts ==
  ASSUME NEW P, NEW ts, Good(P, ts), NEW i \in 1 .. Len(ts)
  PROVE  /\ ts[i].frame \in 0 .. Len(P) /\ Key(ts[i]) \in Nat
         /\ ts[i].owner \in {"main", "eval", "catch"}
         /\ ts[i].owner = "main" => Key(ts[i]) = 0 /\ i = 1
         /\ ts[i].owner = "eval" => Key(ts[i]) = 2 * ts[i].frame /\ ts[i].frame > 1
         /\ ts[i].owner = "catch" => Key(ts[i]) = 2 * ts[i].frame + 1 /\ ts[i].frame > 0
         /\ \A k \in 1 .. Len(ts) : Key(ts[k]) < Key(ts[i]) => k < i
         /\ \A k \in 1 .. Len(ts) : Key(ts[k]) = Key(ts[i]) => k = i
<1>1. Len(P) \in Nat /\ Len(ts) \in Nat
  BY SeqFacts DEF Good, Stacked, TrapsFit
<1>2. ASSUME NEW k \in 1 .. Len(ts)
      PROVE  /\ ts[k].frame \in 0 .. Len(P) /\ Key(ts[k]) \in Nat
             /\ ts[k].owner \in {"main", "eval", "catch"}
             /\ ts[k].owner = "main" => Key(ts[k]) = 0
             /\ ts[k].owner = "eval" => Key(ts[k]) = 2 * ts[k].frame /\ ts[k].frame > 1
             /\ ts[k].owner = "catch" => Key(ts[k]) = 2 * ts[k].frame + 1 /\ ts[k].frame > 0
  <2>1. TrapFits(ts[k], P)
    BY DEF Good, TrapsFit
  <2>. QED  BY <1>1, <2>1 DEF TrapFits, Key
<1>3. \A k, l \in 1 .. Len(ts) : k < l => Key(ts[k]) < Key(ts[l])
  BY DEF Good, TrapsFit, Increasing
<1>4. \A k \in 1 .. Len(ts) : Key(ts[k]) \in Nat
  BY <1>2
<1>5. ts[i].owner = "main" => i = 1
  <2>. SUFFICES ASSUME ts[i].owner = "main", i # 1 PROVE FALSE
    OBVIOUS
  <2>1. 1 \in 1 .. Len(ts) /\ 1 < i
    BY <1>1
  <2>2. Key(ts[1]) < Key(ts[i])
    BY <2>1, <1>3
  <2>. QED  BY <2>1, <2>2, <1>2, <1>4
<1>6. \A k \in 1 .. Len(ts) : Key(ts[k]) < Key(ts[i]) => k < i
  <2>. SUFFICES ASSUME NEW k \in 1 .. Len(ts), Key(ts[k]) < Key(ts[i]), ~(k < i) PROVE FALSE
    OBVIOUS
  <2>1. k = i \/ i < k
    BY <1>1
  <2>. QED  BY <2>1, <1>3, <1>4
<1>7. \A k \in 1 .. Len(ts) : Key(ts[k]) = Key(ts[i]) => k = i
  <2>. SUFFICES ASSUME NEW k \in 1 .. Len(ts), Key(ts[k]) = Key(ts[i]), k # i PROVE FALSE
    OBVIOUS
  <2>1. k < i \/ i < k
    BY <1>1
  <2>. QED  BY <2>1, <1>3, <1>4
<1>. QED  BY <1>2, <1>5, <1>6, <1>7

(* The last trap belongs to the running chunk, if that has one.            *)
LEMMA LastTrap ==
  ASSUME NEW P, NEW ts, Good(P, ts), Len(P) > 0,
         P[Len(P)].catch # 0 \/ P[Len(P)].kind = "eval"
  PROVE  LET t == ts[Len(ts)] IN
         /\ Len(ts) \in 1 .. Len(ts) /\ t.frame = Len(P)
         /\ t.owner = IF P[Len(P)].catch # 0 THEN "catch" ELSE "eval"
<1>1. Len(P) \in 1 .. Len(P) /\ Len(ts) \in Nat /\ Len(ts) \in 1 .. Len(ts)
  BY SeqFacts DEF Good, Stacked, TrapsFit
<1>. DEFINE k == IF P[Len(P)].catch # 0 THEN 2 * Len(P) + 1 ELSE 2 * Len(P)
<1>2. HasKey(ts, k)
  BY <1>1 DEF Good, TrapsFit
<1>3. PICK i \in 1 .. Len(ts) : Key(ts[i]) = k
  BY <1>2 DEF HasKey
<1>4. ts[i].frame = Len(P) /\ ts[i].owner = IF P[Len(P)].catch # 0 THEN "catch" ELSE "eval"
  BY <1>1, <1>3, KeyFacts
<1>5. i = Len(ts)
  <2>. SUFFICES ASSUME i # Len(ts) PROVE FALSE
    OBVIOUS
  <2>. DEFINE t == ts[Len(ts)]
  <2>1. k < Key(t)
    BY <1>1, <1>3 DEF Good, TrapsFit, Increasing
  <2>2. t.owner = "catch" /\ t.frame = Len(P) /\ P[Len(P)].catch = 0
    BY <2>1, <1>1, KeyFacts
  <2>3. TrapFits(t, P)
    BY <1>1 DEF Good, TrapsFit
  <2>. QED  BY <2>2, <2>3 DEF TrapFits
<1>. QED  BY <1>1, <1>4, <1>5

-------------------------------------------------------------------------------
(* What an instruction does to the pictures and the traps.                 *)

(* The order of the frames, and of what they keep.                         *)
LEMMA FrameFacts ==
  ASSUME NEW P, Stacked(P)
  PROVE  /\ Len(P) \in Nat /\ DOMAIN P = 1 .. Len(P)
         /\ \A j \in 1 .. Len(P) :
              /\ P[j] \in Pictures /\ P[j].base \in Int /\ P[j].back \in Int /\ P[j].low \in Int
              /\ P[j].own \in Nat /\ P[j].own > 0 /\ P[j].lows \in Nat /\ P[j].catch \in Nat
              /\ P[j].back <= P[j].base /\ P[j].base <= P[j].low /\ P[j].own <= P[j].lows
              /\ P[j].back >= 0
         /\ \A i, j \in 1 .. Len(P) :
              i <= j => /\ P[i].back <= P[j].back /\ P[i].low <= P[j].low
                        /\ P[i].own <= P[j].own /\ P[i].lows <= P[j].lows
<1>1. /\ Len(P) \in Nat /\ DOMAIN P = 1 .. Len(P)
      /\ \A j \in 1 .. Len(P) : P[j] \in Pictures
  BY DEF Stacked
<1>2. \A j \in 1 .. Len(P) :
        /\ P[j].base \in Int /\ P[j].back \in Int /\ P[j].low \in Int
        /\ P[j].own \in Nat /\ P[j].own > 0 /\ P[j].lows \in Nat /\ P[j].catch \in Nat
  BY <1>1 DEF Pictures
<1>3. \A j \in 1 .. Len(P) : P[j].back <= P[j].base /\ P[j].base <= P[j].low /\ P[j].own <= P[j].lows
  BY DEF Stacked
<1>4. \A i, j \in 1 .. Len(P) : i < j => P[i].low <= P[j].back /\ P[i].lows <= P[j].own
  BY DEF Stacked
<1>5. ASSUME NEW i \in 1 .. Len(P), NEW j \in 1 .. Len(P), i <= j
      PROVE  /\ P[i].back <= P[j].back /\ P[i].low <= P[j].low
             /\ P[i].own <= P[j].own /\ P[i].lows <= P[j].lows
  <2>1. CASE i = j
    BY <2>1, <1>2
  <2>2. CASE i < j
    <3>1. P[i].low <= P[j].back /\ P[i].lows <= P[j].own
      BY <2>2, <1>4
    <3>2. /\ P[i].back <= P[i].base /\ P[i].base <= P[i].low /\ P[i].own <= P[i].lows
          /\ P[j].back <= P[j].base /\ P[j].base <= P[j].low /\ P[j].own <= P[j].lows
      BY <1>3
    <3>3. /\ P[i].back \in Int /\ P[i].base \in Int /\ P[i].low \in Int /\ P[i].own \in Int /\ P[i].lows \in Int
          /\ P[j].back \in Int /\ P[j].base \in Int /\ P[j].low \in Int /\ P[j].own \in Int /\ P[j].lows \in Int
      BY <1>2
    <3>4. P[i].back <= P[j].back
      BY <3>1, <3>2, <3>3
    <3>5. P[i].low <= P[j].low
      BY <3>1, <3>2, <3>3
    <3>6. P[i].own <= P[j].own
      BY <3>1, <3>2, <3>3
    <3>7. P[i].lows <= P[j].lows
      BY <3>1, <3>2, <3>3
    <3>. QED  BY <3>4, <3>5, <3>6, <3>7
  <2>. QED  BY <1>1, <1>5, <2>1, <2>2
<1>6. ASSUME NEW j \in 1 .. Len(P) PROVE P[j].back >= 0
  <2>1. 1 \in 1 .. Len(P) /\ 1 <= j /\ P[1].back = 0
    BY <1>1 DEF Stacked
  <2>. QED  BY <2>1, <1>2, <1>5
<1>. QED  BY <1>1, <1>2, <1>3, <1>5, <1>6

(* The first n frames.                                                     *)
Cut(P, n) == [j \in 1 .. n |-> P[j]]
LEMMA CutFrames ==
  ASSUME NEW P, Stacked(P), NEW n \in 0 .. Len(P)
  PROVE  Stacked(Cut(P, n)) /\ Len(Cut(P, n)) = n
<1>1. Cut(P, n) \in Seq(Pictures) /\ Len(Cut(P, n)) = n /\ \A j \in 1 .. n : Cut(P, n)[j] = P[j]
  BY FrameFacts DEF Cut
<1>2. \A j \in 1 .. n : j \in 1 .. Len(P)
  BY FrameFacts
<1>. QED  BY <1>1, <1>2 DEF Stacked

(* The last frame with another catch form, or with none.                   *)
Catching(P, k, low, lows) ==
  [P EXCEPT ![Len(P)] = [P[Len(P)] EXCEPT !.catch = k, !.low = low, !.lows = lows]]
Calm(P) == Catching(P, 0, P[Len(P)].base, P[Len(P)].own)
LEMMA CatchingFrames ==
  ASSUME NEW P, Stacked(P), Len(P) > 0, NEW k \in Nat, NEW low \in Int, NEW lows \in Nat,
         P[Len(P)].base <= low, P[Len(P)].own <= lows
  PROVE  LET Q == Catching(P, k, low, lows) IN
         /\ Stacked(Q) /\ Len(Q) = Len(P)
         /\ \A j \in 1 .. Len(P) : /\ j # Len(P) => Q[j] = P[j]
                                   /\ Q[j].kind = P[j].kind /\ Q[j].base = P[j].base
                                   /\ Q[j].own = P[j].own /\ Q[j].back = P[j].back
         /\ Q[Len(P)].catch = k /\ Q[Len(P)].low = low /\ Q[Len(P)].lows = lows
<1>. DEFINE Q == Catching(P, k, low, lows)
<1>1. Len(P) \in 1 .. Len(P) /\ Len(P) \in Nat /\ \A j \in 1 .. Len(P) : P[j] \in Pictures
  BY FrameFacts
<1>2. Q \in Seq(Pictures) /\ Len(Q) = Len(P)
  <2>1. [P[Len(P)] EXCEPT !.catch = k, !.low = low, !.lows = lows] \in Pictures
    BY <1>1 DEF Pictures
  <2>2. P \in Seq(Pictures)
    BY DEF Stacked
  <2>. QED  BY <2>1, <2>2, <1>1 DEF Catching
<1>3. \A j \in 1 .. Len(P) : j # Len(P) => Q[j] = P[j]
  BY FrameFacts DEF Catching
<1>4. Q[Len(P)] = [P[Len(P)] EXCEPT !.catch = k, !.low = low, !.lows = lows]
  BY <1>1, FrameFacts DEF Catching
<1>5. /\ Q[Len(P)].catch = k /\ Q[Len(P)].low = low /\ Q[Len(P)].lows = lows
      /\ Q[Len(P)].kind = P[Len(P)].kind /\ Q[Len(P)].base = P[Len(P)].base
      /\ Q[Len(P)].own = P[Len(P)].own /\ Q[Len(P)].back = P[Len(P)].back
  <2>1. P[Len(P)] \in Pictures
    BY <1>1
  <2>. QED  BY <2>1, <1>4 DEF Pictures
<1>6. \A j \in 1 .. Len(P) : /\ Q[j].kind = P[j].kind /\ Q[j].base = P[j].base
                             /\ Q[j].own = P[j].own /\ Q[j].back = P[j].back
  BY <1>3, <1>5
<1>7. Stacked(Q)
  <2>1. \A j \in 1 .. Len(Q) : /\ Q[j].back <= Q[j].base /\ Q[j].base <= Q[j].low /\ Q[j].own <= Q[j].lows
                               /\ Q[j].kind = "repl" <=> j = 1
    <3>. SUFFICES ASSUME NEW j \in 1 .. Len(P)
                  PROVE  /\ Q[j].back <= Q[j].base /\ Q[j].base <= Q[j].low /\ Q[j].own <= Q[j].lows
                         /\ Q[j].kind = "repl" <=> j = 1
      BY <1>2
    <3>1. P[j].back <= P[j].base /\ P[j].base <= P[j].low /\ P[j].own <= P[j].lows
          /\ (P[j].kind = "repl" <=> j = 1)
      BY DEF Stacked
    <3>. QED  BY <3>1, <1>3, <1>5, <1>6
  <2>2. \A i, j \in 1 .. Len(Q) : i < j => Q[i].low <= Q[j].back /\ Q[i].lows <= Q[j].own
    <3>. SUFFICES ASSUME NEW i \in 1 .. Len(P), NEW j \in 1 .. Len(P), i < j
                  PROVE  Q[i].low <= Q[j].back /\ Q[i].lows <= Q[j].own
      BY <1>2
    <3>1. P[i].low <= P[j].back /\ P[i].lows <= P[j].own
      BY DEF Stacked
    <3>2. i # Len(P)
      BY <1>1
    <3>. QED  BY <3>1, <3>2, <1>3, <1>6
  <2>3. Len(Q) > 0 => Q[1].base = 0 /\ Q[1].back = 0 /\ Q[1].own = 1
    <3>1. 1 \in 1 .. Len(P) /\ P[1].base = 0 /\ P[1].back = 0 /\ P[1].own = 1
      BY <1>1 DEF Stacked
    <3>. QED  BY <3>1, <1>6
  <2>. HIDE DEF Q
  <2>. QED  BY <1>2, <2>1, <2>2, <2>3 DEF Stacked
<1>. QED  BY <1>2, <1>3, <1>5, <1>6, <1>7

(* A frame more.                                                           *)
LEMMA PushFrame ==
  ASSUME NEW P, Stacked(P), NEW q \in Pictures,
         q.back <= q.base, q.base <= q.low, q.own <= q.lows, q.kind = "repl" <=> Len(P) = 0,
         IF Len(P) = 0 THEN q.base = 0 /\ q.back = 0 /\ q.own = 1
                       ELSE P[Len(P)].low <= q.back /\ P[Len(P)].lows <= q.own
  PROVE  /\ Stacked(Append(P, q)) /\ Len(Append(P, q)) = Len(P) + 1
         /\ Append(P, q)[Len(P) + 1] = q /\ \A j \in 1 .. Len(P) : Append(P, q)[j] = P[j]
<1>. DEFINE Q == Append(P, q)
<1>1. Len(P) \in Nat /\ P \in Seq(Pictures)
  BY FrameFacts DEF Stacked
<1>2. /\ Q \in Seq(Pictures) /\ Len(Q) = Len(P) + 1 /\ Q[Len(P) + 1] = q
      /\ \A j \in 1 .. Len(P) : Q[j] = P[j]
  BY <1>1
<1>3. q.back \in Int /\ q.base \in Int /\ q.low \in Int /\ q.own \in Nat /\ q.lows \in Nat
  BY DEF Pictures
<1>. HIDE DEF Q
<1>4. ASSUME NEW i \in 1 .. Len(Q), NEW j \in 1 .. Len(Q), i < j
      PROVE  Q[i].low <= Q[j].back /\ Q[i].lows <= Q[j].own
  <2>1. CASE j = Len(P) + 1
    <3>1. i \in 1 .. Len(P) /\ Len(P) \in 1 .. Len(P) /\ i <= Len(P) /\ Len(P) # 0
      BY <1>1, <1>2, <1>4, <2>1
    <3>2. P[i].low <= P[Len(P)].low /\ P[i].lows <= P[Len(P)].lows
      BY <3>1, FrameFacts
    <3>3. P[i].low \in Int /\ P[Len(P)].low \in Int /\ P[i].lows \in Int /\ P[Len(P)].lows \in Int
      BY <3>1, FrameFacts
    <3>. QED  BY <3>1, <3>2, <3>3, <2>1, <1>2, <1>3, SMTT(20)
  <2>2. CASE j # Len(P) + 1
    <3>1. i \in 1 .. Len(P) /\ j \in 1 .. Len(P)
      BY <1>1, <1>2, <1>4, <2>2
    <3>. QED  BY <3>1, <1>2, <1>4 DEF Stacked
  <2>. QED  BY <2>1, <2>2
<1>5. ASSUME NEW j \in 1 .. Len(Q)
      PROVE  /\ Q[j].back <= Q[j].base /\ Q[j].base <= Q[j].low /\ Q[j].own <= Q[j].lows
             /\ Q[j].kind = "repl" <=> j = 1
  <2>1. CASE j = Len(P) + 1
    BY <2>1, <1>1, <1>2
  <2>2. CASE j # Len(P) + 1
    <3>1. j \in 1 .. Len(P)
      BY <1>1, <1>2, <2>2
    <3>. QED  BY <3>1, <1>2 DEF Stacked
  <2>. QED  BY <2>1, <2>2
<1>6. Q[1].base = 0 /\ Q[1].back = 0 /\ Q[1].own = 1
  <2>1. CASE Len(P) = 0
    BY <2>1, <1>2
  <2>2. CASE Len(P) # 0
    <3>1. 1 \in 1 .. Len(P) /\ Len(P) > 0
      BY <1>1, <2>2
    <3>. QED  BY <3>1, <1>2 DEF Stacked
  <2>. QED  BY <2>1, <2>2
<1>7. Stacked(Q)
  BY <1>2, <1>4, <1>5, <1>6 DEF Stacked
<1>. QED  BY <1>2, <1>7 DEF Q

LEMMA CalmFacts ==
  ASSUME NEW P, Stacked(P), NEW n \in 1 .. Len(P)
  PROVE  LET Q == Calm(Cut(P, n)) IN
         /\ Stacked(Q) /\ Len(Q) = n
         /\ \A j \in 1 .. n : /\ j # n => Q[j] = P[j]
                              /\ Q[j].kind = P[j].kind /\ Q[j].base = P[j].base
                              /\ Q[j].own = P[j].own /\ Q[j].back = P[j].back
         /\ Q[n].catch = 0 /\ Q[n].low = P[n].base /\ Q[n].lows = P[n].own
<1>1. PICK R : R = Cut(P, n)
  OBVIOUS
<1>2. Len(P) \in Nat /\ n \in Nat /\ n > 0 /\ n \in 0 .. Len(P) /\ n \in 1 .. n
  BY FrameFacts
<1>3. Stacked(R) /\ Len(R) = n /\ \A j \in 1 .. n : R[j] = P[j]
  BY <1>1, <1>2, CutFrames DEF Cut
<1>4. R[n].base \in Int /\ R[n].own \in Nat
  BY <1>2, <1>3, FrameFacts
<1>5. PICK Q, low, lows : low = R[n].base /\ lows = R[n].own /\ Q = Catching(R, 0, low, lows)
  OBVIOUS
<1>6. Q = Calm(Cut(P, n))
  BY <1>1, <1>3, <1>5 DEF Calm
<1>7. /\ low \in Int /\ lows \in Nat /\ R[Len(R)].base <= low /\ R[Len(R)].own <= lows /\ Len(R) > 0
      /\ 0 \in Nat
  BY <1>2, <1>3, <1>4, <1>5
<1>8. /\ Stacked(Q) /\ Len(Q) = n
      /\ \A j \in 1 .. n : /\ j # n => Q[j] = R[j]
                           /\ Q[j].kind = R[j].kind /\ Q[j].base = R[j].base
                           /\ Q[j].own = R[j].own /\ Q[j].back = R[j].back
      /\ Q[n].catch = 0 /\ Q[n].low = low /\ Q[n].lows = lows
  BY <1>3, <1>5, <1>7, CatchingFrames
<1>. QED  BY <1>2, <1>3, <1>5, <1>6, <1>8

LEMMA FitsStill ==
  ASSUME NEW P, NEW Q, NEW t, TrapFits(t, P),
         t.owner = "eval" => /\ t.frame \in 2 .. Len(Q) /\ Q[t.frame].kind = P[t.frame].kind
                             /\ Q[t.frame].own = P[t.frame].own /\ Q[t.frame].base = P[t.frame].base,
         t.owner = "catch" => t.frame \in 1 .. Len(Q) /\ Q[t.frame] = P[t.frame]
  PROVE  TrapFits(t, Q)
<1>1. CASE t.owner = "main"
  BY <1>1 DEF TrapFits
<1>2. CASE t.owner = "eval"
  BY <1>2 DEF TrapFits
<1>3. CASE t.owner = "catch"
  BY <1>3 DEF TrapFits
<1>. QED  BY <1>1, <1>2, <1>3 DEF TrapFits

(* The traps below the k-th, with the frames below it or its own.          *)
LEMMA CutTraps ==
  ASSUME NEW P, NEW ts, Good(P, ts), NEW k \in 2 .. Len(ts), NEW Q, Stacked(Q), Len(Q) <= Len(P),
         \A i \in 1 .. k - 1 : TrapFits(ts[i], Q),
         \A j \in 1 .. Len(Q) :
           /\ Q[j].kind = "eval" => P[j].kind = "eval" /\ 2 * j < Key(ts[k])
           /\ Q[j].catch # 0 => P[j].catch # 0 /\ 2 * j + 1 < Key(ts[k])
  PROVE  Good(Q, SubSeq(ts, 1, k - 1))
<1>. DEFINE us == SubSeq(ts, 1, k - 1)
<1>1. IsSeq(ts) /\ Len(ts) \in Nat /\ k - 1 \in 1 .. Len(ts) /\ Len(P) \in Nat /\ Len(Q) \in Nat
  BY SeqFacts, FrameFacts DEF Good, TrapsFit
<1>2. IsSeq(us) /\ Len(us) = k - 1 /\ \A i \in 1 .. k - 1 : us[i] = ts[i]
  BY <1>1, SeqFacts
<1>3. ASSUME NEW j, HasKey(ts, j), j < Key(ts[k]) PROVE HasKey(us, j)
  <2>1. PICK i \in 1 .. Len(ts) : Key(ts[i]) = j
    BY <1>3 DEF HasKey
  <2>2. i < k
    <3>1. Key(ts[i]) < Key(ts[k])
      BY <2>1, <1>3
    <3>2. k \in 1 .. Len(ts)
      BY <1>1
    <3>3. \A l \in 1 .. Len(ts) : Key(ts[l]) < Key(ts[k]) => l < k
      BY <3>2, KeyFacts
    <3>. QED  BY <2>1, <3>1, <3>3
  <2>. QED  BY <2>1, <2>2, <1>1, <1>2 DEF HasKey
<1>. HIDE DEF us
<1>4. Increasing(us)
  <2>1. \A i, j \in 1 .. Len(ts) : i < j => Key(ts[i]) < Key(ts[j])
    BY DEF Good, TrapsFit, Increasing
  <2>2. \A i \in 1 .. k - 1 : i \in 1 .. Len(ts)
    BY <1>1
  <2>. QED  BY <2>1, <2>2, <1>2 DEF Increasing
<1>5. \A i \in 1 .. Len(us) : TrapFits(us[i], Q)
  BY <1>2
<1>6. \A j \in 1 .. Len(Q) : /\ Q[j].kind = "eval" => HasKey(us, 2 * j)
                             /\ Q[j].catch # 0 => HasKey(us, 2 * j + 1)
  <2>. SUFFICES ASSUME NEW j \in 1 .. Len(Q)
                PROVE  /\ Q[j].kind = "eval" => HasKey(us, 2 * j)
                       /\ Q[j].catch # 0 => HasKey(us, 2 * j + 1)
    OBVIOUS
  <2>1. j \in 1 .. Len(P)
    BY <1>1
  <2>2. /\ P[j].kind = "eval" => HasKey(ts, 2 * j)
        /\ P[j].catch # 0 => HasKey(ts, 2 * j + 1)
    BY <2>1 DEF Good, TrapsFit
  <2>. QED  BY <2>2, <1>3
<1>7. Len(us) > 0 /\ us[1].owner = "main"
  <2>1. 1 \in 1 .. k - 1 /\ ts[1].owner = "main"
    BY <1>1 DEF Good, TrapsFit
  <2>. QED  BY <2>1, <1>1, <1>2
<1>8. Good(Q, us)
  BY <1>2, <1>4, <1>5, <1>6, <1>7 DEF Good, TrapsFit
<1>. QED  BY <1>8 DEF us

(* An error is caught, or a catch form is left: its frame is calm again.   *)
LEMMA LeaveCatch ==
  ASSUME NEW P, NEW ts, Good(P, ts), NEW k \in 1 .. Len(ts), ts[k].owner = "catch"
  PROVE  /\ ts[k].frame \in 1 .. Len(P)
         /\ Good(Calm(Cut(P, ts[k].frame)), SubSeq(ts, 1, k - 1))
         /\ Len(Calm(Cut(P, ts[k].frame))) = ts[k].frame
<1>. DEFINE n == ts[k].frame
            R == Cut(P, n)
            Q == Calm(R)
<1>1. Len(P) \in Nat /\ Len(ts) \in Nat /\ Stacked(P)
  BY SeqFacts, FrameFacts DEF Good, TrapsFit
<1>2. n \in 1 .. Len(P) /\ Key(ts[k]) = 2 * n + 1
  BY <1>1, KeyFacts
<1>3. k # 1
  BY DEF Good, TrapsFit
<1>4. Stacked(R) /\ Len(R) = n
  BY <1>1, <1>2, CutFrames
<1>5. \A j \in 1 .. n : R[j] = P[j]
  BY DEF Cut
<1>. HIDE DEF R
<1>6. R[n].base \in Int /\ R[n].own \in Nat /\ n \in 1 .. Len(R)
  BY <1>2, <1>4, FrameFacts
<1>7. /\ Stacked(Q) /\ Len(Q) = n /\ Q[n].catch = 0
      /\ \A j \in 1 .. n : /\ j # n => Q[j] = R[j]
                           /\ Q[j].kind = R[j].kind /\ Q[j].base = R[j].base /\ Q[j].own = R[j].own
  <2>1. Len(R) > 0 /\ 0 \in Nat /\ R[Len(R)].base <= R[Len(R)].base /\ R[Len(R)].own <= R[Len(R)].own
    BY <1>2, <1>4, <1>6
  <2>. QED  BY <1>4, <1>6, <2>1, CatchingFrames DEF Calm
<1>. HIDE DEF Q
<1>8. ASSUME NEW i \in 1 .. k - 1 PROVE TrapFits(ts[i], Q)
  <2>1. i \in 1 .. Len(ts) /\ TrapFits(ts[i], P) /\ Key(ts[i]) < Key(ts[k])
    BY <1>1 DEF Good, TrapsFit, Increasing
  <2>2. ts[i].owner = "eval" => ts[i].frame \in 2 .. n
    BY <2>1, <1>1, <1>2, KeyFacts, SMTT(20)
  <2>3. ts[i].owner = "catch" => ts[i].frame \in 1 .. n /\ ts[i].frame # n
    BY <2>1, <1>1, <1>2, KeyFacts, SMTT(20)
  <2>4. \A j \in 2 .. n : j \in 1 .. n
    BY <1>2
  <2>. QED  BY <2>1, <2>2, <2>3, <2>4, <1>5, <1>7, FitsStill, SMTT(20)
<1>9. \A j \in 1 .. Len(Q) :
           /\ Q[j].kind = "eval" => P[j].kind = "eval" /\ 2 * j < Key(ts[k])
           /\ Q[j].catch # 0 => P[j].catch # 0 /\ 2 * j + 1 < Key(ts[k])
  <2>1. PICK m : m = Key(ts[k])
    OBVIOUS
  <2>2. m = 2 * n + 1 /\ n \in Nat /\ Len(Q) = n
    BY <2>1, <1>1, <1>2, <1>7
  <2>. HIDE DEF n
  <2>3. ASSUME NEW j \in 1 .. Len(Q) PROVE j \in 1 .. n /\ 2 * j < m /\ (j # n => 2 * j + 1 < m)
    BY <2>2
  <2>4. ASSUME NEW j \in 1 .. Len(Q), Q[j].kind = "eval" PROVE P[j].kind = "eval" /\ 2 * j < Key(ts[k])
    <3>1. j \in 1 .. n /\ 2 * j < m
      BY <2>3
    <3>2. Q[j].kind = R[j].kind /\ R[j] = P[j]
      BY <3>1, <1>5, <1>7
    <3>. QED  BY <3>1, <3>2, <2>4, <2>1
  <2>5. ASSUME NEW j \in 1 .. Len(Q), Q[j].catch # 0 PROVE P[j].catch # 0 /\ 2 * j + 1 < Key(ts[k])
    <3>1. j \in 1 .. n /\ (j # n => 2 * j + 1 < m)
      BY <2>3
    <3>2. j # n
      BY <2>5, <1>7
    <3>3. Q[j] = R[j] /\ R[j] = P[j]
      BY <3>1, <3>2, <1>5, <1>7
    <3>. QED  BY <3>1, <3>2, <3>3, <2>5, <2>1
  <2>. QED  BY <2>4, <2>5
<1>10. k \in 2 .. Len(ts) /\ Len(Q) <= Len(P)
  BY <1>1, <1>2, <1>3, <1>7
<1>11. Good(Q, SubSeq(ts, 1, k - 1))
  BY <1>7, <1>8, <1>9, <1>10, CutTraps
<1>. QED  BY <1>2, <1>7, <1>11 DEF Q, R

(* An error leaves vm_eval, or its chunk is at its end: back in the caller. *)
LEMMA LeaveEval ==
  ASSUME NEW P, NEW ts, Good(P, ts), NEW k \in 1 .. Len(ts), ts[k].owner = "eval"
  PROVE  /\ ts[k].frame \in 2 .. Len(P)
         /\ Good(Cut(P, ts[k].frame - 1), SubSeq(ts, 1, k - 1))
         /\ Len(Cut(P, ts[k].frame - 1)) = ts[k].frame - 1
<1>. DEFINE n == ts[k].frame
            Q == Cut(P, n - 1)
<1>1. Len(P) \in Nat /\ Len(ts) \in Nat /\ Stacked(P)
  BY SeqFacts, FrameFacts DEF Good, TrapsFit
<1>2. n \in 2 .. Len(P) /\ Key(ts[k]) = 2 * n
  BY <1>1, KeyFacts
<1>3. k # 1
  BY DEF Good, TrapsFit
<1>4. n - 1 \in 0 .. Len(P)
  BY <1>1, <1>2
<1>5. Stacked(Q) /\ Len(Q) = n - 1
  BY <1>1, <1>4, CutFrames
<1>6. \A j \in 1 .. n - 1 : Q[j] = P[j]
  BY DEF Cut
<1>. HIDE DEF Q
<1>8. ASSUME NEW i \in 1 .. k - 1 PROVE TrapFits(ts[i], Q)
  <2>1. i \in 1 .. Len(ts) /\ TrapFits(ts[i], P) /\ Key(ts[i]) < Key(ts[k])
    BY <1>1 DEF Good, TrapsFit, Increasing
  <2>2. ts[i].owner = "eval" => ts[i].frame \in 2 .. n - 1
    BY <2>1, <1>1, <1>2, KeyFacts
  <2>3. ts[i].owner = "catch" => ts[i].frame \in 1 .. n - 1
    BY <2>1, <1>1, <1>2, KeyFacts, SMTT(20)
  <2>4. \A j \in 2 .. n - 1 : j \in 1 .. n - 1
    BY <1>2
  <2>. QED  BY <2>1, <2>2, <2>3, <2>4, <1>5, <1>6, FitsStill
<1>9. \A j \in 1 .. Len(Q) :
           /\ Q[j].kind = "eval" => P[j].kind = "eval" /\ 2 * j < Key(ts[k])
           /\ Q[j].catch # 0 => P[j].catch # 0 /\ 2 * j + 1 < Key(ts[k])
  BY <1>2, <1>5, <1>6
<1>10. k \in 2 .. Len(ts) /\ Len(Q) <= Len(P)
  BY <1>1, <1>2, <1>3, <1>5
<1>11. Good(Q, SubSeq(ts, 1, k - 1))
  BY <1>5, <1>8, <1>9, <1>10, CutTraps
<1>. QED  BY <1>2, <1>5, <1>11 DEF Q

(* One trap more, above all others.                                        *)
LEMMA PushTrap ==
  ASSUME NEW P, NEW ts, Good(P, ts), NEW Q, Stacked(Q), NEW t, TrapFits(t, Q),
         \A i \in 1 .. Len(ts) : TrapFits(ts[i], Q) /\ Key(ts[i]) < Key(t),
         \A j \in 1 .. Len(Q) :
           /\ Q[j].kind = "eval" => (j \in 1 .. Len(P) /\ P[j].kind = "eval") \/ 2 * j = Key(t)
           /\ Q[j].catch # 0 => (j \in 1 .. Len(P) /\ P[j].catch # 0) \/ 2 * j + 1 = Key(t)
  PROVE  Good(Q, Append(ts, t))
<1>. DEFINE us == Append(ts, t)
<1>1. IsSeq(ts) /\ Len(ts) \in Nat /\ Len(ts) > 0 /\ ts[1].owner = "main"
  BY SeqFacts DEF Good, TrapsFit
<1>2. /\ IsSeq(us) /\ Len(us) = Len(ts) + 1 /\ us[Len(ts) + 1] = t
      /\ \A i \in 1 .. Len(ts) : us[i] = ts[i]
  BY <1>1, SeqFacts
<1>. HIDE DEF us
<1>3. \A k : HasKey(ts, k) \/ k = Key(t) => HasKey(us, k)
  <2>. SUFFICES ASSUME NEW k, HasKey(ts, k) \/ k = Key(t) PROVE HasKey(us, k)
    OBVIOUS
  <2>1. CASE HasKey(ts, k)
    <3>1. PICK i \in 1 .. Len(ts) : Key(ts[i]) = k
      BY <2>1 DEF HasKey
    <3>. QED  BY <3>1, <1>1, <1>2 DEF HasKey
  <2>2. CASE k = Key(t)
    <3>1. Len(ts) + 1 \in 1 .. Len(us)
      BY <1>1, <1>2
    <3>. QED  BY <2>2, <3>1, <1>2 DEF HasKey
  <2>. QED  BY <2>1, <2>2
<1>4. Increasing(us)
  <2>. SUFFICES ASSUME NEW i \in 1 .. Len(us), NEW j \in 1 .. Len(us), i < j
                PROVE  Key(us[i]) < Key(us[j])
    BY DEF Increasing
  <2>1. i \in 1 .. Len(ts)
    BY <1>1, <1>2
  <2>2. CASE j = Len(ts) + 1
    BY <2>1, <2>2, <1>2
  <2>3. CASE j # Len(ts) + 1
    <3>1. j \in 1 .. Len(ts)
      BY <2>3, <1>1, <1>2
    <3>2. Key(ts[i]) < Key(ts[j])
      BY <2>1, <3>1 DEF Good, TrapsFit, Increasing
    <3>. QED  BY <2>1, <3>1, <3>2, <1>2
  <2>. QED  BY <2>2, <2>3
<1>5. \A i \in 1 .. Len(us) : TrapFits(us[i], Q)
  <2>1. \A i \in 1 .. Len(us) : i \in 1 .. Len(ts) \/ i = Len(ts) + 1
    BY <1>1, <1>2
  <2>. QED  BY <2>1, <1>2
<1>6. \A j \in 1 .. Len(Q) : /\ Q[j].kind = "eval" => HasKey(us, 2 * j)
                             /\ Q[j].catch # 0 => HasKey(us, 2 * j + 1)
  BY <1>3 DEF Good, TrapsFit
<1>7. Len(us) > 0 /\ us[1].owner = "main"
  <2>1. 1 \in 1 .. Len(ts)
    BY <1>1
  <2>. QED  BY <2>1, <1>1, <1>2
<1>8. Good(Q, us)
  BY <1>2, <1>4, <1>5, <1>6, <1>7 DEF Good, TrapsFit
<1>. QED  BY <1>8 DEF us

(* The running chunk enters a catch form.                                  *)
LEMMA EnterCatch ==
  ASSUME NEW P, NEW ts, Good(P, ts), Len(P) > 0, P[Len(P)].catch = 0,
         NEW t, t.owner = "catch", t.live = TRUE, t.frame = Len(P), t.at \in Nat, t.at # 0,
         t.off \in Int, t.lvl \in Nat, P[Len(P)].base <= t.off, P[Len(P)].own <= t.lvl
  PROVE  /\ Good(Catching(P, t.at, t.off, t.lvl), Append(ts, t))
         /\ Len(Catching(P, t.at, t.off, t.lvl)) = Len(P)
<1>. DEFINE Q == Catching(P, t.at, t.off, t.lvl)
<1>1. Len(P) \in Nat /\ Len(ts) \in Nat /\ Stacked(P) /\ Len(P) \in 1 .. Len(P)
  BY SeqFacts, FrameFacts DEF Good, TrapsFit
<1>2. /\ Stacked(Q) /\ Len(Q) = Len(P)
      /\ \A j \in 1 .. Len(P) : /\ j # Len(P) => Q[j] = P[j]
                                /\ Q[j].kind = P[j].kind /\ Q[j].base = P[j].base
                                /\ Q[j].own = P[j].own
      /\ Q[Len(P)].catch = t.at /\ Q[Len(P)].low = t.off /\ Q[Len(P)].lows = t.lvl
  BY <1>1, CatchingFrames
<1>. HIDE DEF Q
<1>3. TrapFits(t, Q) /\ Key(t) = 2 * Len(P) + 1
  BY <1>1, <1>2 DEF TrapFits, Key
<1>4. ASSUME NEW i \in 1 .. Len(ts) PROVE TrapFits(ts[i], Q) /\ Key(ts[i]) < Key(t)
  <2>1. TrapFits(ts[i], P)
    BY DEF Good, TrapsFit
  <2>2. ts[i].owner = "catch" => ts[i].frame \in 1 .. Len(P) /\ ts[i].frame # Len(P)
    BY <2>1 DEF TrapFits
  <2>3. ts[i].owner = "eval" => ts[i].frame \in 2 .. Len(P)
    BY <2>1 DEF TrapFits
  <2>4. TrapFits(ts[i], Q)
    <3>1. \A j \in 2 .. Len(P) : j \in 1 .. Len(P)
      BY <1>1
    <3>. QED  BY <2>1, <2>2, <2>3, <3>1, <1>2, FitsStill
  <2>5. Key(ts[i]) < Key(t)
    <3>1. /\ ts[i].owner \in {"main", "eval", "catch"}
          /\ ts[i].owner = "main" => Key(ts[i]) = 0
          /\ ts[i].owner = "eval" => Key(ts[i]) = 2 * ts[i].frame
          /\ ts[i].owner = "catch" => Key(ts[i]) = 2 * ts[i].frame + 1
      BY KeyFacts
    <3>. QED  BY <3>1, <2>2, <2>3, <1>1, <1>3
  <2>. QED  BY <2>4, <2>5
<1>5. ASSUME NEW j \in 1 .. Len(Q)
      PROVE  /\ Q[j].kind = "eval" => (j \in 1 .. Len(P) /\ P[j].kind = "eval") \/ 2 * j = Key(t)
             /\ Q[j].catch # 0 => (j \in 1 .. Len(P) /\ P[j].catch # 0) \/ 2 * j + 1 = Key(t)
  <2>1. j \in 1 .. Len(P) /\ Q[j].kind = P[j].kind
    BY <1>2
  <2>2. CASE j = Len(P)
    BY <2>1, <2>2, <1>3
  <2>3. CASE j # Len(P)
    <3>1. Q[j] = P[j]
      BY <2>1, <2>3, <1>2
    <3>. QED  BY <2>1, <3>1
  <2>. QED  BY <2>2, <2>3
<1>6. Good(Q, Append(ts, t))
  BY <1>2, <1>3, <1>4, <1>5, PushTrap, SMTT(20)
<1>. QED  BY <1>6, <1>2 DEF Q

(* A function is called: its frame has no trap.                            *)
LEMMA EnterCall ==
  ASSUME NEW P, NEW ts, Good(P, ts), Len(P) > 0, NEW q \in Pictures, q.kind = "call", q.catch = 0,
         q.back <= q.base, q.low = q.base, q.lows = q.own,
         P[Len(P)].low <= q.back, P[Len(P)].lows <= q.own
  PROVE  Good(Append(P, q), ts) /\ Len(Append(P, q)) = Len(P) + 1
<1>. DEFINE Q == Append(P, q)
<1>1. Len(P) \in Nat /\ Len(ts) \in Nat /\ Stacked(P) /\ Len(P) \in 1 .. Len(P)
  BY SeqFacts, FrameFacts DEF Good, TrapsFit
<1>2. q.base \in Int /\ q.own \in Nat
  BY DEF Pictures
<1>3. /\ Stacked(Q) /\ Len(Q) = Len(P) + 1 /\ Q[Len(P) + 1] = q
      /\ \A j \in 1 .. Len(P) : Q[j] = P[j]
  BY <1>1, <1>2, PushFrame
<1>. HIDE DEF Q
<1>4. \A j \in 1 .. Len(Q) : j \in 1 .. Len(P) \/ j = Len(P) + 1
  BY <1>1, <1>3
<1>5. ASSUME NEW i \in 1 .. Len(ts) PROVE TrapFits(ts[i], Q)
  <2>1. TrapFits(ts[i], P)
    BY DEF Good, TrapsFit
  <2>2. ts[i].owner = "catch" => ts[i].frame \in 1 .. Len(P) /\ ts[i].frame \in 1 .. Len(Q)
    BY <2>1, <1>1, <1>3 DEF TrapFits
  <2>3. ts[i].owner = "eval" => ts[i].frame \in 1 .. Len(P) /\ ts[i].frame \in 2 .. Len(Q)
    BY <2>1, <1>1, <1>3 DEF TrapFits
  <2>. QED  BY <2>1, <2>2, <2>3, <1>3, FitsStill
<1>6. \A j \in 1 .. Len(Q) : /\ Q[j].kind = "eval" => HasKey(ts, 2 * j)
                             /\ Q[j].catch # 0 => HasKey(ts, 2 * j + 1)
  BY <1>3, <1>4 DEF Good, TrapsFit
<1>7. Good(Q, ts)
  BY <1>3, <1>5, <1>6 DEF Good, TrapsFit
<1>. QED  BY <1>7, <1>3 DEF Q

(* vm_eval runs a chunk under its trap.                                    *)
LEMMA EnterEval ==
  ASSUME NEW P, NEW ts, Good(P, ts), Len(P) > 0, NEW q \in Pictures, q.kind = "eval", q.catch = 0,
         q.back <= q.base, q.low = q.base, q.lows = q.own,
         P[Len(P)].low <= q.back, P[Len(P)].lows <= q.own,
         NEW t, t.owner = "eval", t.live = TRUE, t.frame = Len(P) + 1, t.off = q.base + 1, t.lvl = q.own
  PROVE  Good(Append(P, q), Append(ts, t)) /\ Len(Append(P, q)) = Len(P) + 1
<1>. DEFINE Q == Append(P, q)
<1>1. Len(P) \in Nat /\ Len(ts) \in Nat /\ Stacked(P) /\ Len(P) \in 1 .. Len(P)
  BY SeqFacts, FrameFacts DEF Good, TrapsFit
<1>2. q.base \in Int /\ q.own \in Nat
  BY DEF Pictures
<1>3. /\ Stacked(Q) /\ Len(Q) = Len(P) + 1 /\ Q[Len(P) + 1] = q
      /\ \A j \in 1 .. Len(P) : Q[j] = P[j]
  BY <1>1, <1>2, PushFrame
<1>. HIDE DEF Q
<1>4. \A j \in 1 .. Len(Q) : j \in 1 .. Len(P) \/ j = Len(P) + 1
  BY <1>1, <1>3
<1>5. TrapFits(t, Q) /\ Key(t) = 2 * (Len(P) + 1)
  BY <1>1, <1>3 DEF TrapFits, Key
<1>6. ASSUME NEW i \in 1 .. Len(ts) PROVE TrapFits(ts[i], Q) /\ Key(ts[i]) < Key(t)
  <2>1. TrapFits(ts[i], P)
    BY DEF Good, TrapsFit
  <2>2. ts[i].owner = "catch" => ts[i].frame \in 1 .. Len(P) /\ ts[i].frame \in 1 .. Len(Q)
    BY <2>1, <1>1, <1>3 DEF TrapFits
  <2>3. ts[i].owner = "eval" => ts[i].frame \in 1 .. Len(P) /\ ts[i].frame \in 2 .. Len(Q)
    BY <2>1, <1>1, <1>3 DEF TrapFits
  <2>4. TrapFits(ts[i], Q)
    BY <2>1, <2>2, <2>3, <1>3, FitsStill
  <2>5. Key(ts[i]) < Key(t)
    <3>1. /\ ts[i].owner \in {"main", "eval", "catch"}
          /\ ts[i].owner = "main" => Key(ts[i]) = 0
          /\ ts[i].owner = "eval" => Key(ts[i]) = 2 * ts[i].frame
          /\ ts[i].owner = "catch" => Key(ts[i]) = 2 * ts[i].frame + 1
      BY KeyFacts
    <3>. QED  BY <3>1, <2>2, <2>3, <1>1, <1>5
  <2>. QED  BY <2>4, <2>5
<1>7. \A j \in 1 .. Len(Q) :
           /\ Q[j].kind = "eval" => (j \in 1 .. Len(P) /\ P[j].kind = "eval") \/ 2 * j = Key(t)
           /\ Q[j].catch # 0 => (j \in 1 .. Len(P) /\ P[j].catch # 0) \/ 2 * j + 1 = Key(t)
  BY <1>3, <1>4, <1>5
<1>8. Good(Q, Append(ts, t))
  BY <1>3, <1>5, <1>6, <1>7, PushTrap
<1>. QED  BY <1>8, <1>3 DEF Q

(* A function returns.                                                     *)
LEMMA LeaveCall ==
  ASSUME NEW P, NEW ts, Good(P, ts), Len(P) > 1, P[Len(P)].kind = "call", P[Len(P)].catch = 0
  PROVE  /\ Good(Cut(P, Len(P) - 1), ts) /\ Len(Cut(P, Len(P) - 1)) = Len(P) - 1
         /\ \A i \in 1 .. Len(ts) : ts[i].frame < Len(P)
<1>. DEFINE n == Len(P) - 1
            Q == Cut(P, n)
<1>1. Len(P) \in Nat /\ Len(ts) \in Nat /\ Stacked(P) /\ n \in 0 .. Len(P)
  BY SeqFacts, FrameFacts DEF Good, TrapsFit
<1>2. Stacked(Q) /\ Len(Q) = n /\ \A j \in 1 .. n : Q[j] = P[j] /\ j \in 1 .. Len(P)
  <2>1. Stacked(Q) /\ Len(Q) = n
    BY <1>1, CutFrames
  <2>2. \A j \in 1 .. n : Q[j] = P[j]
    BY DEF Cut
  <2>. QED  BY <2>1, <2>2, <1>1
<1>. HIDE DEF Q
<1>3. ASSUME NEW i \in 1 .. Len(ts) PROVE TrapFits(ts[i], Q) /\ ts[i].frame < Len(P)
  <2>1. TrapFits(ts[i], P)
    BY DEF Good, TrapsFit
  <2>2. ts[i].owner = "catch" => ts[i].frame \in 1 .. n
    BY <2>1, <1>1 DEF TrapFits
  <2>3. ts[i].owner = "eval" => ts[i].frame \in 1 .. n /\ ts[i].frame \in 2 .. n
    BY <2>1, <1>1 DEF TrapFits
  <2>4. ts[i].owner \in {"main", "eval", "catch"} /\ (ts[i].owner = "main" => ts[i].frame = 0)
    BY <2>1 DEF TrapFits
  <2>5. TrapFits(ts[i], Q)
    BY <2>1, <2>2, <2>3, <1>2, FitsStill
  <2>. QED  BY <2>2, <2>3, <2>4, <2>5, <1>1
<1>4. \A j \in 1 .. Len(Q) : /\ Q[j].kind = "eval" => HasKey(ts, 2 * j)
                             /\ Q[j].catch # 0 => HasKey(ts, 2 * j + 1)
  BY <1>2 DEF Good, TrapsFit
<1>5. Good(Q, ts)
  BY <1>2, <1>3, <1>4 DEF Good, TrapsFit
<1>. QED  BY <1>5, <1>2, <1>3 DEF Q

(* The traps come in the order of what they keep.                          *)
LEMMA TrapOrder ==
  ASSUME NEW P, NEW ts, Good(P, ts), Len(P) > 0
  PROVE  /\ Len(ts) \in Nat /\ Len(ts) > 0
         /\ \A i \in 1 .. Len(ts) :
              /\ ts[i].live = TRUE /\ ts[i].frame \in 0 .. Len(P) /\ ts[i].off \in Int
              /\ ts[i].lvl \in Nat /\ ts[i].lvl > 0 /\ ts[i].lvl <= P[Len(P)].lows
              /\ ts[i].owner = "catch" => ts[i].off <= P[Len(P)].low
         /\ \A i, j \in 1 .. Len(ts) :
              i < j => ts[i].frame <= ts[j].frame /\ ts[i].lvl <= ts[j].lvl
<1>1. Len(P) \in Nat /\ Len(ts) \in Nat /\ Len(ts) > 0 /\ Stacked(P) /\ Len(P) \in 1 .. Len(P)
  BY SeqFacts, FrameFacts DEF Good, TrapsFit
<1>2. \A j \in 1 .. Len(P) : /\ P[j].base \in Int /\ P[j].low \in Int
                             /\ P[j].own \in Nat /\ P[j].own > 0 /\ P[j].lows \in Nat
                             /\ P[j].own <= P[j].lows
                             /\ P[j].low <= P[Len(P)].low /\ P[j].lows <= P[Len(P)].lows
  BY <1>1, FrameFacts
<1>3. ASSUME NEW i \in 1 .. Len(ts)
      PROVE  /\ ts[i].live = TRUE /\ ts[i].frame \in 0 .. Len(P) /\ ts[i].off \in Int
             /\ ts[i].owner \in {"main", "eval", "catch"}
             /\ ts[i].owner = "main" => ts[i].lvl = 1 /\ ts[i].frame = 0
             /\ ts[i].owner = "eval" => ts[i].frame \in 1 .. Len(P) /\ ts[i].lvl = P[ts[i].frame].own
             /\ ts[i].owner = "catch" => /\ ts[i].frame \in 1 .. Len(P) /\ ts[i].lvl = P[ts[i].frame].lows
                                         /\ ts[i].off <= P[Len(P)].low
  <2>1. TrapFits(ts[i], P)
    BY DEF Good, TrapsFit
  <2>2. CASE ts[i].owner = "main"
    BY <2>1, <2>2, <1>1 DEF TrapFits
  <2>3. CASE ts[i].owner = "eval"
    <3>1. ts[i].live = TRUE /\ ts[i].frame \in 2 .. Len(P) /\ ts[i].lvl = P[ts[i].frame].own
          /\ ts[i].off = P[ts[i].frame].base + 1
      BY <2>1, <2>3 DEF TrapFits
    <3>2. ts[i].frame \in 1 .. Len(P)
      BY <3>1, <1>1
    <3>3. P[ts[i].frame].base \in Int
      BY <3>2, <1>2
    <3>. QED  BY <2>3, <3>1, <3>2, <3>3, <1>1
  <2>4. CASE ts[i].owner = "catch"
    <3>1. ts[i].live = TRUE /\ ts[i].frame \in 1 .. Len(P) /\ ts[i].lvl = P[ts[i].frame].lows
          /\ ts[i].off = P[ts[i].frame].low
      BY <2>1, <2>4 DEF TrapFits
    <3>. QED  BY <2>4, <3>1, <1>1, <1>2
  <2>. QED  BY <2>1, <2>2, <2>3, <2>4 DEF TrapFits
<1>4. ASSUME NEW i \in 1 .. Len(ts)
      PROVE  ts[i].lvl \in Nat /\ ts[i].lvl > 0 /\ ts[i].lvl <= P[Len(P)].lows
  <2>1. \A n \in 1 .. Len(P) : P[n].own \in Nat /\ P[n].own > 0 /\ P[n].own <= P[Len(P)].lows
    BY <1>1, <1>2
  <2>2. \A n \in 1 .. Len(P) : P[n].lows \in Nat /\ P[n].lows > 0 /\ P[n].lows <= P[Len(P)].lows
    BY <1>1, <1>2
  <2>3. /\ ts[i].owner \in {"main", "eval", "catch"}
        /\ ts[i].owner = "main" => ts[i].lvl = 1
        /\ ts[i].owner = "eval" => ts[i].frame \in 1 .. Len(P) /\ ts[i].lvl = P[ts[i].frame].own
        /\ ts[i].owner = "catch" => ts[i].frame \in 1 .. Len(P) /\ ts[i].lvl = P[ts[i].frame].lows
    BY <1>3
  <2>4. Len(P) \in 1 .. Len(P)
    BY <1>1
  <2>. QED  BY <2>1, <2>2, <2>3, <2>4
<1>5. ASSUME NEW i \in 1 .. Len(ts), NEW j \in 1 .. Len(ts), i < j
      PROVE  ts[i].frame <= ts[j].frame /\ ts[i].lvl <= ts[j].lvl
  <2>. DEFINE a == ts[i]
              b == ts[j]
  <2>1. Key(a) < Key(b)
    BY <1>5 DEF Good, TrapsFit, Increasing
  <2>2. /\ a.owner \in {"main", "eval", "catch"} /\ b.owner \in {"main", "eval", "catch"}
        /\ a.owner = "main" => a.frame = 0 /\ a.lvl = 1 /\ Key(a) = 0
        /\ b.owner = "main" => b.frame = 0 /\ b.lvl = 1 /\ Key(b) = 0
        /\ a.owner = "eval" => Key(a) = 2 * a.frame /\ a.frame \in 1 .. Len(P) /\ a.lvl = P[a.frame].own
        /\ b.owner = "eval" => Key(b) = 2 * b.frame /\ b.frame \in 1 .. Len(P) /\ b.lvl = P[b.frame].own
        /\ a.owner = "catch" => Key(a) = 2 * a.frame + 1 /\ a.frame \in 1 .. Len(P) /\ a.lvl = P[a.frame].lows
        /\ b.owner = "catch" => Key(b) = 2 * b.frame + 1 /\ b.frame \in 1 .. Len(P) /\ b.lvl = P[b.frame].lows
    <3>1. /\ a.owner = "main" => Key(a) = 0
          /\ a.owner = "eval" => Key(a) = 2 * a.frame
          /\ a.owner = "catch" => Key(a) = 2 * a.frame + 1
      BY KeyFacts
    <3>2. /\ b.owner = "main" => Key(b) = 0
          /\ b.owner = "eval" => Key(b) = 2 * b.frame
          /\ b.owner = "catch" => Key(b) = 2 * b.frame + 1
      BY KeyFacts
    <3>. QED  BY <3>1, <3>2, <1>3
  <2>3. a.frame \in Nat /\ b.frame \in Nat /\ a.lvl \in Nat /\ b.lvl \in Nat /\ b.lvl > 0
    <3>1. a.frame \in 0 .. Len(P) /\ b.frame \in 0 .. Len(P)
      BY <1>3
    <3>2. a.lvl \in Nat /\ b.lvl \in Nat /\ b.lvl > 0
      BY <1>4
    <3>. QED  BY <1>1, <3>1, <3>2
  <2>. HIDE DEF a, b
  <2>4. a.frame <= b.frame /\ a.lvl <= b.lvl
    <3>1. CASE a.owner = "main"
      BY <2>2, <2>3, <3>1
    <3>2. CASE a.owner # "main"
      <4>1. b.owner # "main" /\ a.frame <= b.frame /\ a.frame \in 1 .. Len(P) /\ b.frame \in 1 .. Len(P)
            /\ (a.frame = b.frame => a.owner = "eval" /\ b.owner = "catch")
        BY <2>1, <2>2, <2>3, <3>2, SMTT(20)
      <4>2. CASE a.frame = b.frame
        BY <4>1, <4>2, <2>2, <1>2
      <4>3. CASE a.frame # b.frame
        <5>1. a.frame < b.frame
          BY <4>1, <4>3, <2>3
        <5>2. P[a.frame].lows <= P[b.frame].own
          BY <4>1, <5>1, <1>1 DEF Stacked
        <5>3. a.lvl <= P[a.frame].lows
          <6>1. a.lvl = P[a.frame].own \/ a.lvl = P[a.frame].lows
            BY <2>2, <3>2
          <6>2. P[a.frame].own \in Nat /\ P[a.frame].lows \in Nat /\ P[a.frame].own <= P[a.frame].lows
            BY <4>1, <1>2
          <6>. QED  BY <6>1, <6>2
        <5>4. P[b.frame].own <= b.lvl
          <6>1. b.lvl = P[b.frame].own \/ b.lvl = P[b.frame].lows
            BY <2>2, <4>1
          <6>2. P[b.frame].own \in Nat /\ P[b.frame].lows \in Nat /\ P[b.frame].own <= P[b.frame].lows
            BY <4>1, <1>2
          <6>. QED  BY <6>1, <6>2
        <5>5. P[a.frame].lows \in Nat /\ P[b.frame].own \in Nat
          BY <4>1, <1>2
        <5>. QED  BY <5>2, <5>3, <5>4, <5>5, <4>1, <2>3
      <4>. QED  BY <4>2, <4>3
    <3>. QED  BY <3>1, <3>2
  <2>. QED  BY <2>4 DEF a, b
<1>. QED  BY <1>1, <1>3, <1>4, <1>5

(* When the loop's own frame is all there is, so is its trap.              *)
LEMMA LastFrame ==
  ASSUME NEW P, NEW ts, Good(P, ts), Len(P) = 1, P[1].catch = 0
  PROVE  Len(ts) = 1
<1>1. Len(ts) \in Nat /\ Len(ts) > 0
  BY SeqFacts DEF Good, TrapsFit
<1>2. \A i \in 1 .. Len(ts) : TrapFits(ts[i], P)
  BY DEF Good, TrapsFit
<1>3. \A i \in 1 .. Len(ts) : ts[i].owner = "main"
  BY <1>2 DEF TrapFits
<1>4. \A i \in 1 .. Len(ts) : i = 1
  BY <1>3, KeyFacts
<1>. QED  BY <1>1, <1>4

(* A set of numbers that is not empty has a least one, and if it is        *)
(* bounded a greatest.                                                     *)
LEMMA Least ==
  ASSUME NEW Z, Z \subseteq Nat, Z # {}
  PROVE  \E x \in Z : \A y \in Z : x <= y
<1>1. PICK R : R = OpToRel(<, Nat)
  OBVIOUS
<1>2. IsWellFoundedOn(R, Nat)
  BY <1>1, NatLessThanWellFounded, Zenon
<1>3. PICK x \in Z : \A y \in Z : ~ (<<y, x>> \in R)
  BY <1>2, WFMin, Zenon
<1>4. R = {ss \in Nat \X Nat : ss[1] < ss[2]}
  BY <1>1 DEF OpToRel
<1>5. ASSUME NEW y \in Z PROVE x <= y
  <2>1. <<y, x>> \in Nat \X Nat
    OBVIOUS
  <2>2. ~(y < x)
    BY <2>1, <1>3, <1>4
  <2>. QED  BY <2>2
<1>. QED  BY <1>5

LEMMA MaxFacts ==
  ASSUME NEW n \in Nat, NEW S, S \subseteq 1 .. n, S # {}
  PROVE  Max(S) \in S /\ \A y \in S : y <= Max(S)
<1>1. PICK Z : Z = {n - i : i \in S}
  OBVIOUS
<1>2. Z \subseteq Nat /\ Z # {}
  <2>1. \A i \in S : n - i \in Nat
    OBVIOUS
  <2>. QED  BY <1>1, <2>1
<1>3. PICK z \in Z : \A y \in Z : z <= y
  BY <1>2, Least
<1>4. PICK x \in S : z = n - x
  BY <1>1
<1>5. ASSUME NEW y \in S PROVE x >= y
  <2>1. n - y \in Z
    BY <1>1
  <2>2. n - x <= n - y
    BY <1>3, <1>4, <2>1
  <2>3. y \in 1 .. n /\ x \in 1 .. n
    OBVIOUS
  <2>. QED  BY <2>2, <2>3
<1>6. Max(S) \in S /\ \A y \in S : Max(S) >= y
  BY <1>5 DEF Max
<1>7. \A y \in S : y \in Int
  OBVIOUS
<1>8. ASSUME NEW y \in S PROVE y <= Max(S)
  <2>1. y \in Int /\ Max(S) \in Int /\ Max(S) >= y
    BY <1>6, <1>7
  <2>. QED  BY <2>1
<1>. QED  BY <1>6, <1>8

-------------------------------------------------------------------------------
(* The frames of the machine and their pictures.  cs are the chunks, dead  *)
(* those that were freed, fs the frames; f is a frame, q its picture and v *)
(* what the plan of its chunk says where it is.                            *)

FrameRecs == [kind : {"call", "eval", "repl"}, chunk : Nat, pc : Nat, argc : Int, bs_saved : Int,
              saved_off : Int, origin : Int, lvl : Int]

PlanIn(cs, f) == Plan(cs[f.chunk])
Placed(cs, f, q) ==
  /\ f.chunk \in DOMAIN cs /\ Level(cs[f.chunk])
  /\ f.kind = "call" <=> cs[f.chunk].ctx # NoContext
  /\ f.kind = "repl" => f.chunk = 1
  /\ f.argc = Parameters(cs[f.chunk]) /\ (f.kind # "call" => f.argc = 0)
  /\ q.base = f.origin + cs[f.chunk].entry /\ q.back = q.base - f.argc
  /\ q.own = f.lvl /\ q.kind = f.kind
Seen(cs, f, v, q) ==
  /\ q.catch = v.catch
  /\ q.low = q.base + Low(PlanIn(cs, f), v) /\ q.lows = q.own + LowScopes(PlanIn(cs, f), v)
  /\ v.saved # NoSave => f.saved_off = q.base + v.saved
  /\ v.catch # 0 => f.bs_saved = v.catch
Rests(cs, f, q) == f.pc \in DOMAIN PlanIn(cs, f) /\ Seen(cs, f, PlanIn(cs, f)[f.pc], q)
(* A frame waits for the next one, whose picture is r, to leave a value.   *)
Waits(cs, f, q, r) ==
  LET v == PlanIn(cs, f)[f.pc] IN
  /\ r.back + 1 = q.base + v.height /\ v.height > Low(PlanIn(cs, f), v)
  /\ r.own = q.own + v.scopes + IF r.kind = "call" THEN 1 ELSE 0
  /\ Known(cs[f.chunk], f.pc) = AnyValue

Frames(cs, dead, fs, P) ==
  /\ fs \in Seq(FrameRecs) /\ Len(P) = Len(fs)
  /\ \A j \in 1 .. Len(fs) : Placed(cs, fs[j], P[j]) /\ fs[j].chunk \notin dead
  /\ \A j \in 1 .. Len(fs) - 1 : Rests(cs, fs[j], P[j]) /\ Waits(cs, fs[j], P[j], P[j + 1])
  /\ \A i, j \in 1 .. Len(fs) : i < j /\ fs[j].kind = "eval" => fs[i].chunk # fs[j].chunk

(* The running frame is where its plan says, or at the jump of a catch.    *)
Planned(cs, f, top, v) ==
  /\ f.pc \in DOMAIN PlanIn(cs, f) /\ v = PlanIn(cs, f)[f.pc]
  /\ Known(cs[f.chunk], f.pc) \in {AnyValue, top}
Branching(cs, f, top, v) ==
  LET p == PlanIn(cs, f)
      i == f.pc - 1
  IN /\ i \in DOMAIN p /\ cs[f.chunk].code[i][1] = "catch"
     /\ \/ top = Nil /\ v = Entered(p[i], i)
        \/ top = T /\ v = Thrown(p[i])
Runs(cs, f, q, height, depth, top) ==
  \E v : /\ Planned(cs, f, top, v) \/ Branching(cs, f, top, v)
         /\ Seen(cs, f, v, q)
         /\ height = q.base + v.height /\ depth = q.own + v.scopes

(* Compiling adds chunks and leaves the old ones alone.                    *)
Grown(cs, ds) == \A k \in DOMAIN cs : k \in DOMAIN ds /\ ds[k] = cs[k]

LEMMA Growing ==
  ASSUME NEW cs, NEW ds, Grown(cs, ds), NEW f, NEW q, Placed(cs, f, q)
  PROVE  /\ Placed(ds, f, q) /\ PlanIn(ds, f) = PlanIn(cs, f) /\ ds[f.chunk] = cs[f.chunk]
         /\ \A v : Seen(cs, f, v, q) => Seen(ds, f, v, q)
         /\ Rests(cs, f, q) => Rests(ds, f, q)
         /\ \A r : Waits(cs, f, q, r) => Waits(ds, f, q, r)
         /\ \A top, v : Planned(cs, f, top, v) => Planned(ds, f, top, v)
<1>1. ds[f.chunk] = cs[f.chunk] /\ f.chunk \in DOMAIN ds
  BY DEF Grown, Placed
<1>2. PlanIn(ds, f) = PlanIn(cs, f)
  BY <1>1 DEF PlanIn
<1>3. Placed(ds, f, q)
  BY <1>1 DEF Placed
<1>4. \A v : Seen(cs, f, v, q) => Seen(ds, f, v, q)
  BY <1>2 DEF Seen
<1>5. Rests(cs, f, q) => Rests(ds, f, q)
  BY <1>2, <1>4 DEF Rests
<1>6. \A r : Waits(cs, f, q, r) => Waits(ds, f, q, r)
  BY <1>1, <1>2 DEF Waits
<1>7. \A top, v : Planned(cs, f, top, v) => Planned(ds, f, top, v)
  BY <1>1, <1>2 DEF Planned
<1>. QED  BY <1>1, <1>2, <1>3, <1>4, <1>5, <1>6, <1>7

(* The first frames of some, the last one changed or not.                  *)
Same(f, g) == /\ g.chunk = f.chunk /\ g.kind = f.kind /\ g.origin = f.origin
              /\ g.argc = f.argc /\ g.lvl = f.lvl
LEMMA Retouch ==
  ASSUME NEW cs, NEW dead, NEW fs, NEW P, Frames(cs, dead, fs, P),
         NEW ds, Grown(cs, ds), NEW dead2, NEW gs \in Seq(FrameRecs), NEW Q, Len(Q) = Len(gs),
         Len(gs) > 0, Len(gs) <= Len(fs),
         \A j \in 1 .. Len(gs) - 1 : gs[j] = fs[j] /\ Q[j] = P[j],
         \A j \in 1 .. Len(gs) : fs[j].chunk \notin dead2,
         Same(fs[Len(gs)], gs[Len(gs)]),
         Q[Len(gs)].base = P[Len(gs)].base, Q[Len(gs)].back = P[Len(gs)].back,
         Q[Len(gs)].own = P[Len(gs)].own, Q[Len(gs)].kind = P[Len(gs)].kind
  PROVE  Frames(ds, dead2, gs, Q)
<1>. DEFINE n == Len(gs)
<1>1. n \in Nat /\ Len(fs) \in Nat /\ n \in 1 .. n
  BY DEF Frames
<1>2. \A j \in 1 .. n : j \in 1 .. Len(fs) /\ (j # n => j \in 1 .. n - 1)
  BY <1>1
<1>3. \A j \in 1 .. n - 1 : j \in 1 .. n /\ j \in 1 .. Len(fs) /\ j \in 1 .. Len(fs) - 1 /\ j + 1 \in 1 .. n
  BY <1>1
<1>. HIDE DEF n
<1>4. ASSUME NEW j \in 1 .. n PROVE Placed(ds, gs[j], Q[j]) /\ gs[j].chunk \notin dead2 /\ Same(fs[j], gs[j])
  <2>1. Placed(cs, fs[j], P[j])
    BY <1>2 DEF Frames
  <2>2. Placed(ds, fs[j], P[j])
    BY <2>1, Growing
  <2>3. CASE j = n
    <3>1. Same(fs[j], gs[j]) /\ Q[j].base = P[j].base /\ Q[j].back = P[j].back
          /\ Q[j].own = P[j].own /\ Q[j].kind = P[j].kind /\ fs[j].chunk \notin dead2
      BY <2>3, <1>1 DEF n
    <3>. QED  BY <2>2, <3>1 DEF Placed, Same
  <2>4. CASE j # n
    <3>1. gs[j] = fs[j] /\ Q[j] = P[j] /\ fs[j].chunk \notin dead2
      BY <2>4, <1>2 DEF n
    <3>. QED  BY <2>2, <3>1 DEF Same
  <2>. QED  BY <2>3, <2>4
<1>5. ASSUME NEW j \in 1 .. n - 1 PROVE Rests(ds, gs[j], Q[j]) /\ Waits(ds, gs[j], Q[j], Q[j + 1])
  <2>1. Rests(cs, fs[j], P[j]) /\ Waits(cs, fs[j], P[j], P[j + 1]) /\ Placed(cs, fs[j], P[j])
    BY <1>3 DEF Frames
  <2>2. Rests(ds, fs[j], P[j]) /\ Waits(ds, fs[j], P[j], P[j + 1])
    BY <2>1, Growing
  <2>3. gs[j] = fs[j] /\ Q[j] = P[j]
    BY DEF n
  <2>4. Q[j + 1].back = P[j + 1].back /\ Q[j + 1].own = P[j + 1].own /\ Q[j + 1].kind = P[j + 1].kind
    <3>1. j + 1 = n \/ j + 1 \in 1 .. n - 1
      BY <1>1
    <3>. QED  BY <3>1 DEF n
  <2>. QED  BY <2>2, <2>3, <2>4 DEF Waits
<1>6. ASSUME NEW i \in 1 .. n, NEW j \in 1 .. n, i < j, gs[j].kind = "eval" PROVE gs[i].chunk # gs[j].chunk
  <2>1. fs[j].kind = "eval" /\ fs[j].chunk = gs[j].chunk /\ fs[i].chunk = gs[i].chunk
    BY <1>4, <1>6 DEF Same
  <2>2. i \in 1 .. Len(fs) /\ j \in 1 .. Len(fs)
    BY <1>2
  <2>. QED  BY <2>1, <2>2, <1>6 DEF Frames
<1>. QED  BY <1>4, <1>5, <1>6 DEF Frames, n

LEMMA Recast ==
  ASSUME NEW cs, NEW dead, NEW fs, NEW P, Frames(cs, dead, fs, P), NEW ds, Grown(cs, ds),
         NEW gs \in Seq(FrameRecs), Len(gs) = Len(fs), Len(fs) > 0,
         \A j \in 1 .. Len(fs) - 1 : gs[j] = fs[j], Same(fs[Len(fs)], gs[Len(fs)])
  PROVE  Frames(ds, dead, gs, P)
<1>1. Len(P) = Len(gs) /\ Len(gs) > 0 /\ Len(gs) <= Len(fs)
  BY DEF Frames
<1>2. \A j \in 1 .. Len(gs) : fs[j].chunk \notin dead
  BY DEF Frames
<1>. QED  BY <1>1, <1>2, Retouch

(* One frame more.                                                         *)
LEMMA AddFrame ==
  ASSUME NEW cs, NEW dead, NEW fs, NEW P, IsSeq(P), Frames(cs, dead, fs, P), Len(fs) > 0,
         Rests(cs, fs[Len(fs)], P[Len(fs)]),
         NEW g \in FrameRecs, NEW q, Placed(cs, g, q), g.chunk \notin dead,
         Waits(cs, fs[Len(fs)], P[Len(fs)], q),
         g.kind = "eval" => \A i \in 1 .. Len(fs) : fs[i].chunk # g.chunk
  PROVE  Frames(cs, dead, Append(fs, g), Append(P, q))
<1>. DEFINE n == Len(fs)
            gs == Append(fs, g)
            Q == Append(P, q)
<1>1. n \in Nat /\ fs \in Seq(FrameRecs) /\ Len(P) = n
  BY DEF Frames
<1>2. gs \in Seq(FrameRecs) /\ Len(gs) = n + 1 /\ gs[n + 1] = g /\ \A j \in 1 .. n : gs[j] = fs[j]
  BY <1>1
<1>3. Len(Q) = n + 1 /\ Q[n + 1] = q /\ \A j \in 1 .. n : Q[j] = P[j]
  BY <1>1, SeqFacts
<1>. HIDE DEF gs, Q
<1>4. \A j \in 1 .. n + 1 : j \in 1 .. n \/ j = n + 1
  BY <1>1
<1>5. \A j \in 1 .. n + 1 : Placed(cs, gs[j], Q[j]) /\ gs[j].chunk \notin dead
  BY <1>2, <1>3, <1>4 DEF Frames
<1>6. ASSUME NEW j \in 1 .. n PROVE Rests(cs, gs[j], Q[j]) /\ Waits(cs, gs[j], Q[j], Q[j + 1])
  <2>1. CASE j = n
    BY <2>1, <1>2, <1>3
  <2>2. CASE j # n
    <3>1. j \in 1 .. n - 1 /\ j + 1 \in 1 .. n
      BY <2>2, <1>1
    <3>. QED  BY <3>1, <1>2, <1>3 DEF Frames
  <2>. QED  BY <2>1, <2>2
<1>7. ASSUME NEW i \in 1 .. n + 1, NEW j \in 1 .. n + 1, i < j, gs[j].kind = "eval"
      PROVE  gs[i].chunk # gs[j].chunk
  <2>1. i \in 1 .. n
    BY <1>1, <1>7
  <2>2. CASE j = n + 1
    BY <2>1, <2>2, <1>2, <1>7
  <2>3. CASE j # n + 1
    <3>1. j \in 1 .. n
      BY <2>3, <1>4
    <3>. QED  BY <2>1, <3>1, <1>2, <1>7 DEF Frames
  <2>. QED  BY <2>2, <2>3
<1>8. n + 1 - 1 = n
  BY <1>1
<1>9. Frames(cs, dead, gs, Q)
  BY <1>2, <1>3, <1>5, <1>6, <1>7, <1>8 DEF Frames
<1>. QED  BY <1>9 DEF gs, Q

-------------------------------------------------------------------------------
(* The invariant.                                                          *)

N == Len(frames)

Memory ==
  /\ DOMAIN mem = 1 .. StackSize /\ sp \in 0 .. StackSize
  /\ \A i \in 1 .. sp : mem[i] # Junk
Contexts ==
  /\ IsSeq(cstack) /\ Len(cstack) > 0 /\ cstack[1] = Global
  /\ IsSeq(vars) /\ \A i \in 1 .. Len(cstack) : cstack[i] \in 1 .. Len(vars)
  /\ \A i \in 1 .. Len(vars) : DOMAIN vars[i] = Syms /\ \A s \in Syms : vars[i][s] # Junk
Program ==
  /\ IsSeq(chunks) /\ Len(chunks) > 0
  /\ chunks[1].ctx = NoContext /\ Parameters(chunks[1]) = 0 /\ chunks[1].entry = 0
  /\ \A k \in 1 .. Len(chunks) : chunks[k].ctx = NoContext \/ chunks[k].ctx \in 1 .. Len(vars)
  /\ freed \subseteq 2 .. Len(chunks) /\ \A k \in freed : chunks[k].ctx = NoContext
  /\ \A f \in FnNames : fns[f] = Unbound \/ \E k \in 1 .. Len(chunks) : fns[f] = CodeRef(k)
Talk ==
  /\ session \in Sessions /\ next \in 1 .. Len(session) + 2
  /\ IsSeq(traps) /\ Len(traps) <= TrapSize
  /\ mode \in {Run, Prompt, Done, Undefined, Aborted} \/ \E e : mode = Raising(e) /\ e # Junk

(* vm_eval has pushed its trap, but its chunk was not entered.             *)
Pending(P, ts, depth) ==
  /\ Len(ts) > 0 /\ Good(P, SubSeq(ts, 1, Len(ts) - 1))
  /\ LET t == ts[Len(ts)] IN
     /\ t.owner = "eval" /\ t.catcher = Nil /\ t.live = TRUE /\ t.frame = Len(P) + 1
     /\ t.off \in Int /\ t.off > P[Len(P)].low
     /\ t.lvl \in Nat /\ P[Len(P)].lows <= t.lvl /\ t.lvl <= depth

Running(P) ==
  /\ N > 0 /\ Frames(chunks, freed, frames, P) /\ Good(P, traps)
  /\ Runs(chunks, F, P[N], sp, Len(cstack), Top)
Stopped(P) ==
  /\ N > 0 /\ Frames(chunks, freed, frames, P) /\ Rests(chunks, F, P[N])
  /\ P[N].low <= sp /\ P[N].lows <= Len(cstack)
  /\ Good(P, traps) \/ Pending(P, traps, Len(cstack))
Clean == frames = << >> /\ traps = << >> /\ cstack = <<Global>> /\ sp <= 1

Shape ==
  /\ mode = Run => \E P : Running(P)
  /\ mode \in {Prompt, Done} => Clean
  /\ mode \notin {Run, Prompt, Done} => \E P : Stopped(P)

Inv == Memory /\ Contexts /\ Program /\ Talk /\ Shape

-------------------------------------------------------------------------------
(* The value stack.                                                        *)

LEMMA ReplaceFacts ==
  ASSUME Memory, NEW n \in Nat, NEW x, x # Junk, Replace(n, x)
  PROVE  /\ Memory' /\ Top' = x
         /\ n <= sp => sp' = sp - n + 1
<1>1. sp \in Nat /\ StackSize \in Nat /\ Popped(n) \in Nat /\ Popped(n) <= sp
  BY VmAssumption DEF Memory, Popped
<1>2. n <= sp => Popped(n) = sp - n
  BY <1>1 DEF Popped
<1>3. sp' = Popped(n) + 1 /\ Popped(n) < StackSize /\ mem' = [mem EXCEPT ![Popped(n) + 1] = x]
  BY DEF Replace
<1>4. DOMAIN mem' = 1 .. StackSize /\ \A i \in 1 .. StackSize : mem'[i] = IF i = sp' THEN x ELSE mem[i]
  BY <1>3 DEF Memory
<1>5. sp' \in 1 .. StackSize
  BY <1>1, <1>3
<1>6. \A i \in 1 .. sp' : i \in 1 .. StackSize /\ (i # sp' => i \in 1 .. sp)
  BY <1>1, <1>3
<1>7. \A i \in 1 .. sp' : mem'[i] # Junk
  BY <1>4, <1>6 DEF Memory
<1>. QED  BY <1>1, <1>2, <1>3, <1>4, <1>5, <1>7 DEF Memory, Top

LEMMA DiscardFacts ==
  ASSUME Memory, NEW n \in Nat, Discard(n)
  PROVE  /\ Memory'
         /\ n <= sp => sp' = sp - n
<1>1. sp \in Nat /\ sp' \in Nat /\ sp' <= sp /\ mem' = mem /\ (n <= sp => sp' = sp - n)
  BY DEF Memory, Discard, Popped
<1>2. \A i \in 1 .. sp' : i \in 1 .. sp
  BY <1>1
<1>3. sp' \in 0 .. StackSize
  BY <1>1, VmAssumption DEF Memory
<1>. QED  BY <1>1, <1>2, <1>3 DEF Memory

LEMMA TopFacts ==
  ASSUME Memory
  PROVE  /\ Top # Junk /\ \A n \in Nat : Arg(n) # Junk
         /\ Nil # Junk /\ T # Junk /\ T # Nil
<1>1. Nil # Junk /\ T # Junk
  <2>1. Nil[1] = "sym" /\ T[1] = "sym" /\ Junk[1] = "junk"
    BY DEF Nil, T, Sym, Junk
  <2>. QED  BY <2>1
<1>2. T # Nil
  <2>1. T[2] = "T" /\ Nil[2] = "NIL"
    BY DEF Nil, T, Sym
  <2>. QED  BY <2>1
<1>3. sp \in Nat
  BY DEF Memory
<1>4. Top # Junk
  BY <1>1, <1>3 DEF Memory, Top
<1>5. ASSUME NEW n \in Nat PROVE Arg(n) # Junk
  <2>1. n < sp => sp - n \in 1 .. sp
    BY <1>3
  <2>. QED  BY <2>1, <1>1 DEF Memory, Arg
<1>. QED  BY <1>1, <1>2, <1>4, <1>5

-------------------------------------------------------------------------------
(* A chunk at an instruction of its plan.                                  *)

C == chunks[F.chunk]
V == Plan(C)[F.pc]
Standing(P) ==
  /\ N > 0 /\ Frames(chunks, freed, frames, P) /\ Good(P, traps)
  /\ Planned(chunks, F, Top, V) /\ Seen(chunks, F, V, P[N])
  /\ sp = P[N].base + V.height /\ Len(cstack) = P[N].own + V.scopes

LEMMA Instructions ==
  ASSUME Inv, mode = Run
  PROVE  \E P : \/ Standing(P)
                \/ /\ Running(P) /\ Op = "go_if_not_nil" /\ F.pc - 1 \in DOMAIN Plan(C)
                   /\ \E v : /\ Branching(chunks, F, Top, v) /\ Seen(chunks, F, v, P[N])
                             /\ sp = P[N].base + v.height /\ Len(cstack) = P[N].own + v.scopes
<1>1. PICK P : Running(P)
  BY DEF Inv, Shape
<1>2. PICK v : /\ Planned(chunks, F, Top, v) \/ Branching(chunks, F, Top, v)
               /\ Seen(chunks, F, v, P[N])
               /\ sp = P[N].base + v.height /\ Len(cstack) = P[N].own + v.scopes
  BY <1>1 DEF Running, Runs
<1>3. CASE Planned(chunks, F, Top, v)
  <2>1. v = V
    BY <1>3 DEF Planned, V, C, PlanIn
  <2>2. Standing(P)
    BY <2>1, <1>1, <1>2, <1>3 DEF Standing, Running
  <2>. QED  BY <2>2
<1>4. CASE Branching(chunks, F, Top, v)
  <2>1. F.pc - 1 \in DOMAIN Plan(C) /\ C.code[F.pc - 1][1] = "catch"
    BY <1>4 DEF Branching, PlanIn, C
  <2>2. Frames(chunks, freed, frames, P) /\ N > 0
    BY <1>1 DEF Running
  <2>3. N \in 1 .. N /\ N \in Nat /\ frames \in Seq(FrameRecs)
    BY <2>2 DEF Frames, N
  <2>4. Placed(chunks, F, P[N]) /\ F \in FrameRecs
    BY <2>2, <2>3 DEF Frames, F, Last, N
  <2>5. IsPlan(C, Plan(C)) /\ F.pc \in Nat
    BY <2>4 DEF Placed, Level, C, FrameRecs
  <2>6. F.pc - 1 + 1 = F.pc
    BY <2>5
  <2>7. C.code[F.pc - 1 + 1][1] = "go_if_not_nil"
    <3>1. PICK i, c : i = F.pc - 1 /\ c = C
      OBVIOUS
    <3>2. IsPlan(c, Plan(c)) /\ i \in DOMAIN Plan(c) /\ c.code[i][1] = "catch"
      BY <3>1, <2>1, <2>5
    <3>3. c.code[i + 1][1] = "go_if_not_nil"
      BY <3>2, CatchStep
    <3>. QED  BY <3>1, <3>3
  <2>8. Op = "go_if_not_nil"
    BY <2>6, <2>7 DEF Op, Code, C
  <2>. QED  BY <2>1, <2>8, <1>1, <1>2, <1>4
<1>. QED  BY <1>2, <1>3, <1>4

LEMMA RunFacts ==
  ASSUME Inv, NEW P, N > 0, Frames(chunks, freed, frames, P), Stacked(P)
  PROVE  /\ N \in Nat /\ N \in 1 .. N /\ N = Len(P) /\ frames \in Seq(FrameRecs) /\ F = frames[N]
         /\ F \in FrameRecs /\ F.pc \in Nat /\ Placed(chunks, F, P[N]) /\ F.chunk \notin freed
         /\ IsPlan(C, Plan(C)) /\ PlanIn(chunks, F) = Plan(C)
         /\ Op = C.code[F.pc][1] /\ Operand = C.code[F.pc][2]
         /\ P[N].base \in Nat /\ P[N].back \in Nat /\ P[N].own \in Nat /\ P[N].own > 0
         /\ P[N].back <= P[N].base /\ sp \in Nat /\ Len(cstack) \in Nat
<1>1. N \in Nat /\ N \in 1 .. N /\ N = Len(P) /\ frames \in Seq(FrameRecs) /\ F = frames[N]
  BY DEF Frames, N, F, Last
<1>2. F \in FrameRecs /\ Placed(chunks, F, P[N]) /\ F.chunk \notin freed
  BY <1>1 DEF Frames, N
<1>3. IsPlan(C, Plan(C)) /\ PlanIn(chunks, F) = Plan(C) /\ F.pc \in Nat
  BY <1>2 DEF Placed, Level, C, PlanIn, FrameRecs
<1>4. Op = C.code[F.pc][1] /\ Operand = C.code[F.pc][2]
  BY DEF Op, Operand, Code, C
<1>5. /\ P[N].base \in Int /\ P[N].back \in Int /\ P[N].own \in Nat /\ P[N].own > 0
      /\ P[N].back <= P[N].base /\ P[N].back >= 0
  BY <1>1, FrameFacts
<1>6. sp \in Nat /\ Len(cstack) \in Nat
  BY SeqFacts DEF Inv, Memory, Contexts
<1>. QED  BY <1>1, <1>2, <1>3, <1>4, <1>5, <1>6

(* What is known there.                                                    *)
LEMMA StandFacts ==
  ASSUME Inv, NEW P, Standing(P)
  PROVE  /\ N \in Nat /\ N > 0 /\ N \in 1 .. N /\ N = Len(P) /\ frames \in Seq(FrameRecs) /\ F = frames[N]
         /\ F \in FrameRecs /\ Placed(chunks, F, P[N]) /\ F.chunk \notin freed
         /\ IsPlan(C, Plan(C)) /\ F.pc \in DOMAIN Plan(C) /\ PlanIn(chunks, F) = Plan(C)
         /\ Op = C.code[F.pc][1] /\ Operand = C.code[F.pc][2]
         /\ V.height \in Nat /\ V.scopes \in Nat /\ V.catch \in Nat
         /\ Low(Plan(C), V) \in Nat /\ LowScopes(Plan(C), V) \in Nat
         /\ Low(Plan(C), V) <= V.height /\ LowScopes(Plan(C), V) <= V.scopes
         /\ Kept(C, Plan(C), V) /\ Fits(C, Plan(C), F.pc) /\ V \in Views(C)
         /\ Stacked(P) /\ P[N].base \in Nat /\ P[N].back \in Nat /\ P[N].own \in Nat /\ P[N].own > 0
         /\ P[N].low = P[N].base + Low(Plan(C), V) /\ P[N].lows = P[N].own + LowScopes(Plan(C), V)
         /\ P[N].back <= P[N].base
         /\ sp \in Nat /\ Len(cstack) \in Nat
<1>1. /\ N > 0 /\ Frames(chunks, freed, frames, P) /\ Good(P, traps)
      /\ F.pc \in DOMAIN PlanIn(chunks, F) /\ Seen(chunks, F, V, P[N])
  BY DEF Standing, Planned
<1>2. N \in Nat /\ N \in 1 .. N /\ N = Len(P) /\ frames \in Seq(FrameRecs) /\ F = frames[N]
  BY <1>1 DEF Frames, N, F, Last
<1>3. F \in FrameRecs /\ Placed(chunks, F, P[N]) /\ F.chunk \notin freed
  BY <1>1, <1>2 DEF Frames, N
<1>4. IsPlan(C, Plan(C)) /\ PlanIn(chunks, F) = Plan(C) /\ F.pc \in DOMAIN Plan(C)
  BY <1>1, <1>3 DEF Placed, Level, C, PlanIn
<1>5. /\ V \in Views(C) /\ V.height \in Nat /\ V.scopes \in Nat /\ V.catch \in Nat
      /\ Low(Plan(C), V) \in Nat /\ LowScopes(Plan(C), V) \in Nat
      /\ Low(Plan(C), V) <= V.height /\ LowScopes(Plan(C), V) <= V.scopes
      /\ Kept(C, Plan(C), V) /\ Fits(C, Plan(C), F.pc)
  BY <1>4, ViewFacts DEF V
<1>6. Op = C.code[F.pc][1] /\ Operand = C.code[F.pc][2]
  BY DEF Op, Operand, Code, C
<1>7. /\ Stacked(P) /\ P[N].base \in Nat /\ P[N].back \in Nat /\ P[N].own \in Nat /\ P[N].own > 0
      /\ P[N].back <= P[N].base
  <2>1. Stacked(P)
    BY <1>1 DEF Good
  <2>2. /\ P[N].base \in Int /\ P[N].back \in Int /\ P[N].own \in Nat /\ P[N].own > 0
        /\ P[N].back <= P[N].base /\ P[N].back >= 0
    BY <2>1, <1>2, FrameFacts
  <2>. QED  BY <2>1, <2>2
<1>8. P[N].low = P[N].base + Low(Plan(C), V) /\ P[N].lows = P[N].own + LowScopes(Plan(C), V)
  BY <1>1, <1>4 DEF Seen
<1>9. sp \in Nat /\ Len(cstack) \in Nat
  BY SeqFacts DEF Inv, Memory, Contexts
<1>. QED  BY <1>1, <1>2, <1>3, <1>4, <1>5, <1>6, <1>7, <1>8, <1>9

LEMMA KnownFacts ==
  ASSUME NEW c, NEW i \in Nat
  PROVE  /\ c.code[i][1] # "push" => Known(c, i + 1) = AnyValue
         /\ c.code[i][1] = "push" => Known(c, i + 1) \in {AnyValue, c.code[i][2]}
         /\ \A l : Known(c, Place(c, l)) = AnyValue
         /\ Known(c, 1) = AnyValue
<1>1. i + 1 - 1 = i
  OBVIOUS
<1>2. 1 \in Targets(c) /\ \A l : Place(c, l) \in Targets(c)
  BY DEF Targets, Place
<1>. QED  BY <1>1, <1>2 DEF Known

(* The running frame goes on, the others stay.                             *)
Touched ==
  /\ frames' \in Seq(FrameRecs) /\ Len(frames') = Len(frames)
  /\ \A k \in 1 .. N - 1 : frames'[k] = frames[k]
  /\ Same(F, F')
LEMMA GotoFacts ==
  ASSUME frames \in Seq(FrameRecs), N > 0, NEW n \in Nat, Goto(n)
  PROVE  Touched /\ F' = [F EXCEPT !.pc = n] /\ F'.pc = n
         /\ F'.bs_saved = F.bs_saved /\ F'.saved_off = F.saved_off
<1>1. N \in Nat /\ N \in 1 .. N /\ N = Len(frames) /\ F = frames[N] /\ F \in FrameRecs
  BY DEF N, F, Last
<1>2. frames' = [frames EXCEPT ![N].pc = n]
  BY DEF Goto, N
<1>3. [F EXCEPT !.pc = n] \in FrameRecs /\ [frames[N] EXCEPT !.pc = n] \in FrameRecs
  BY <1>1 DEF FrameRecs
<1>4. frames' = [frames EXCEPT ![N] = [frames[N] EXCEPT !.pc = n]]
  BY <1>2
<1>5. frames' \in Seq(FrameRecs) /\ Len(frames') = N
  BY <1>1, <1>3, <1>4
<1>6. frames'[N] = [F EXCEPT !.pc = n] /\ \A k \in 1 .. N - 1 : frames'[k] = frames[k]
  BY <1>1, <1>4
<1>7. F' = [F EXCEPT !.pc = n]
  BY <1>5, <1>6 DEF F, Last
<1>8. F'.pc = n /\ F'.bs_saved = F.bs_saved /\ F'.saved_off = F.saved_off /\ Same(F, F')
  BY <1>1, <1>7 DEF FrameRecs, Same
<1>. QED  BY <1>1, <1>5, <1>6, <1>7, <1>8 DEF Touched
(* The same, where the picture of the innermost frame changes too.         *)
LEMMA Reframed ==
  ASSUME Inv, NEW P, Frames(chunks, freed, frames, P), N > 0, Touched,
         Grown(chunks, chunks'), freed' = freed, NEW Q, Len(Q) = N,
         \A j \in 1 .. N - 1 : Q[j] = P[j],
         Q[N].base = P[N].base, Q[N].back = P[N].back, Q[N].own = P[N].own, Q[N].kind = P[N].kind
  PROVE  /\ N' = N /\ Frames(chunks', freed', frames', Q) /\ F' = frames'[N]
         /\ Placed(chunks', F', Q[N]) /\ chunks'[F'.chunk] = C /\ PlanIn(chunks', F') = Plan(C)
<1>1. N \in Nat /\ Len(P) = N /\ N \in 1 .. N
  BY DEF Frames, N
<1>2. N' = N /\ F' = frames'[N] /\ F = frames[N]
  BY DEF Touched, N, F, Last
<1>3. \A j \in 1 .. N : frames[j].chunk \notin freed'
  BY DEF Frames, N
<1>4. Frames(chunks', freed', frames', Q)
  <2>. PICK fs, ds, dead2, gs, n : fs = frames /\ ds = chunks' /\ dead2 = freed' /\ gs = frames' /\ n = N
    OBVIOUS
  <2>1. Frames(chunks, freed, fs, P) /\ Grown(chunks, ds) /\ gs \in Seq(FrameRecs)
    BY DEF Touched
  <2>2. Len(gs) = n /\ Len(gs) > 0 /\ Len(gs) <= Len(fs) /\ Len(Q) = Len(gs) /\ n \in Nat
    BY <1>1, <1>2 DEF N
  <2>3. \A j \in 1 .. n - 1 : gs[j] = fs[j] /\ Q[j] = P[j]
    BY DEF Touched
  <2>4. (\A j \in 1 .. n : fs[j].chunk \notin dead2) /\ Same(fs[n], gs[n])
    BY <1>2, <1>3 DEF Touched
  <2>5. Q[n].base = P[n].base /\ Q[n].back = P[n].back /\ Q[n].own = P[n].own /\ Q[n].kind = P[n].kind
    OBVIOUS
  <2>6. Frames(ds, dead2, gs, Q)
    BY <2>1, <2>2, <2>3, <2>4, <2>5, Retouch
  <2>. QED  BY <2>6
<1>5. Placed(chunks', F', Q[N])
  BY <1>1, <1>2, <1>4 DEF Frames, N
<1>6. Placed(chunks, F, P[N])
  BY <1>1, <1>2 DEF Frames, N
<1>7. F'.chunk = F.chunk
  BY DEF Touched, Same
<1>8. chunks'[F'.chunk] = C
  BY <1>6, <1>7 DEF Placed, Grown, C
<1>. QED  BY <1>2, <1>4, <1>5, <1>8 DEF PlanIn

LEMMA TouchedFrames ==
  ASSUME Inv, NEW P, Frames(chunks, freed, frames, P), N > 0, Touched,
         Grown(chunks, chunks'), freed' = freed
  PROVE  /\ N' = N /\ Frames(chunks', freed', frames', P) /\ F' = frames'[N]
         /\ Placed(chunks', F', P[N]) /\ chunks'[F'.chunk] = C /\ PlanIn(chunks', F') = Plan(C)
<1>1. Len(P) = N
  BY DEF Frames, N
<1>. QED  BY <1>1, Reframed

(* The chunk will be at another instruction of its plan.                   *)
LEMMA Settle ==
  ASSUME Inv, NEW P, Frames(chunks, freed, frames, P), N > 0, Good(P, traps),
         NEW v, Seen(chunks, F, v, P[N]), Touched, NEW j \in DOMAIN Plan(C), F'.pc = j,
         Plan(C)[j].catch = v.catch, F'.bs_saved = F.bs_saved,
         Plan(C)[j].saved # NoSave => F'.saved_off = P[N].base + Plan(C)[j].saved,
         Grown(chunks, chunks'), freed' = freed, traps' = traps, mode' = Run,
         sp' = P[N].base + Plan(C)[j].height, Len(cstack') = P[N].own + Plan(C)[j].scopes,
         Known(C, j) \in {AnyValue, Top'}
  PROVE  Shape'
<1>2. /\ N' = N /\ Frames(chunks', freed', frames', P) /\ F' = frames'[N]
      /\ chunks'[F'.chunk] = C /\ PlanIn(chunks', F') = Plan(C)
  BY TouchedFrames
<1>. DEFINE u == Plan(C)[j]
<1>3. PlanIn(chunks, F) = Plan(C)
  BY DEF PlanIn, C
<1>4. Low(Plan(C), u) = Low(Plan(C), v) /\ LowScopes(Plan(C), u) = LowScopes(Plan(C), v)
  BY DEF Low, LowScopes
<1>5. Seen(chunks', F', u, P[N])
  BY <1>2, <1>3, <1>4 DEF Seen
<1>6. Planned(chunks', F', Top', u)
  BY <1>2 DEF Planned
<1>7. Runs(chunks', F', P[N], sp', Len(cstack'), Top')
  BY <1>5, <1>6 DEF Runs
<1>8. Running(P)'
  BY <1>2, <1>7 DEF Running
<1>9. mode' \notin {Prompt, Done}
  BY DEF Run, Prompt, Done
<1>. QED  BY <1>8, <1>9 DEF Shape

LEMMA Proceed ==
  ASSUME Inv, NEW P, Standing(P), Touched, NEW j \in DOMAIN Plan(C), F'.pc = j,
         Plan(C)[j].catch = V.catch, F'.bs_saved = F.bs_saved,
         Plan(C)[j].saved # NoSave => F'.saved_off = P[N].base + Plan(C)[j].saved,
         Grown(chunks, chunks'), freed' = freed, traps' = traps, mode' = Run,
         sp' = P[N].base + Plan(C)[j].height, Len(cstack') = P[N].own + Plan(C)[j].scopes,
         Known(C, j) \in {AnyValue, Top'}
  PROVE  Shape'
<1>1. Frames(chunks, freed, frames, P) /\ N > 0 /\ Good(P, traps) /\ Seen(chunks, F, V, P[N])
  BY DEF Standing
<1>. QED  BY <1>1, Settle

(* An instruction that only replaces the top of the stack.                 *)
LEMMA ReplaceStep ==
  ASSUME Inv, mode = Run, NEW P, Standing(P), Op \in Plain, Op = "divide" => Operand # 0,
         NEW n \in Nat, NEW x, x # Junk, Replace(n, x), V.height - n >= Low(Plan(C), V),
         Rise(C, F.pc) = 1 - n, Op = "push" => x = Operand,
         NextI, Grown(chunks, chunks'), freed' = freed, traps' = traps, mode' = mode, cstack' = cstack
  PROVE  Memory' /\ Shape'
<1>1. Memory
  BY DEF Inv
<1>2. Memory' /\ Top' = x /\ (n <= sp => sp' = sp - n + 1)
  BY <1>1, ReplaceFacts
<1>3. /\ N > 0 /\ frames \in Seq(FrameRecs) /\ F.pc \in DOMAIN Plan(C) /\ IsPlan(C, Plan(C))
      /\ Op = C.code[F.pc][1] /\ Operand = C.code[F.pc][2]
      /\ V.height \in Nat /\ Low(Plan(C), V) \in Nat /\ P[N].base \in Nat /\ V \in Views(C)
      /\ Seen(chunks, F, V, P[N])
      /\ sp = P[N].base + V.height /\ Len(cstack) = P[N].own + V.scopes
  BY StandFacts DEF Standing
<1>4. F.pc \in Nat /\ F.pc + 1 \in Nat
  BY <1>3, ViewFacts
<1>5. F.pc + 1 \in DOMAIN Plan(C) /\ Plan(C)[F.pc + 1] = [V EXCEPT !.height = @ + (1 - n)]
  BY <1>3, PlainStep DEF V
<1>6. sp' = P[N].base + Plan(C)[F.pc + 1].height
  <2>1. Plan(C)[F.pc + 1].height = V.height + (1 - n)
    BY <1>3, <1>5 DEF Views
  <2>2. n <= sp
    BY <1>3
  <2>3. sp' = sp - n + 1
    BY <1>2, <2>2
  <2>4. sp = P[N].base + V.height /\ V.height \in Nat /\ P[N].base \in Nat
    BY <1>3
  <2>. QED  BY <2>1, <2>3, <2>4
<1>7. Plan(C)[F.pc + 1].catch = V.catch /\ Plan(C)[F.pc + 1].saved = V.saved
      /\ Plan(C)[F.pc + 1].scopes = V.scopes
  BY <1>3, <1>5 DEF Views
<1>8. Touched /\ F'.pc = F.pc + 1 /\ F'.bs_saved = F.bs_saved /\ F'.saved_off = F.saved_off
  BY <1>3, <1>4, GotoFacts DEF NextI
<1>9. Known(C, F.pc + 1) \in {AnyValue, Top'}
  BY <1>2, <1>3, <1>4, KnownFacts
<1>10. V.saved # NoSave => F.saved_off = P[N].base + V.saved
  BY <1>3 DEF Seen
<1>11. Shape'
  BY <1>3, <1>5, <1>6, <1>7, <1>8, <1>9, <1>10, Proceed
<1>. QED  BY <1>2, <1>11

(* An instruction that only takes values off the stack.                    *)
LEMMA DiscardStep ==
  ASSUME Inv, mode = Run, NEW P, Standing(P), Op \in Plain, Op = "divide" => Operand # 0,
         NEW n \in Nat, Memory', n <= sp => sp' = sp - n, V.height - n >= Low(Plan(C), V),
         Rise(C, F.pc) = 0 - n, Op # "push",
         NextI, Grown(chunks, chunks'), freed' = freed, traps' = traps, mode' = mode, cstack' = cstack
  PROVE  Shape'
<1>3. /\ N > 0 /\ frames \in Seq(FrameRecs) /\ F.pc \in DOMAIN Plan(C) /\ IsPlan(C, Plan(C))
      /\ Op = C.code[F.pc][1] /\ Operand = C.code[F.pc][2]
      /\ V.height \in Nat /\ Low(Plan(C), V) \in Nat /\ P[N].base \in Nat /\ V \in Views(C)
      /\ Seen(chunks, F, V, P[N])
      /\ sp = P[N].base + V.height /\ Len(cstack) = P[N].own + V.scopes
  BY StandFacts DEF Standing
<1>4. F.pc \in Nat /\ F.pc + 1 \in Nat
  BY <1>3, ViewFacts, SMTT(20)
<1>5. F.pc + 1 \in DOMAIN Plan(C) /\ Plan(C)[F.pc + 1] = [V EXCEPT !.height = @ + (0 - n)]
  BY <1>3, PlainStep DEF V
<1>6. sp' = P[N].base + Plan(C)[F.pc + 1].height
  <2>1. PICK h, b, l, x : h = V.height /\ b = P[N].base /\ l = Low(Plan(C), V) /\ x = Plan(C)[F.pc + 1].height
    OBVIOUS
  <2>2. x = h + (0 - n)
    <3>1. Plan(C)[F.pc + 1].height = V.height + (0 - n)
      BY <1>3, <1>5 DEF Views
    <3>. QED  BY <3>1, <2>1
  <2>3. h \in Nat /\ b \in Nat /\ l \in Nat /\ sp = b + h
    BY <2>1, <1>3
  <2>4. h - n >= l
    BY <2>1
  <2>5. n <= sp
    BY <2>3, <2>4
  <2>6. sp' = sp - n
    BY <2>5
  <2>7. sp' = b + x
    BY <2>2, <2>3, <2>6
  <2>. QED  BY <2>7, <2>1
<1>7. Plan(C)[F.pc + 1].catch = V.catch /\ Plan(C)[F.pc + 1].saved = V.saved
      /\ Plan(C)[F.pc + 1].scopes = V.scopes
  BY <1>3, <1>5 DEF Views
<1>8. Touched /\ F'.pc = F.pc + 1 /\ F'.bs_saved = F.bs_saved /\ F'.saved_off = F.saved_off
  BY <1>3, <1>4, GotoFacts DEF NextI
<1>9. Known(C, F.pc + 1) \in {AnyValue, Top'}
  BY <1>3, <1>4, KnownFacts
<1>10. V.saved # NoSave => F.saved_off = P[N].base + V.saved
  BY <1>3 DEF Seen
<1>. QED  BY <1>3, <1>5, <1>6, <1>7, <1>8, <1>9, <1>10, Proceed

-------------------------------------------------------------------------------
(* What a step leaves alone.                                               *)

LEMMA StillContexts ==
  ASSUME Contexts, UNCHANGED context
  PROVE  Contexts' /\ Len(vars') = Len(vars) /\ cstack' = cstack
BY DEF Contexts, context

LEMMA StillProgram ==
  ASSUME Contexts, Program, UNCHANGED <<chunks, freed, fns>>, Len(vars') \in Nat, Len(vars') >= Len(vars)
  PROVE  Program' /\ Grown(chunks, chunks') /\ freed' = freed
<1>1. Len(vars) \in Nat
  BY SeqFacts DEF Contexts
<1>2. \A k \in 1 .. Len(vars) : k \in 1 .. Len(vars')
  BY <1>1
<1>3. Grown(chunks, chunks')
  BY DEF Grown
<1>. QED  BY <1>2, <1>3 DEF Program

LEMMA StillTalk ==
  ASSUME Talk, UNCHANGED <<session, next, traps, mode>>
  PROVE  Talk'
BY DEF Talk

(* The variables of the innermost context change.                          *)
LEMMA BindFacts ==
  ASSUME Contexts, cstack' = cstack, NEW w, DOMAIN w = Syms, \A s \in Syms : w[s] # Junk,
         vars' = [vars EXCEPT ![Last(cstack)] = w]
  PROVE  Contexts' /\ Len(vars') = Len(vars) /\ Len(vars') \in Nat
<1>. DEFINE k == Last(cstack)
<1>1. Len(vars) \in Nat /\ DOMAIN vars = 1 .. Len(vars) /\ Len(cstack) \in Nat
  BY SeqFacts DEF Contexts
<1>2. k \in 1 .. Len(vars)
  <2>1. Len(cstack) \in 1 .. Len(cstack)
    BY <1>1 DEF Contexts
  <2>. QED  BY <2>1 DEF Contexts, Last
<1>3. PICK S : vars \in Seq(S)
  BY DEF Contexts, IsSeq
<1>4. vars \in Seq(S \cup {w})
  BY <1>1, <1>3
<1>5. vars' \in Seq(S \cup {w}) /\ Len(vars') = Len(vars)
  BY <1>1, <1>2, <1>4
<1>6. \A i \in 1 .. Len(vars) : vars'[i] = IF i = k THEN w ELSE vars[i]
  BY <1>1, <1>2
<1>. HIDE DEF k
<1>7. IsSeq(vars')
  BY <1>5 DEF IsSeq
<1>. QED  BY <1>1, <1>5, <1>6, <1>7 DEF Contexts

LEMMA AssignFacts ==
  ASSUME Contexts, cstack' = cstack, NEW x, NEW y, y # Junk,
         vars' = [vars EXCEPT ![Last(cstack)][x] = y]
  PROVE  Contexts' /\ Len(vars') = Len(vars) /\ Len(vars') \in Nat
<1>. DEFINE w == [vars[Last(cstack)] EXCEPT ![x] = y]
<1>1. Last(cstack) \in 1 .. Len(vars)
  <2>1. Len(cstack) \in 1 .. Len(cstack)
    BY SeqFacts DEF Contexts
  <2>. QED  BY <2>1 DEF Contexts, Last
<1>2. DOMAIN vars[Last(cstack)] = Syms /\ \A s \in Syms : vars[Last(cstack)][s] # Junk
  BY <1>1 DEF Contexts
<1>3. DOMAIN w = Syms /\ \A s \in Syms : w[s] # Junk
  BY <1>2
<1>4. vars' = [vars EXCEPT ![Last(cstack)] = w]
  OBVIOUS
<1>. HIDE DEF w
<1>. QED  BY <1>3, <1>4, BindFacts

-------------------------------------------------------------------------------
(* Calls.                                                                  *)

LEMMA NativeFacts ==
  /\ \A f : Native(f)[1] = "native" /\ Native(f)[2] = f /\ Callable(Native(f)) /\ Native(f) # Junk
  /\ \A n : /\ \A f \in {"LIST", "PRINT", "EVAL", "BIND", "FUNCTION", "<"} :
                 Pops(Native(f), n) = n + 1 /\ Pushes(Native(f)) = 1
            /\ Pops(Native(">"), n) = 3 /\ Pushes(Native(">")) = 1
            /\ Pops(Native("READ"), n) = 1 /\ Pushes(Native("READ")) = 1
            /\ Pops(Native("COMPILE-LAMBDA"), n) = 2 /\ Pushes(Native("COMPILE-LAMBDA")) = 1
            /\ Pops(Native("COMPILE-FN"), n) = 3 /\ Pushes(Native("COMPILE-FN")) = 0
            /\ \A v : v[1] = "code" => Pops(v, n) = n + 1 /\ Pushes(v) = 1
<1>1. \A f : Native(f)[1] = "native" /\ Native(f)[2] = f
  BY DEF Native
<1>2. Junk[1] = "junk"
  BY DEF Junk
<1>3. \A f, g : Native(f) = Native(g) => f = g
  BY <1>1
<1>4. \A v, g : v[1] = "code" => v # Native(g)
  BY <1>1
<1>5. \A f : Native(f) # Junk /\ Callable(Native(f))
  BY <1>1, <1>2 DEF Callable
<1>6. ASSUME NEW n PROVE
            /\ \A f \in {"LIST", "PRINT", "EVAL", "BIND", "FUNCTION", "<"} :
                 Pops(Native(f), n) = n + 1 /\ Pushes(Native(f)) = 1
            /\ Pops(Native(">"), n) = 3 /\ Pushes(Native(">")) = 1
            /\ Pops(Native("READ"), n) = 1 /\ Pushes(Native("READ")) = 1
            /\ Pops(Native("COMPILE-LAMBDA"), n) = 2 /\ Pushes(Native("COMPILE-LAMBDA")) = 1
            /\ Pops(Native("COMPILE-FN"), n) = 3 /\ Pushes(Native("COMPILE-FN")) = 0
            /\ \A v : v[1] = "code" => Pops(v, n) = n + 1 /\ Pushes(v) = 1
  BY <1>3, <1>4 DEF Pops, Pushes
<1>. QED  BY <1>1, <1>5, <1>6

LEMMA CallFacts ==
  ASSUME Inv, Verified, mode = Run, NEW P, Standing(P), Op = "call", Callable(Top)
  PROVE  /\ Rise(C, F.pc) = Pushes(Top) - Pops(Top, Operand)
         /\ Operand \in Nat /\ V.height - (Operand + 1) >= Low(Plan(C), V)
         /\ V.height - Pops(Top, Operand) >= Low(Plan(C), V)
         /\ Top[1] = "code" => /\ Top[2] \in 1 .. Len(chunks) /\ chunks[Top[2]].ctx # NoContext
                               /\ Operand = Parameters(chunks[Top[2]])
<1>1. CalleeFits
  BY DEF Verified
<1>2. Op = C.code[F.pc][1] /\ Operand = C.code[F.pc][2] /\ Fits(C, Plan(C), F.pc)
  BY StandFacts
<1>3. Pops(Top, Operand) = Pops(Known(C, F.pc), Operand) /\ Pushes(Top) = Pushes(Known(C, F.pc))
  BY <1>1 DEF CalleeFits, C
<1>4. DOMAIN chunks = 1 .. Len(chunks)
  BY SeqFacts DEF Inv, Program
<1>5. Rise(C, F.pc) = Pushes(Top) - Pops(Top, Operand)
  BY <1>2, <1>3 DEF Rise
<1>6. Operand \in Nat /\ V.height - (Operand + 1) >= Low(Plan(C), V)
      /\ V.height - Pops(Top, Operand) >= Low(Plan(C), V)
  BY <1>2, <1>3 DEF Fits, V
<1>. QED  BY <1>1, <1>4, <1>5, <1>6 DEF CalleeFits

-------------------------------------------------------------------------------
(* The instructions.                                                       *)

LEMMA StraightFacts ==
  ASSUME Inv, Straight
  PROVE  /\ NextI /\ traps' = traps /\ mode' = mode /\ Talk'
         /\ UNCHANGED <<chunks, freed, fns>>
         /\ UNCHANGED context => Contexts' /\ Program' /\ cstack' = cstack
         /\ Grown(chunks, chunks') /\ freed' = freed
<1>1. NextI /\ UNCHANGED <<chunks, freed, fns, session, next, traps, mode>>
  BY DEF Straight, program, io
<1>2. Talk'
  BY <1>1, StillTalk DEF Inv
<1>3. ASSUME UNCHANGED context PROVE Contexts' /\ Program' /\ cstack' = cstack
  <2>1. Contexts' /\ Len(vars') = Len(vars) /\ cstack' = cstack
    BY <1>3, StillContexts DEF Inv
  <2>2. Len(vars) \in Nat
    BY SeqFacts DEF Inv, Contexts
  <2>3. Program'
    BY <1>1, <2>1, <2>2, StillProgram DEF Inv
  <2>. QED  BY <2>1, <2>3
<1>4. Grown(chunks, chunks')
  BY <1>1 DEF Grown
<1>. QED  BY <1>1, <1>2, <1>3, <1>4

LEMMA PushKeeps ==
  ASSUME Inv, mode = Run, NEW P, Standing(P), PushI PROVE Inv'
<1>1. Op = "push" /\ Replace(0, Operand) /\ Straight /\ UNCHANGED context
  BY DEF PushI, Executing
<1>2. /\ Op = C.code[F.pc][1] /\ Operand = C.code[F.pc][2] /\ Fits(C, Plan(C), F.pc)
      /\ V.height \in Nat /\ Low(Plan(C), V) \in Nat /\ Low(Plan(C), V) <= V.height
  BY StandFacts
<1>3. Operand # Junk
  BY <1>1, <1>2 DEF Fits, Junk
<1>4. Rise(C, F.pc) = 1 - 0
  BY <1>1, <1>2 DEF Rise
<1>5. V.height - 0 >= Low(Plan(C), V)
  BY <1>2
<1>6. Memory' /\ Shape'
  BY <1>1, <1>3, <1>4, <1>5, StraightFacts, ReplaceStep DEF Plain
<1>. QED  BY <1>1, <1>6, StraightFacts DEF Inv

LEMMA PopKeeps ==
  ASSUME Inv, mode = Run, NEW P, Standing(P), PopI PROVE Inv'
<1>1. Op = "pop" /\ Discard(1) /\ Straight /\ UNCHANGED context
  BY DEF PopI, Executing
<1>2. /\ Op = C.code[F.pc][1] /\ Fits(C, Plan(C), F.pc)
  BY StandFacts
<1>3. V.height - 1 >= Low(Plan(C), V)
  BY <1>1, <1>2 DEF Fits, V
<1>4. Rise(C, F.pc) = 0 - 1
  BY <1>1, <1>2 DEF Rise
<1>5. Memory' /\ (1 <= sp => sp' = sp - 1)
  BY <1>1, DiscardFacts DEF Inv
<1>6. Shape'
  BY <1>1, <1>3, <1>4, <1>5, StraightFacts, DiscardStep DEF Plain
<1>. QED  BY <1>1, <1>5, <1>6, StraightFacts DEF Inv

LEMMA ChewTopKeeps ==
  ASSUME Inv, mode = Run, NEW P, Standing(P), ChewTopI PROVE Inv'
<1>1. Op = "chew_top" /\ Replace(1 + Operand, Top) /\ Straight /\ UNCHANGED context
  BY DEF ChewTopI, Executing
<1>2. /\ Op = C.code[F.pc][1] /\ Operand = C.code[F.pc][2] /\ Fits(C, Plan(C), F.pc)
  BY StandFacts
<1>3. Operand \in Nat /\ V.height - (1 + Operand) >= Low(Plan(C), V)
  BY <1>1, <1>2 DEF Fits, V
<1>4. Rise(C, F.pc) = 1 - (1 + Operand)
  <2>1. Rise(C, F.pc) = -Operand
    BY <1>1, <1>2 DEF Rise
  <2>. QED  BY <2>1, <1>3
<1>5. Top # Junk /\ 1 + Operand \in Nat
  BY <1>3, TopFacts DEF Inv
<1>6. Memory' /\ Shape'
  BY <1>1, <1>3, <1>4, <1>5, StraightFacts, ReplaceStep DEF Plain
<1>. QED  BY <1>1, <1>6, StraightFacts DEF Inv

(* Locals and arguments are in the array, and hold values.                 *)
LEMMA SlotFacts ==
  ASSUME Inv, NEW P, Standing(P), Op \in {"push_from_stack", "pop_to_stack"}
  PROVE  /\ Operand \in Nat /\ sp - Operand \in 1 .. sp /\ InArray(Operand) /\ Slot(Operand) # Junk
         /\ sp - F.origin = Code[F.pc][3]
<1>1. /\ Op = C.code[F.pc][1] /\ Operand = C.code[F.pc][2] /\ Fits(C, Plan(C), F.pc)
      /\ Placed(chunks, F, P[N]) /\ F \in FrameRecs /\ V.height \in Nat
      /\ P[N].back \in Nat /\ P[N].base \in Nat /\ IsPlan(C, Plan(C))
  BY StandFacts
<1>2. /\ C.code[F.pc][3] = C.entry + V.height
      /\ Operand \in Nat /\ Operand < V.height + Parameters(C)
  BY <1>1 DEF Fits, V
<1>3. P[N].base = F.origin + C.entry /\ P[N].back = P[N].base - Parameters(C)
  BY <1>1 DEF Placed, C
<1>4. C.entry \in Int /\ Parameters(C) \in Nat /\ F.origin \in Int
  BY <1>1 DEF IsPlan, FrameRecs
<1>5. sp = P[N].base + V.height
  BY DEF Standing
<1>6. sp \in Nat /\ sp <= StackSize /\ StackSize \in Nat
  BY VmAssumption DEF Inv, Memory
<1>7. sp - Operand \in 1 .. sp
  BY <1>1, <1>2, <1>3, <1>4, <1>5
<1>8. InArray(Operand) /\ Slot(Operand) # Junk
  <2>1. sp - Operand \in 1 .. StackSize
    BY <1>6, <1>7
  <2>. QED  BY <2>1, <1>7 DEF InArray, Slot, Inv, Memory
<1>9. sp - F.origin = Code[F.pc][3]
  <2>1. Code[F.pc][3] = C.code[F.pc][3]
    BY DEF Code, C
  <2>. QED  BY <2>1, <1>1, <1>2, <1>3, <1>4, <1>5
<1>. QED  BY <1>2, <1>7, <1>8, <1>9

LEMMA PushFromStackKeeps ==
  ASSUME Inv, mode = Run, NEW P, Standing(P), PushFromStackI PROVE Inv'
<1>1. Op = "push_from_stack" /\ Replace(0, Slot(Operand)) /\ Straight /\ UNCHANGED context
  BY DEF PushFromStackI, Executing
<1>2. /\ Op = C.code[F.pc][1] /\ V.height \in Nat /\ Low(Plan(C), V) \in Nat /\ Low(Plan(C), V) <= V.height
  BY StandFacts
<1>3. Slot(Operand) # Junk
  BY <1>1, SlotFacts
<1>4. Rise(C, F.pc) = 1 - 0
  BY <1>1, <1>2 DEF Rise
<1>5. V.height - 0 >= Low(Plan(C), V)
  BY <1>2
<1>6. Memory' /\ Shape'
  BY <1>1, <1>3, <1>4, <1>5, StraightFacts, ReplaceStep DEF Plain
<1>. QED  BY <1>1, <1>6, StraightFacts DEF Inv

LEMMA PopToStackKeeps ==
  ASSUME Inv, mode = Run, NEW P, Standing(P), PopToStackI PROVE Inv'
<1>1. Op = "pop_to_stack" /\ Straight /\ UNCHANGED context
  BY DEF PopToStackI, Executing
<1>2. /\ Op = C.code[F.pc][1] /\ Operand = C.code[F.pc][2] /\ Fits(C, Plan(C), F.pc)
  BY StandFacts
<1>3. Operand > 0 /\ V.height - 1 >= Low(Plan(C), V)
  BY <1>1, <1>2 DEF Fits, V
<1>4. sp - Operand \in 1 .. sp /\ Operand \in Nat
  BY <1>1, SlotFacts
<1>5. mem' = [mem EXCEPT ![sp - Operand] = Top] /\ sp' = Popped(1)
  BY <1>3, <1>4 DEF PopToStackI
<1>6. Memory' /\ (1 <= sp => sp' = sp - 1)
  <2>1. sp \in Nat /\ sp <= StackSize /\ StackSize \in Nat /\ DOMAIN mem = 1 .. StackSize
    BY VmAssumption DEF Inv, Memory
  <2>2. sp' \in 0 .. sp /\ (1 <= sp => sp' = sp - 1)
    BY <2>1, <1>5 DEF Popped
  <2>3. Top # Junk
    BY TopFacts DEF Inv
  <2>4. DOMAIN mem' = 1 .. StackSize
        /\ \A i \in 1 .. StackSize : mem'[i] = IF i = sp - Operand THEN Top ELSE mem[i]
    BY <1>5, <2>1
  <2>5. \A i \in 1 .. sp' : i \in 1 .. StackSize /\ i \in 1 .. sp
    BY <2>1, <2>2
  <2>6. \A i \in 1 .. sp' : mem'[i] # Junk
    BY <2>3, <2>4, <2>5 DEF Inv, Memory
  <2>7. sp' \in 0 .. StackSize
    BY <2>1, <2>2
  <2>. QED  BY <2>2, <2>4, <2>6, <2>7 DEF Memory
<1>7. Rise(C, F.pc) = 0 - 1
  BY <1>1, <1>2 DEF Rise
<1>8. Shape'
  BY <1>1, <1>3, <1>6, <1>7, StraightFacts, DiscardStep DEF Plain
<1>. QED  BY <1>1, <1>6, <1>8, StraightFacts DEF Inv

(* What a variable is bound to.                                            *)
LEMMA LookupFacts ==
  ASSUME Contexts, NEW s \in Syms, LookupVar(Scopes, s) # Unbound
  PROVE  LookupVar(Scopes, s) # Junk
<1>1. Len(cstack) \in Nat /\ DOMAIN cstack = 1 .. Len(cstack) /\ DOMAIN Scopes = 1 .. Len(cstack)
      /\ \A i \in 1 .. Len(cstack) : Scopes[i] = vars[cstack[i]]
  BY SeqFacts DEF Contexts, Scopes
<1>. DEFINE has == {i \in DOMAIN Scopes : Scopes[i][s] # Unbound}
<1>2. has # {} /\ LookupVar(Scopes, s) = Scopes[Max(has)][s]
  BY DEF LookupVar
<1>3. has \subseteq 1 .. Len(cstack)
  BY <1>1
<1>. HIDE DEF has
<1>4. Max(has) \in 1 .. Len(cstack)
  BY <1>1, <1>2, <1>3, MaxFacts
<1>. QED  BY <1>1, <1>2, <1>4 DEF Contexts

LEMMA ResolveKeeps ==
  ASSUME Inv, mode = Run, NEW P, Standing(P), ResolveI PROVE Inv'
<1>1. /\ Op = "resolve_sym" /\ LookupVar(Scopes, Top[2]) # Unbound
      /\ Replace(1, LookupVar(Scopes, Top[2])) /\ Straight /\ UNCHANGED context
  BY DEF ResolveI, Executing
<1>2. /\ Op = C.code[F.pc][1] /\ Fits(C, Plan(C), F.pc)
  BY StandFacts
<1>3. V.height - 1 >= Low(Plan(C), V) /\ \E s \in Syms : Known(C, F.pc) = Sym(s)
  BY <1>1, <1>2 DEF Fits, V
<1>4. Top[2] \in Syms
  <2>1. PICK s \in Syms : Known(C, F.pc) = Sym(s)
    BY <1>3
  <2>2. Known(C, F.pc) \in {AnyValue, Top}
    BY DEF Standing, Planned, C
  <2>3. Sym(s)[1] = "sym" /\ AnyValue[1] = "any" /\ Sym(s)[2] = s
    BY DEF Sym, AnyValue
  <2>4. Top = Sym(s)
    BY <2>1, <2>2, <2>3
  <2>. QED  BY <2>3, <2>4
<1>5. LookupVar(Scopes, Top[2]) # Junk
  BY <1>1, <1>4, LookupFacts DEF Inv
<1>6. Rise(C, F.pc) = 1 - 1
  BY <1>1, <1>2 DEF Rise
<1>7. Memory' /\ Shape'
  BY <1>1, <1>3, <1>5, <1>6, StraightFacts, ReplaceStep DEF Plain
<1>. QED  BY <1>1, <1>7, StraightFacts DEF Inv

LEMMA BindVarKeeps ==
  ASSUME Inv, mode = Run, NEW P, Standing(P), BindVarI PROVE Inv'
<1>1. /\ Op = "bind_var" /\ vars' = [vars EXCEPT ![Last(cstack)][Arg(0)[2]] = Arg(1)]
      /\ Discard(2) /\ Straight /\ cstack' = cstack
  BY DEF BindVarI, Executing
<1>2. /\ Op = C.code[F.pc][1] /\ Fits(C, Plan(C), F.pc)
  BY StandFacts
<1>3. V.height - 2 >= Low(Plan(C), V)
  BY <1>1, <1>2 DEF Fits, V
<1>4. Rise(C, F.pc) = 0 - 2
  BY <1>1, <1>2 DEF Rise
<1>5. Memory' /\ (2 <= sp => sp' = sp - 2)
  BY <1>1, DiscardFacts DEF Inv
<1>6. Shape'
  BY <1>1, <1>3, <1>4, <1>5, StraightFacts, DiscardStep DEF Plain
<1>7. Arg(1) # Junk
  BY TopFacts DEF Inv
<1>8. Contexts' /\ Len(vars') = Len(vars) /\ Len(vars') \in Nat
  BY <1>1, <1>7, AssignFacts DEF Inv
<1>9. Program'
  BY <1>1, <1>8, StraightFacts, StillProgram DEF Inv
<1>. QED  BY <1>1, <1>5, <1>6, <1>8, <1>9, StraightFacts DEF Inv

LEMMA PushContextKeeps ==
  ASSUME Inv, mode = Run, NEW P, Standing(P), PushContextI PROVE Inv'
<1>1. /\ Op = "push_lex_context" /\ vars' = Append(vars, NoVars) /\ cstack' = Append(cstack, Len(vars) + 1)
      /\ Straight /\ UNCHANGED values
  BY DEF PushContextI, Executing
<1>2. /\ Op = C.code[F.pc][1] /\ IsPlan(C, Plan(C)) /\ F.pc \in DOMAIN Plan(C) /\ V \in Views(C)
      /\ V.scopes \in Nat /\ P[N].own \in Nat /\ frames \in Seq(FrameRecs) /\ N > 0
  BY StandFacts
<1>3. F.pc + 1 \in DOMAIN Plan(C) /\ Plan(C)[F.pc + 1] = [V EXCEPT !.scopes = @ + 1]
  <2>1. F.pc + 1 \in DOMAIN Plan(C) /\ Plan(C)[F.pc + 1] = Moved(C, F.pc, V)
    BY <1>1, <1>2, ScopeStep DEF V
  <2>. QED  BY <2>1, <1>1, <1>2 DEF Moved
<1>4. /\ Plan(C)[F.pc + 1].height = V.height /\ Plan(C)[F.pc + 1].scopes = V.scopes + 1
      /\ Plan(C)[F.pc + 1].catch = V.catch /\ Plan(C)[F.pc + 1].saved = V.saved
  BY <1>2, <1>3 DEF Views
<1>5. F.pc \in Nat /\ F.pc + 1 \in Nat
  BY <1>2, ViewFacts
<1>6. Touched /\ F'.pc = F.pc + 1 /\ F'.bs_saved = F.bs_saved /\ F'.saved_off = F.saved_off
  BY <1>1, <1>2, <1>5, GotoFacts, StraightFacts DEF NextI
<1>7. Len(cstack) \in Nat /\ Len(vars) \in Nat
      /\ IsSeq(cstack') /\ Len(cstack') = Len(cstack) + 1 /\ cstack'[Len(cstack) + 1] = Len(vars) + 1
      /\ (\A i \in 1 .. Len(cstack) : cstack'[i] = cstack[i])
      /\ IsSeq(vars') /\ Len(vars') = Len(vars) + 1 /\ vars'[Len(vars) + 1] = NoVars
      /\ \A i \in 1 .. Len(vars) : vars'[i] = vars[i]
  BY <1>1, SeqFacts DEF Inv, Contexts
<1>8. Contexts'
  <2>1. DOMAIN NoVars = Syms /\ \A s \in Syms : NoVars[s] # Junk
    <3>1. Unbound[1] = "unbound" /\ Junk[1] = "junk"
      BY DEF Unbound, Junk
    <3>. QED  BY <3>1 DEF NoVars
  <2>2. \A i \in 1 .. Len(cstack') : i \in 1 .. Len(cstack) \/ i = Len(cstack) + 1
    BY <1>7
  <2>3. \A i \in 1 .. Len(vars') : i \in 1 .. Len(vars) \/ i = Len(vars) + 1
    BY <1>7
  <2>4. \A k \in 1 .. Len(vars) : k \in 1 .. Len(vars')
    BY <1>7
  <2>5. \A i \in 1 .. Len(cstack') : cstack'[i] \in 1 .. Len(vars')
    BY <2>2, <2>4, <1>7 DEF Inv, Contexts
  <2>6. cstack'[1] = Global /\ Len(cstack') > 0
    <3>1. 1 \in 1 .. Len(cstack)
      BY <1>7 DEF Inv, Contexts
    <3>. QED  BY <3>1, <1>7 DEF Inv, Contexts
  <2>7. \A i \in 1 .. Len(vars') : DOMAIN vars'[i] = Syms /\ \A s \in Syms : vars'[i][s] # Junk
    BY <2>1, <2>3, <1>7 DEF Inv, Contexts
  <2>. QED  BY <2>5, <2>6, <2>7, <1>7 DEF Contexts
<1>9. Program'
  <2>1. Len(vars') \in Nat /\ Len(vars') >= Len(vars)
    BY <1>7
  <2>. QED  BY <2>1, <1>1, StraightFacts, StillProgram DEF Inv
<1>10. Memory' /\ sp' = sp
  BY <1>1 DEF values, Inv, Memory
<1>11. Known(C, F.pc + 1) \in {AnyValue, Top'}
  BY <1>1, <1>2, <1>5, KnownFacts
<1>12. sp' = P[N].base + Plan(C)[F.pc + 1].height
  BY <1>4, <1>10 DEF Standing
<1>13. Len(cstack') = P[N].own + Plan(C)[F.pc + 1].scopes
  <2>1. Len(cstack) = P[N].own + V.scopes
    BY DEF Standing
  <2>. QED  BY <2>1, <1>2, <1>4, <1>7
<1>14. V.saved # NoSave => F.saved_off = P[N].base + V.saved
  BY DEF Standing, Seen
<1>15. Shape'
  BY <1>1, <1>3, <1>4, <1>6, <1>11, <1>12, <1>13, <1>14, StraightFacts, Proceed
<1>. QED  BY <1>1, <1>8, <1>9, <1>10, <1>15, StraightFacts DEF Inv

LEMMA FrontFacts ==
  ASSUME NEW s, IsSeq(s), Len(s) > 0
  PROVE  /\ IsSeq(Front(s)) /\ Len(Front(s)) = Len(s) - 1 /\ Len(s) \in Nat
         /\ \A i \in 1 .. Len(s) - 1 : Front(s)[i] = s[i]
         /\ Front(s) = SubSeq(s, 1, Len(s) - 1)
<1>1. Len(s) \in Nat /\ Len(s) - 1 \in 0 .. Len(s)
  BY SeqFacts
<1>. QED  BY <1>1, SeqFacts DEF Front

LEMMA CutContexts ==
  ASSUME Contexts, NEW n \in 1 .. Len(cstack), cstack' = SubSeq(cstack, 1, n), vars' = vars
  PROVE  Contexts' /\ Len(cstack') = n /\ Len(vars') \in Nat
<1>1. Len(cstack) \in Nat /\ n \in 0 .. Len(cstack)
  BY SeqFacts DEF Contexts
<1>2. IsSeq(cstack') /\ Len(cstack') = n /\ \A i \in 1 .. n : cstack'[i] = cstack[i]
  BY <1>1, SeqFacts DEF Contexts
<1>3. \A i \in 1 .. n : i \in 1 .. Len(cstack)
  BY <1>1
<1>4. 1 \in 1 .. n /\ n > 0
  BY <1>1
<1>5. Len(vars) \in Nat
  BY SeqFacts DEF Contexts
<1>. QED  BY <1>2, <1>3, <1>4, <1>5 DEF Contexts

LEMMA PopContextKeeps ==
  ASSUME Inv, mode = Run, NEW P, Standing(P), PopContextI PROVE Inv'
<1>1. /\ Op = "pop_lex_context" /\ Len(cstack) > 1 /\ cstack' = Front(cstack)
      /\ Straight /\ UNCHANGED <<values, vars>>
  BY DEF PopContextI, Executing
<1>2. /\ Op = C.code[F.pc][1] /\ IsPlan(C, Plan(C)) /\ F.pc \in DOMAIN Plan(C) /\ V \in Views(C)
      /\ V.scopes \in Nat /\ P[N].own \in Nat /\ frames \in Seq(FrameRecs) /\ N > 0
  BY StandFacts
<1>3. F.pc + 1 \in DOMAIN Plan(C) /\ Plan(C)[F.pc + 1] = [V EXCEPT !.scopes = @ - 1]
  <2>1. F.pc + 1 \in DOMAIN Plan(C) /\ Plan(C)[F.pc + 1] = Moved(C, F.pc, V)
    BY <1>1, <1>2, ScopeStep DEF V
  <2>. QED  BY <2>1, <1>1, <1>2 DEF Moved
<1>4. /\ Plan(C)[F.pc + 1].height = V.height /\ Plan(C)[F.pc + 1].scopes = V.scopes - 1
      /\ Plan(C)[F.pc + 1].catch = V.catch /\ Plan(C)[F.pc + 1].saved = V.saved
  BY <1>2, <1>3 DEF Views
<1>5. F.pc \in Nat /\ F.pc + 1 \in Nat
  BY <1>2, ViewFacts
<1>6. Touched /\ F'.pc = F.pc + 1 /\ F'.bs_saved = F.bs_saved /\ F'.saved_off = F.saved_off
  BY <1>1, <1>2, <1>5, GotoFacts, StraightFacts DEF NextI
<1>7. Len(cstack) \in Nat /\ Len(cstack) - 1 \in 1 .. Len(cstack) /\ cstack' = SubSeq(cstack, 1, Len(cstack) - 1)
  BY <1>1, SeqFacts, FrontFacts DEF Inv, Contexts
<1>8. Contexts' /\ Len(cstack') = Len(cstack) - 1 /\ Len(vars') \in Nat
  BY <1>1, <1>7, CutContexts DEF Inv
<1>9. Program'
  <2>1. Len(vars') >= Len(vars)
    BY <1>1, <1>8
  <2>. QED  BY <2>1, <1>1, <1>8, StraightFacts, StillProgram DEF Inv
<1>10. Memory' /\ sp' = sp
  BY <1>1 DEF values, Inv, Memory
<1>11. Known(C, F.pc + 1) \in {AnyValue, Top'}
  BY <1>1, <1>2, <1>5, KnownFacts
<1>12. sp' = P[N].base + Plan(C)[F.pc + 1].height
  BY <1>4, <1>10 DEF Standing
<1>13. Len(cstack') = P[N].own + Plan(C)[F.pc + 1].scopes
  <2>1. Len(cstack) = P[N].own + V.scopes
    BY DEF Standing
  <2>. QED  BY <2>1, <1>2, <1>4, <1>8
<1>14. V.saved # NoSave => F.saved_off = P[N].base + V.saved
  BY DEF Standing, Seen
<1>15. Shape'
  BY <1>1, <1>3, <1>4, <1>6, <1>11, <1>12, <1>13, <1>14, StraightFacts, Proceed
<1>. QED  BY <1>1, <1>8, <1>9, <1>10, <1>15, StraightFacts DEF Inv

LEMMA JumpFacts ==
  ASSUME Inv, Jump
  PROVE  /\ traps' = traps /\ mode' = mode /\ Talk' /\ Contexts' /\ Program' /\ cstack' = cstack
         /\ Grown(chunks, chunks') /\ freed' = freed
<1>1. UNCHANGED <<chunks, freed, fns, session, next, traps, mode>> /\ UNCHANGED context
  BY DEF Jump, program, io
<1>2. Talk'
  BY <1>1, StillTalk DEF Inv
<1>3. Contexts' /\ Len(vars') = Len(vars) /\ cstack' = cstack
  BY <1>1, StillContexts DEF Inv
<1>4. Len(vars) \in Nat
  BY SeqFacts DEF Inv, Contexts
<1>5. Program' /\ Grown(chunks, chunks')
  BY <1>1, <1>3, <1>4, StillProgram DEF Inv
<1>. QED  BY <1>1, <1>2, <1>3, <1>5

LEMMA GoKeeps ==
  ASSUME Inv, mode = Run, NEW P, Standing(P), GoI PROVE Inv'
<1>1. Op = "go" /\ Goto(Place(C, Operand)) /\ UNCHANGED values /\ Jump
  BY DEF GoI, Executing, Target, C
<1>2. /\ Op = C.code[F.pc][1] /\ Operand = C.code[F.pc][2]
      /\ IsPlan(C, Plan(C)) /\ F.pc \in DOMAIN Plan(C) /\ V \in Views(C)
      /\ V.height \in Nat /\ frames \in Seq(FrameRecs) /\ N > 0
  BY StandFacts
<1>. DEFINE j == Place(C, Operand)
<1>3. j \in DOMAIN Plan(C) /\ Plan(C)[j] = [V EXCEPT !.height = @ + 0]
  BY <1>1, <1>2, JumpStep DEF V
<1>4. /\ Plan(C)[j].height = V.height /\ Plan(C)[j].scopes = V.scopes
      /\ Plan(C)[j].catch = V.catch /\ Plan(C)[j].saved = V.saved
  BY <1>2, <1>3 DEF Views
<1>5. j \in Nat
  BY <1>2, <1>3, ViewFacts
<1>6. Known(C, j) = AnyValue
  BY KnownFacts
<1>7. Goto(j)
  BY <1>1
<1>. HIDE DEF j
<1>8. Touched /\ F'.pc = j /\ F'.bs_saved = F.bs_saved /\ F'.saved_off = F.saved_off
  BY <1>2, <1>5, <1>7, GotoFacts
<1>9. Memory' /\ sp' = sp
  BY <1>1 DEF values, Inv, Memory
<1>10. sp' = P[N].base + Plan(C)[j].height
  BY <1>4, <1>9 DEF Standing
<1>11. cstack' = cstack
  BY <1>1, JumpFacts
<1>12. Len(cstack') = P[N].own + Plan(C)[j].scopes
  BY <1>4, <1>11 DEF Standing
<1>13. V.saved # NoSave => F.saved_off = P[N].base + V.saved
  BY DEF Standing, Seen
<1>14. Shape'
  BY <1>1, <1>3, <1>4, <1>6, <1>8, <1>10, <1>12, <1>13, JumpFacts, Proceed
<1>. QED  BY <1>1, <1>9, <1>14, JumpFacts DEF Inv

LEMMA GoIfKeeps ==
  ASSUME Inv, mode = Run, NEW P, Standing(P), GoIfI PROVE Inv'
<1>1. /\ Op \in {"go_if_nil", "go_if_not_nil"} /\ Discard(1) /\ Jump
      /\ Goto(Place(C, Operand)) \/ Goto(F.pc + 1)
  BY DEF GoIfI, Executing, Target, C, NextI
<1>2. /\ Op = C.code[F.pc][1] /\ Operand = C.code[F.pc][2] /\ Fits(C, Plan(C), F.pc)
      /\ IsPlan(C, Plan(C)) /\ F.pc \in DOMAIN Plan(C) /\ V \in Views(C)
      /\ V.height \in Nat /\ Low(Plan(C), V) \in Nat /\ frames \in Seq(FrameRecs) /\ N > 0
      /\ P[N].base \in Nat
  BY StandFacts
<1>3. F.pc \in Nat
  BY <1>2, ViewFacts
<1>4. PICK j : Goto(j) /\ (j = Place(C, Operand) \/ j = F.pc + 1)
  BY <1>1
<1>5. j \in DOMAIN Plan(C) /\ Plan(C)[j] = [V EXCEPT !.height = @ + -1]
  BY <1>1, <1>2, <1>4, JumpStep DEF V
<1>6. /\ Plan(C)[j].height = V.height + -1 /\ Plan(C)[j].scopes = V.scopes
      /\ Plan(C)[j].catch = V.catch /\ Plan(C)[j].saved = V.saved
  BY <1>2, <1>5 DEF Views
<1>7. j \in Nat
  BY <1>2, <1>5, ViewFacts
<1>8. Known(C, j) = AnyValue
  BY <1>1, <1>2, <1>3, <1>4, KnownFacts
<1>9. Touched /\ F'.pc = j /\ F'.bs_saved = F.bs_saved /\ F'.saved_off = F.saved_off
  BY <1>2, <1>4, <1>7, GotoFacts
<1>10. V.height - 1 >= Low(Plan(C), V)
  BY <1>1, <1>2 DEF Fits, V
<1>11. sp = P[N].base + V.height
  BY DEF Standing
<1>12. Memory' /\ (1 <= sp => sp' = sp - 1)
  BY <1>1, DiscardFacts DEF Inv
<1>13. sp' = P[N].base + Plan(C)[j].height
  BY <1>2, <1>6, <1>10, <1>11, <1>12
<1>14. cstack' = cstack
  BY <1>1, JumpFacts
<1>15. Len(cstack') = P[N].own + Plan(C)[j].scopes
  BY <1>6, <1>14 DEF Standing
<1>16. V.saved # NoSave => F.saved_off = P[N].base + V.saved
  BY DEF Standing, Seen
<1>17. Shape'
  BY <1>1, <1>5, <1>6, <1>8, <1>9, <1>13, <1>15, <1>16, JumpFacts, Proceed
<1>. QED  BY <1>1, <1>12, <1>17, JumpFacts DEF Inv

LEMMA NumberFacts ==
  ASSUME NEW n \in Nat
  PROVE  n > 0 => Max({1, n}) = n
<1>. SUFFICES ASSUME n > 0 PROVE Max({1, n}) = n
  OBVIOUS
<1>. DEFINE S == {1, n}
<1>1. S \subseteq 1 .. n /\ S # {}
  OBVIOUS
<1>. HIDE DEF S
<1>2. Max(S) \in S /\ \A y \in S : y <= Max(S)
  BY <1>1, MaxFacts
<1>. QED  BY <1>2 DEF S

(* In code with a plan num_eq has no operand behind one that may differ.   *)
LEMMA TakenFacts ==
  ASSUME Op \in {"add", "subtract", "multiply", "divide", "num_eq"}, Operand \in Nat,
         Op \notin {"add", "multiply"} => Operand > 0,
         Op = "num_eq" => Operand \in 1 .. 2
  PROVE  Taken = Operand
<1>1. CASE Op \in {"add", "multiply"}
  BY <1>1 DEF Taken
<1>2. CASE Op \in {"subtract", "divide"}
  <2>1. Max({1, Operand}) = Operand
    BY <1>2, NumberFacts
  <2>. QED  BY <1>2, <2>1 DEF Taken
<1>3. CASE Op = "num_eq"
  <2>. DEFINE S == {i \in 2 .. Operand : Arg(i - 1) # Top} \cup {Max({1, Operand})}
  <2>1. Max({1, Operand}) = Operand /\ Operand \in {1, 2}
    BY <1>3, NumberFacts
  <2>2. S = {Operand}
    BY <2>1
  <2>3. Min({Operand}) = Operand
    BY DEF Min
  <2>4. Taken = Min(S)
    BY <1>3 DEF Taken
  <2>. QED  BY <2>2, <2>3, <2>4
<1>. QED  BY <1>1, <1>2, <1>3

LEMMA ArithKeeps ==
  ASSUME Inv, mode = Run, NEW P, Standing(P), ArithI PROVE Inv'
<1>1. /\ Op \in {"add", "subtract", "multiply", "divide", "num_eq"}
      /\ Op = "divide" => Operand > 0
      /\ Replace(Len(Operands), Computed) /\ Straight /\ UNCHANGED context
  BY DEF ArithI, Computes
<1>2. /\ Op = C.code[F.pc][1] /\ Operand = C.code[F.pc][2] /\ Fits(C, Plan(C), F.pc)
  BY StandFacts
<1>3. Operand \in Nat /\ V.height - Operand >= Low(Plan(C), V)
      /\ (Op \notin {"add", "multiply"} => Operand > 0)
      /\ (Op = "num_eq" => Operand \in 1 .. 2)
  BY <1>1, <1>2 DEF Fits, V
<1>4. Len(Operands) = Operand
  <2>. DEFINE m == Taken
              S == {Arg(i - 1) : i \in 1 .. m}
  <2>1. m = Operand
    BY <1>1, <1>3, TakenFacts
  <2>2. Operands = [i \in 1 .. m |-> Arg(i - 1)]
    BY DEF Operands
  <2>. HIDE DEF m
  <2>3. m \in Nat /\ \A i \in 1 .. m : Arg(i - 1) \in S
    BY <2>1, <1>3
  <2>. HIDE DEF S
  <2>4. Operands \in [1 .. m -> S]
    BY <2>2, <2>3
  <2>5. Len(Operands) = m
    BY <2>3, <2>4
  <2>. QED  BY <2>1, <2>5
<1>5. Computed # Junk
  <2>1. \A n : Num(n)[1] = "num"
    BY DEF Num
  <2>2. \A b : Truth(b) # Junk
    BY TopFacts DEF Truth, Inv
  <2>3. Junk[1] = "junk"
    BY DEF Junk
  <2>. QED  BY <1>1, <2>1, <2>2, <2>3 DEF Computed
<1>6. Rise(C, F.pc) = 1 - Len(Operands)
  BY <1>1, <1>2, <1>4 DEF Rise
<1>7. Op \in Plain /\ (Op = "divide" => Operand # 0)
  BY <1>1, <1>3 DEF Plain
<1>8. Len(Operands) \in Nat /\ V.height - Len(Operands) >= Low(Plan(C), V) /\ Op # "push"
  BY <1>1, <1>3, <1>4
<1>9. Memory' /\ Shape'
  BY <1>1, <1>5, <1>6, <1>7, <1>8, StraightFacts, ReplaceStep
<1>. QED  BY <1>1, <1>9, StraightFacts DEF Inv

(* Registers of the running frame change.                                  *)
LEMMA TouchFacts ==
  ASSUME frames \in Seq(FrameRecs), N > 0, NEW g \in FrameRecs, Same(F, g),
         frames' = [frames EXCEPT ![N] = g]
  PROVE  Touched /\ F' = g
<1>1. N \in Nat /\ N \in 1 .. N /\ N = Len(frames) /\ F = frames[N] /\ F \in FrameRecs
  BY DEF N, F, Last
<1>2. frames' \in Seq(FrameRecs) /\ Len(frames') = N
  BY <1>1
<1>3. frames'[N] = g /\ \A k \in 1 .. N - 1 : frames'[k] = frames[k]
  BY <1>1
<1>4. F' = g
  BY <1>2, <1>3 DEF F, Last
<1>. QED  BY <1>1, <1>2, <1>3, <1>4 DEF Touched

LEMMA SaveStackoffKeeps ==
  ASSUME Inv, mode = Run, NEW P, Standing(P), SaveStackoffI PROVE Inv'
<1>1. /\ Op = "save_stackoff"
      /\ frames' = [frames EXCEPT ![N].saved_off = sp, ![N].pc = F.pc + 1]
      /\ UNCHANGED <<values, context, program, io, traps, mode>>
  BY DEF SaveStackoffI, Executing, N
<1>2. /\ Op = C.code[F.pc][1] /\ IsPlan(C, Plan(C)) /\ F.pc \in DOMAIN Plan(C) /\ V \in Views(C)
      /\ frames \in Seq(FrameRecs) /\ N > 0 /\ N \in 1 .. N /\ N = Len(frames)
      /\ F \in FrameRecs /\ F = frames[N] /\ sp \in Nat
  BY StandFacts DEF N
<1>3. F.pc + 1 \in DOMAIN Plan(C) /\ Plan(C)[F.pc + 1] = [V EXCEPT !.saved = V.height]
  <2>1. F.pc + 1 \in DOMAIN Plan(C) /\ Plan(C)[F.pc + 1] = Moved(C, F.pc, V)
    BY <1>1, <1>2, ScopeStep DEF V
  <2>. QED  BY <2>1, <1>1, <1>2 DEF Moved
<1>4. /\ Plan(C)[F.pc + 1].height = V.height /\ Plan(C)[F.pc + 1].scopes = V.scopes
      /\ Plan(C)[F.pc + 1].catch = V.catch /\ Plan(C)[F.pc + 1].saved = V.height
  BY <1>2, <1>3 DEF Views
<1>5. F.pc \in Nat /\ F.pc + 1 \in Nat
  BY <1>2, ViewFacts
<1>6. PICK g : g = [F EXCEPT !.saved_off = sp, !.pc = F.pc + 1]
  OBVIOUS
<1>7. g \in FrameRecs /\ Same(F, g) /\ g.pc = F.pc + 1 /\ g.bs_saved = F.bs_saved /\ g.saved_off = sp
  <2>1. PICK h : h = [F EXCEPT !.saved_off = sp]
    OBVIOUS
  <2>2. h \in FrameRecs /\ Same(F, h) /\ h.bs_saved = F.bs_saved /\ h.saved_off = sp
    <3>1. F \in FrameRecs /\ sp \in Int
      BY <1>2
    <3>2. h \in FrameRecs
      BY <2>1, <3>1 DEF FrameRecs
    <3>3. Same(F, h) /\ h.bs_saved = F.bs_saved /\ h.saved_off = sp
      BY <2>1, <3>1 DEF FrameRecs, Same
    <3>. QED  BY <3>2, <3>3
  <2>3. g = [h EXCEPT !.pc = F.pc + 1]
    BY <2>1, <1>6
  <2>. QED  BY <2>2, <2>3, <1>5 DEF FrameRecs, Same
<1>8. frames' = [frames EXCEPT ![N] = g]
  BY <1>1, <1>2, <1>6
<1>9. Touched /\ F' = g
  BY <1>2, <1>7, <1>8, TouchFacts
<1>10. UNCHANGED context /\ UNCHANGED <<chunks, freed, fns, session, next, traps, mode>> /\ Jump
  BY <1>1 DEF program, io, Jump
<1>11. Memory' /\ sp' = sp
  BY <1>1 DEF values, Inv, Memory
<1>12. sp' = P[N].base + Plan(C)[F.pc + 1].height /\ sp = P[N].base + V.height
  BY <1>4, <1>11 DEF Standing
<1>13. cstack' = cstack
  BY <1>10, JumpFacts
<1>14. Len(cstack') = P[N].own + Plan(C)[F.pc + 1].scopes
  BY <1>4, <1>13 DEF Standing
<1>15. Known(C, F.pc + 1) \in {AnyValue, Top'}
  BY <1>1, <1>2, <1>5, KnownFacts
<1>16. F'.pc = F.pc + 1 /\ F'.bs_saved = F.bs_saved
       /\ F'.saved_off = P[N].base + Plan(C)[F.pc + 1].saved
  BY <1>4, <1>7, <1>9, <1>12
<1>17. Shape'
  BY <1>3, <1>4, <1>9, <1>10, <1>12, <1>14, <1>15, <1>16, JumpFacts, Proceed
<1>. QED  BY <1>10, <1>11, <1>17, JumpFacts DEF Inv

LEMMA RestoreStackoffKeeps ==
  ASSUME Inv, mode = Run, NEW P, Standing(P), RestoreStackoffI PROVE Inv'
<1>1. /\ Op = "restore_stackoff" /\ sp' = F.saved_off
      /\ UNCHANGED mem /\ UNCHANGED context /\ Straight
  BY DEF RestoreStackoffI, Executing
<1>2. /\ Op = C.code[F.pc][1] /\ IsPlan(C, Plan(C)) /\ F.pc \in DOMAIN Plan(C) /\ V \in Views(C)
      /\ frames \in Seq(FrameRecs) /\ N > 0 /\ Fits(C, Plan(C), F.pc) /\ V.height \in Nat
      /\ P[N].base \in Nat
  BY StandFacts
<1>3. F.pc + 1 \in DOMAIN Plan(C) /\ Plan(C)[F.pc + 1] = [V EXCEPT !.height = V.saved, !.saved = NoSave]
  <2>1. F.pc + 1 \in DOMAIN Plan(C) /\ Plan(C)[F.pc + 1] = Moved(C, F.pc, V)
    BY <1>1, <1>2, ScopeStep DEF V
  <2>. QED  BY <2>1, <1>1, <1>2 DEF Moved
<1>4. /\ Plan(C)[F.pc + 1].height = V.saved /\ Plan(C)[F.pc + 1].scopes = V.scopes
      /\ Plan(C)[F.pc + 1].catch = V.catch /\ Plan(C)[F.pc + 1].saved = NoSave
  BY <1>2, <1>3 DEF Views
<1>5. V.saved # NoSave /\ V.saved <= V.height /\ V.saved \in Nat
  <2>1. V.saved # NoSave /\ V.saved <= V.height
    BY <1>1, <1>2 DEF Fits, V
  <2>. QED  BY <2>1, <1>2 DEF Views
<1>6. F.pc \in Nat /\ F.pc + 1 \in Nat
  BY <1>2, ViewFacts
<1>7. Touched /\ F'.pc = F.pc + 1 /\ F'.bs_saved = F.bs_saved
  BY <1>1, <1>2, <1>6, GotoFacts, StraightFacts DEF NextI
<1>8. sp' = P[N].base + V.saved /\ sp = P[N].base + V.height
  BY <1>1, <1>5 DEF Standing, Seen
<1>9. Memory'
  <2>1. sp' \in Nat /\ sp' <= sp /\ sp \in Nat /\ sp <= StackSize /\ StackSize \in Nat
    BY <1>2, <1>5, <1>8, VmAssumption DEF Inv, Memory
  <2>2. sp' \in 0 .. StackSize /\ \A i \in 1 .. sp' : i \in 1 .. sp
    BY <2>1
  <2>. QED  BY <2>2, <1>1 DEF Inv, Memory
<1>10. Known(C, F.pc + 1) \in {AnyValue, Top'}
  BY <1>1, <1>2, <1>6, KnownFacts
<1>11. sp' = P[N].base + Plan(C)[F.pc + 1].height
  BY <1>4, <1>8
<1>12. cstack' = cstack
  BY <1>1, StraightFacts
<1>13. Len(cstack') = P[N].own + Plan(C)[F.pc + 1].scopes
  BY <1>4, <1>12 DEF Standing
<1>14. Shape'
  BY <1>1, <1>3, <1>4, <1>7, <1>10, <1>11, <1>13, StraightFacts, Proceed
<1>. QED  BY <1>1, <1>9, <1>14, StraightFacts DEF Inv

-------------------------------------------------------------------------------
(* Catch forms.                                                            *)

LEMMA CatchKeeps ==
  ASSUME Inv, mode = Run, NEW P, Standing(P), CatchI PROVE Inv'
<1>1. /\ Op = "catch" /\ Len(traps) < TrapSize
      /\ traps' = Append(traps, Trap("catch", Top, Popped(1), Len(frames)))
      /\ Replace(1, Nil)
      /\ frames' = [frames EXCEPT ![N].bs_saved = F.pc, ![N].pc = F.pc + 1]
      /\ UNCHANGED <<context, program, io, mode>>
  BY DEF CatchI, Executing, N, RoomForTrap
<1>2. /\ Op = C.code[F.pc][1] /\ IsPlan(C, Plan(C)) /\ F.pc \in DOMAIN Plan(C) /\ V \in Views(C)
      /\ frames \in Seq(FrameRecs) /\ N > 0 /\ N \in 1 .. N /\ N = Len(frames) /\ N = Len(P)
      /\ F \in FrameRecs /\ F = frames[N] /\ sp \in Nat /\ N \in Nat
      /\ V.height \in Nat /\ V.scopes \in Nat /\ P[N].base \in Nat /\ P[N].own \in Nat
      /\ Len(cstack) \in Nat /\ Stacked(P)
  BY StandFacts DEF N
<1>3. /\ V.catch = 0 /\ V.height > 0 /\ F.pc \in Nat /\ F.pc # 0
  <2>1. PICK c, i : c = C /\ i = F.pc
    OBVIOUS
  <2>2. IsPlan(c, Plan(c)) /\ i \in DOMAIN Plan(c) /\ c.code[i][1] = "catch"
    BY <2>1, <1>1, <1>2
  <2>3. Plan(c)[i].catch = 0 /\ Plan(c)[i].height > 0
    BY <2>2, CatchStep
  <2>4. i \in Nat /\ i # 0
    BY <2>2, ViewFacts
  <2>. QED  BY <2>1, <2>3, <2>4 DEF V
<1>4. /\ Frames(chunks, freed, frames, P) /\ Good(P, traps) /\ Seen(chunks, F, V, P[N])
      /\ sp = P[N].base + V.height /\ Len(cstack) = P[N].own + V.scopes
  BY DEF Standing
(* The frame.                                                              *)
<1>5. PICK h, g : h = [F EXCEPT !.bs_saved = F.pc] /\ g = [h EXCEPT !.pc = F.pc + 1]
  OBVIOUS
<1>6. g \in FrameRecs /\ Same(F, g) /\ g.pc = F.pc + 1 /\ g.bs_saved = F.pc /\ g.saved_off = F.saved_off
  <2>1. F \in FrameRecs /\ F.pc \in Int /\ F.pc + 1 \in Nat
    BY <1>2, <1>3
  <2>2. h \in FrameRecs
    BY <2>1, <1>5 DEF FrameRecs
  <2>3. Same(F, h) /\ h.bs_saved = F.pc /\ h.saved_off = F.saved_off
    BY <2>1, <1>5 DEF FrameRecs, Same
  <2>4. g \in FrameRecs
    BY <2>1, <2>2, <1>5 DEF FrameRecs
  <2>5. Same(h, g) /\ g.pc = F.pc + 1 /\ g.bs_saved = h.bs_saved /\ g.saved_off = h.saved_off
    BY <2>2, <1>5 DEF FrameRecs, Same
  <2>. QED  BY <2>3, <2>4, <2>5 DEF Same
<1>7. frames' = [frames EXCEPT ![N] = g]
  BY <1>1, <1>2, <1>5
<1>8. Touched /\ F' = g
  BY <1>2, <1>6, <1>7, TouchFacts
(* The trap.                                                               *)
<1>9. PICK t : t = Trap("catch", Top, Popped(1), Len(frames))
  OBVIOUS
<1>10. /\ t.owner = "catch" /\ t.live = TRUE /\ t.frame = N /\ t.at = F.pc
       /\ t.off = sp - 1 /\ t.lvl = Len(cstack)
  <2>1. Popped(1) = sp - 1
    BY <1>2, <1>3, <1>4 DEF Popped
  <2>. QED  BY <2>1, <1>2, <1>9 DEF Trap
<1>11. PICK Q : Q = Catching(P, t.at, t.off, t.lvl)
  OBVIOUS
<1>21. t.at \in Nat /\ t.at # 0 /\ t.off \in Int /\ t.lvl \in Nat /\ P[N].base <= t.off /\ P[N].own <= t.lvl
  <2>1. PICK m, b, o, x, z : m = V.height /\ b = P[N].base /\ o = P[N].own /\ x = V.scopes /\ z = sp
    OBVIOUS
  <2>2. m \in Nat /\ m > 0 /\ b \in Nat /\ o \in Nat /\ x \in Nat
    BY <2>1, <1>2, <1>3
  <2>6. z = b + m /\ t.off = z - 1
    BY <2>1, <1>4, <1>10
  <2>7. t.lvl = o + x
    BY <2>1, <1>4, <1>10
  <2>3. t.off = b + m - 1 /\ t.lvl = o + x
    BY <2>2, <2>6, <2>7
  <2>4. t.off \in Int /\ t.lvl \in Nat /\ b <= t.off /\ o <= t.lvl
    BY <2>2, <2>3
  <2>5. t.at \in Nat /\ t.at # 0
    BY <1>3, <1>10
  <2>. QED  BY <2>1, <2>4, <2>5
<1>12. Good(Q, traps') /\ Len(Q) = N
  <2>1. P[N].catch = 0
    BY <1>3, <1>4 DEF Seen
  <2>2. t.at \in Nat /\ t.at # 0 /\ t.off \in Int /\ t.lvl \in Nat /\ P[N].base <= t.off /\ P[N].own <= t.lvl
    BY <1>21
  <2>3. PICK n : n = N
    OBVIOUS
  <2>4. n = Len(P) /\ n > 0
    BY <2>3, <1>2
  <2>5. /\ Good(P, traps) /\ Len(P) > 0 /\ P[Len(P)].catch = 0
        /\ P[Len(P)].base <= t.off /\ P[Len(P)].own <= t.lvl
    BY <2>1, <2>2, <2>3, <2>4, <1>4
  <2>6. t.owner = "catch" /\ t.live = TRUE /\ t.frame = Len(P)
    BY <2>3, <2>4, <1>10
  <2>7. Good(Q, Append(traps, t)) /\ Len(Q) = Len(P)
    BY <2>2, <2>5, <2>6, <1>11, EnterCatch
  <2>. QED  BY <2>3, <2>4, <2>7, <1>1, <1>9
<1>13. /\ \A j \in 1 .. N : /\ j # N => Q[j] = P[j]
                            /\ Q[j].kind = P[j].kind /\ Q[j].base = P[j].base
                            /\ Q[j].own = P[j].own /\ Q[j].back = P[j].back
       /\ Q[N].catch = F.pc /\ Q[N].low = sp - 1 /\ Q[N].lows = Len(cstack)
  <2>1. PICK n, k, low, lows : n = N /\ k = t.at /\ low = t.off /\ lows = t.lvl
    OBVIOUS
  <2>2. /\ n = Len(P) /\ Len(P) > 0 /\ Stacked(P) /\ k \in Nat /\ low \in Int /\ lows \in Nat
        /\ P[Len(P)].base <= low /\ P[Len(P)].own <= lows /\ Q = Catching(P, k, low, lows)
    BY <2>1, <1>2, <1>11, <1>21
  <2>3. /\ \A j \in 1 .. Len(P) : /\ j # Len(P) => Q[j] = P[j]
                                  /\ Q[j].kind = P[j].kind /\ Q[j].base = P[j].base
                                  /\ Q[j].own = P[j].own /\ Q[j].back = P[j].back
        /\ Q[Len(P)].catch = k /\ Q[Len(P)].low = low /\ Q[Len(P)].lows = lows
    BY <2>2, CatchingFrames
  <2>4. k = F.pc /\ low = sp - 1 /\ lows = Len(cstack)
    BY <2>1, <1>10
  <2>. QED  BY <2>1, <2>2, <2>3, <2>4
<1>14. UNCHANGED <<chunks, freed, fns, session, next, mode>> /\ UNCHANGED context /\ Grown(chunks, chunks')
  BY <1>1 DEF program, io, Grown
<1>15. Frames(chunks', freed', frames', Q) /\ N' = N /\ F' = frames'[N]
  <2>1. N' = N /\ F' = frames'[N]
    BY <1>2, <1>8 DEF Touched, N, F, Last
  <2>2. PICK gs : gs = frames'
    OBVIOUS
  <2>3. /\ gs \in Seq(FrameRecs) /\ Len(gs) = N /\ Same(frames[N], gs[N])
        /\ \A j \in 1 .. N - 1 : gs[j] = frames[j]
    BY <2>1, <2>2, <1>2, <1>8 DEF Touched
  <2>4. \A j \in 1 .. N - 1 : Q[j] = P[j]
    BY <1>2, <1>13
  <2>5. \A j \in 1 .. N : frames[j].chunk \notin freed
    BY <1>2, <1>4 DEF Frames
  <2>6. Grown(chunks, chunks)
    BY DEF Grown
  <2>7. Q[N].base = P[N].base /\ Q[N].back = P[N].back /\ Q[N].own = P[N].own /\ Q[N].kind = P[N].kind
    BY <1>2, <1>13
  <2>8. Len(Q) = Len(gs) /\ Len(gs) > 0 /\ Len(gs) <= Len(frames)
    BY <2>3, <1>2, <1>12
  <2>9. PICK fs, n : fs = frames /\ n = N
    OBVIOUS
  <2>10. Frames(chunks, freed, fs, P) /\ Len(gs) = n /\ n \in Nat /\ Len(gs) > 0 /\ Len(gs) <= Len(fs)
    BY <2>3, <2>8, <2>9, <1>2, <1>4
  <2>11. \A j \in 1 .. n - 1 : gs[j] = fs[j] /\ Q[j] = P[j]
    BY <2>3, <2>4, <2>9
  <2>12. (\A j \in 1 .. n : fs[j].chunk \notin freed) /\ Same(fs[n], gs[n])
    BY <2>3, <2>5, <2>9
  <2>13. Q[n].base = P[n].base /\ Q[n].back = P[n].back /\ Q[n].own = P[n].own /\ Q[n].kind = P[n].kind
    BY <2>7, <2>9
  <2>14. gs \in Seq(FrameRecs) /\ Len(Q) = Len(gs)
    BY <2>3, <2>8
  <2>15. Frames(chunks, freed, gs, Q)
    BY <2>6, <2>10, <2>11, <2>12, <2>13, <2>14, Retouch
  <2>. QED  BY <2>1, <2>2, <2>15, <1>14
<1>16. Memory' /\ Top' = Nil /\ sp' = sp
  <2>1. Nil # Junk /\ Memory
    BY TopFacts DEF Inv
  <2>2. Memory' /\ Top' = Nil /\ (1 <= sp => sp' = sp - 1 + 1)
    BY <2>1, <1>1, ReplaceFacts
  <2>. QED  BY <2>2, <1>2, <1>3, <1>4
<1>17. Runs(chunks', F', Q[N], sp', Len(cstack'), Top')
  <2>. DEFINE v == Entered(V, F.pc)
  <2>1. /\ v.height = V.height /\ v.scopes = V.scopes /\ v.catch = F.pc /\ v.saved = V.saved
    BY <1>2 DEF Entered, Views
  <2>2. F'.chunk = F.chunk /\ PlanIn(chunks', F') = Plan(C) /\ chunks'[F'.chunk] = C
    BY <1>8, <1>14 DEF Touched, Same, PlanIn, C
  <2>3. Low(Plan(C), v) = V.height - 1 /\ LowScopes(Plan(C), v) = V.scopes
    BY <2>1, <1>3 DEF Low, LowScopes, V
  <2>4. V.saved # NoSave => F'.saved_off = Q[N].base + V.saved
    BY <1>2, <1>4, <1>6, <1>8, <1>13 DEF Seen
  <2>5. Seen(chunks', F', v, Q[N])
    <3>1. Q[N].base = P[N].base /\ Q[N].own = P[N].own
      BY <1>2, <1>13
    <3>2. sp - 1 = Q[N].base + (V.height - 1) /\ Len(cstack) = Q[N].own + V.scopes
      <4>1. PICK m, b : m = V.height /\ b = P[N].base
        OBVIOUS
      <4>2. m \in Nat /\ b \in Nat /\ sp = b + m
        BY <4>1, <1>2, <1>4
      <4>3. sp - 1 = b + (m - 1)
        BY <4>2
      <4>. QED  BY <3>1, <4>1, <4>3, <1>4
    <3>. QED  BY <3>2, <2>1, <2>2, <2>3, <2>4, <1>6, <1>8, <1>13 DEF Seen
  <2>6. Branching(chunks', F', Top', v)
    <3>1. F'.pc - 1 = F.pc
      BY <1>3, <1>6, <1>8
    <3>. QED  BY <3>1, <2>2, <1>1, <1>2, <1>16 DEF Branching, V
  <2>7. Len(cstack') = Q[N].own + v.scopes /\ sp' = Q[N].base + v.height
    <3>1. cstack' = cstack
      BY <1>14 DEF context
    <3>. QED  BY <3>1, <2>1, <1>2, <1>4, <1>13, <1>16
  <2>. HIDE DEF v
  <2>. QED  BY <2>5, <2>6, <2>7 DEF Runs
<1>18. Shape'
  <2>1. Running(Q)'
    BY <1>2, <1>12, <1>15, <1>17 DEF Running
  <2>2. mode' = Run /\ mode' \notin {Prompt, Done}
    BY <1>14 DEF Run, Prompt, Done
  <2>. QED  BY <2>1, <2>2 DEF Shape
<1>19. Talk'
  <2>1. IsSeq(traps) /\ Len(traps) \in Nat
    BY SeqFacts DEF Inv, Talk
  <2>2. IsSeq(traps') /\ Len(traps') = Len(traps) + 1
    BY <2>1, <1>1, SeqFacts
  <2>3. Len(traps') <= TrapSize
    BY <2>1, <2>2, <1>1, VmAssumption
  <2>. QED  BY <2>2, <2>3, <1>14 DEF Inv, Talk
<1>20. Contexts' /\ Program'
  <2>1. Contexts' /\ Len(vars') = Len(vars)
    BY <1>14, StillContexts DEF Inv
  <2>2. Len(vars) \in Nat
    BY SeqFacts DEF Inv, Contexts
  <2>. QED  BY <2>1, <2>2, <1>14, StillProgram DEF Inv
<1>. QED  BY <1>16, <1>18, <1>19, <1>20 DEF Inv

(* The jump behind a catch: the first time the body is entered, after the  *)
(* longjmp the handler is.                                                 *)
LEMMA EnteredFacts ==
  ASSUME NEW c, NEW p, IsPlan(c, p), NEW i \in DOMAIN p, c.code[i][1] = "catch",
         NEW v, v = Entered(p[i], i)
  PROVE  /\ i + 2 \in DOMAIN p /\ i + 2 \in Nat /\ Known(c, i + 2) = AnyValue
         /\ p[i + 2].catch = v.catch /\ p[i + 2].saved = v.saved /\ p[i + 2].scopes = v.scopes
         /\ p[i + 2].height = v.height - 1 /\ v.height \in Nat /\ v.height > 0
<1>1. /\ p[i].height > 0 /\ i + 2 \in DOMAIN p /\ c.code[i + 1][1] = "go_if_not_nil"
      /\ p[i + 2].catch = i /\ p[i + 2].height = p[i].height - 1
      /\ p[i + 2].scopes = p[i].scopes /\ p[i + 2].saved = p[i].saved
  BY CatchStep
<1>2. i \in Nat /\ p[i] \in Views(c) /\ p[i].height \in Nat
  BY ViewFacts
<1>3. v.catch = i /\ v.saved = p[i].saved /\ v.scopes = p[i].scopes /\ v.height = p[i].height
  BY <1>2 DEF Entered, Views
<1>4. Known(c, (i + 1) + 1) = AnyValue /\ (i + 1) + 1 = i + 2 /\ i + 2 \in Nat
  BY <1>1, <1>2, KnownFacts
<1>. QED  BY <1>1, <1>2, <1>3, <1>4

LEMMA ThrownFacts ==
  ASSUME NEW c, NEW p, IsPlan(c, p), NEW i \in DOMAIN p, c.code[i][1] = "catch",
         NEW v, v = Thrown(p[i]), NEW j, j = Place(c, c.code[i + 1][2])
  PROVE  /\ j \in DOMAIN p /\ j \in Nat /\ Known(c, j) = AnyValue
         /\ p[j].catch = v.catch /\ p[j].saved = v.saved /\ p[j].scopes = v.scopes
         /\ p[j].height = v.height - 1 /\ v.height \in Nat /\ v.height > 0
<1>1. \A k : k = Place(c, c.code[i + 1][2]) => k \in DOMAIN p /\ p[k] = p[i]
  BY CatchStep
<1>2. i \in Nat /\ p[i] \in Views(c) /\ p[i].height \in Nat
  BY ViewFacts
<1>3. /\ v.catch = p[i].catch /\ v.saved = p[i].saved /\ v.scopes = p[i].scopes
      /\ v.height = p[i].height + 1
  BY <1>2 DEF Thrown, Views
<1>4. j \in DOMAIN p /\ p[j] = p[i]
  BY <1>1
<1>5. j \in Nat
  BY <1>4, ViewFacts
<1>6. Known(c, j) = AnyValue
  BY <1>2, KnownFacts
<1>. QED  BY <1>2, <1>3, <1>4, <1>5, <1>6

LEMMA BranchKeeps ==
  ASSUME Inv, mode = Run, NEW P, Running(P), Op = "go_if_not_nil", F.pc - 1 \in DOMAIN Plan(C),
         NEW v, Branching(chunks, F, Top, v), Seen(chunks, F, v, P[N]),
         sp = P[N].base + v.height, Len(cstack) = P[N].own + v.scopes, GoIfI
  PROVE  Inv'
<1>1. /\ Discard(1) /\ Jump
      /\ IF Top # Nil THEN Goto(Place(C, Operand)) ELSE Goto(F.pc + 1)
  BY DEF GoIfI, Target, C, NextI
<1>2. N > 0 /\ Frames(chunks, freed, frames, P) /\ Good(P, traps) /\ Stacked(P)
  BY DEF Running, Good
<1>3. /\ N \in Nat /\ N \in 1 .. N /\ frames \in Seq(FrameRecs) /\ F.pc \in Nat
      /\ IsPlan(C, Plan(C)) /\ PlanIn(chunks, F) = Plan(C) /\ Operand = C.code[F.pc][2]
      /\ P[N].base \in Nat /\ sp \in Nat
  BY <1>2, RunFacts
<1>4. PICK c, p, i : c = C /\ p = Plan(C) /\ i = F.pc - 1
  OBVIOUS
<1>5. i \in DOMAIN p /\ IsPlan(c, p) /\ F.pc = i + 1 /\ F.pc + 1 = i + 2
  BY <1>3, <1>4
<1>6. /\ c.code[i][1] = "catch"
      /\ \/ Top = Nil /\ v = Entered(p[i], i)
         \/ Top = T /\ v = Thrown(p[i])
  <2>1. PlanIn(chunks, F) = Plan(C) /\ chunks[F.chunk] = C
    BY <1>3 DEF C
  <2>. QED  BY <2>1, <1>4 DEF Branching
<1>7. PICK j : /\ Goto(j)
               /\ \/ v = Entered(p[i], i) /\ j = i + 2
                  \/ v = Thrown(p[i]) /\ j = Place(c, c.code[i + 1][2])
  <2>1. T # Nil
    BY TopFacts DEF Inv
  <2>. QED  BY <2>1, <1>1, <1>3, <1>4, <1>5, <1>6
<1>8. /\ j \in DOMAIN p /\ j \in Nat /\ Known(c, j) = AnyValue
      /\ p[j].catch = v.catch /\ p[j].saved = v.saved /\ p[j].scopes = v.scopes
      /\ p[j].height = v.height - 1 /\ v.height \in Nat /\ v.height > 0
  <2>1. IsPlan(c, p) /\ i \in DOMAIN p /\ c.code[i][1] = "catch"
    BY <1>5, <1>6
  <2>2. CASE v = Entered(p[i], i) /\ j = i + 2
    BY <2>1, <2>2, EnteredFacts
  <2>3. CASE v = Thrown(p[i]) /\ j = Place(c, c.code[i + 1][2])
    BY <2>1, <2>3, ThrownFacts
  <2>. QED  BY <2>2, <2>3, <1>7
<1>9. Touched /\ F'.pc = j /\ F'.bs_saved = F.bs_saved /\ F'.saved_off = F.saved_off
  BY <1>2, <1>3, <1>7, <1>8, GotoFacts
<1>10. Memory' /\ (1 <= sp => sp' = sp - 1)
  BY <1>1, DiscardFacts DEF Inv
<1>11. sp' = P[N].base + Plan(C)[j].height
  <2>1. PICK h, b, x : h = v.height /\ b = P[N].base /\ x = Plan(C)[j].height
    OBVIOUS
  <2>2. h \in Nat /\ h > 0 /\ b \in Nat /\ x = h - 1
    BY <2>1, <1>3, <1>4, <1>8
  <2>3. sp = b + h
    BY <2>1, <1>3
  <2>4. sp' = sp - 1
    BY <2>2, <2>3, <1>10
  <2>5. sp' = b + x
    BY <2>2, <2>3, <2>4
  <2>. QED  BY <2>1, <2>5
<1>12. cstack' = cstack
  BY <1>1, JumpFacts
<1>13. Len(cstack') = P[N].own + Plan(C)[j].scopes
  BY <1>4, <1>8, <1>12
<1>14. Plan(C)[j].saved # NoSave => F'.saved_off = P[N].base + Plan(C)[j].saved
  BY <1>4, <1>8, <1>9 DEF Seen
<1>15. Known(C, j) \in {AnyValue, Top'} /\ Plan(C)[j].catch = v.catch /\ j \in DOMAIN Plan(C)
  BY <1>4, <1>8
<1>16. Shape'
  BY <1>1, <1>2, <1>9, <1>11, <1>13, <1>14, <1>15, JumpFacts, Settle
<1>. QED  BY <1>1, <1>10, <1>16, JumpFacts DEF Inv

LEMMA PopCatchKeeps ==
  ASSUME Inv, mode = Run, NEW P, Standing(P), PopCatchI PROVE Inv'
<1>1. /\ Op = "pop_catch" /\ traps' = PopTrap(traps) /\ NextI
      /\ UNCHANGED <<values, context, program, io, mode>>
  BY DEF PopCatchI, Executing
<1>2. /\ Op = C.code[F.pc][1] /\ IsPlan(C, Plan(C)) /\ F.pc \in DOMAIN Plan(C) /\ V \in Views(C)
      /\ frames \in Seq(FrameRecs) /\ N > 0 /\ N \in 1 .. N /\ N = Len(frames) /\ N = Len(P)
      /\ N \in Nat /\ Fits(C, Plan(C), F.pc) /\ Stacked(P)
      /\ V.height \in Nat /\ V.scopes \in Nat /\ P[N].base \in Nat /\ P[N].own \in Nat
  BY StandFacts DEF N
<1>3. /\ Frames(chunks, freed, frames, P) /\ Good(P, traps) /\ Seen(chunks, F, V, P[N])
      /\ sp = P[N].base + V.height /\ Len(cstack) = P[N].own + V.scopes
  BY DEF Standing
<1>4. V.catch # 0 /\ P[N].catch # 0
  BY <1>1, <1>2, <1>3 DEF Fits, V, Seen
<1>5. PICK k, n : k = Len(traps) /\ n = N
  OBVIOUS
<1>6. k \in 1 .. k /\ traps[k].frame = n /\ traps[k].owner = "catch"
  <2>1. Len(P) > 0 /\ P[Len(P)].catch # 0
    BY <1>2, <1>4
  <2>2. Len(traps) \in 1 .. Len(traps) /\ traps[Len(traps)].frame = Len(P) /\ traps[Len(traps)].owner = "catch"
    BY <2>1, <1>3, LastTrap
  <2>. QED  BY <2>2, <1>2, <1>5
<1>7. PICK Q : Q = Calm(Cut(P, n))
  OBVIOUS
<1>8. Good(Q, SubSeq(traps, 1, k - 1))
  BY <1>3, <1>5, <1>6, <1>7, LeaveCatch
<1>9. IsSeq(traps) /\ k \in Nat /\ k > 0
  BY <1>5, <1>6, SeqFacts DEF Inv, Talk
<1>10. traps' = SubSeq(traps, 1, k - 1)
  <2>1. traps # << >>
    BY <1>5, <1>9
  <2>. QED  BY <2>1, <1>1, <1>5, <1>9, FrontFacts DEF PopTrap
<1>11. /\ Len(Q) = n /\ \A j \in 1 .. n - 1 : Q[j] = P[j]
       /\ Q[n].kind = P[n].kind /\ Q[n].base = P[n].base /\ Q[n].own = P[n].own /\ Q[n].back = P[n].back
       /\ Q[n].catch = 0 /\ Q[n].low = P[n].base /\ Q[n].lows = P[n].own
  <2>1. n \in 1 .. Len(P) /\ n \in Nat
    BY <1>2, <1>5
  <2>2. /\ Len(Q) = n /\ \A j \in 1 .. n : /\ j # n => Q[j] = P[j]
                                           /\ Q[j].kind = P[j].kind /\ Q[j].base = P[j].base
                                           /\ Q[j].own = P[j].own /\ Q[j].back = P[j].back
        /\ Q[n].catch = 0 /\ Q[n].low = P[n].base /\ Q[n].lows = P[n].own
    BY <2>1, <1>2, <1>7, CalmFacts
  <2>3. n \in 1 .. n /\ \A j \in 1 .. n - 1 : j \in 1 .. n /\ j # n
    BY <2>1
  <2>. QED  BY <2>2, <2>3
<1>12. F.pc \in Nat /\ F.pc + 1 \in Nat
  BY <1>2, ViewFacts
<1>13. Touched /\ F'.pc = F.pc + 1 /\ F'.bs_saved = F.bs_saved /\ F'.saved_off = F.saved_off
  BY <1>1, <1>2, <1>12, GotoFacts DEF NextI
<1>14. UNCHANGED <<chunks, freed, fns, session, next, mode, mem, sp>> /\ UNCHANGED context
       /\ Grown(chunks, chunks') /\ UNCHANGED cstack
  BY <1>1 DEF program, io, Grown, values, context
<1>15. /\ N' = N /\ Frames(chunks', freed', frames', Q) /\ F' = frames'[N]
       /\ chunks'[F'.chunk] = C /\ PlanIn(chunks', F') = Plan(C)
  <2>1. Frames(chunks, freed, frames, P) /\ N > 0 /\ Touched
    BY <1>2, <1>3, <1>13
  <2>2. Grown(chunks, chunks') /\ freed' = freed
    BY <1>14
  <2>3. Len(Q) = N /\ \A j \in 1 .. N - 1 : Q[j] = P[j]
    BY <1>5, <1>11
  <2>4. Q[N].base = P[N].base /\ Q[N].back = P[N].back /\ Q[N].own = P[N].own /\ Q[N].kind = P[N].kind
    BY <1>5, <1>11
  <2>. QED  BY <2>1, <2>2, <2>3, <2>4, Reframed
<1>16. PICK w : w = Plan(C)[F.pc + 1]
  OBVIOUS
<1>17. /\ F.pc + 1 \in DOMAIN Plan(C)
       /\ w.catch = 0 /\ w.height = V.height /\ w.scopes = V.scopes /\ w.saved = V.saved
  <2>1. PICK c, i : c = C /\ i = F.pc
    OBVIOUS
  <2>2. i \in DOMAIN Plan(c) /\ IsPlan(c, Plan(c)) /\ c.code[i][1] = "pop_catch"
    BY <2>1, <1>1, <1>2
  <2>3. i + 1 \in DOMAIN Plan(c) /\ Plan(c)[i + 1] = Moved(c, i, Plan(c)[i])
    BY <2>2, ScopeStep
  <2>4. Plan(c)[i + 1] = [Plan(c)[i] EXCEPT !.catch = 0]
    BY <2>2, <2>3 DEF Moved
  <2>. QED  BY <2>1, <2>3, <2>4, <1>2, <1>16 DEF Views, V
<1>18. Runs(chunks', F', Q[N], sp', Len(cstack'), Top')
  <2>1. Low(Plan(C), w) = 0 /\ LowScopes(Plan(C), w) = 0
    BY <1>17 DEF Low, LowScopes
  <2>2. V.saved # NoSave => F.saved_off = P[N].base + V.saved
    BY <1>3 DEF Seen
  <2>3. Seen(chunks', F', w, Q[N])
    BY <2>1, <2>2, <1>2, <1>5, <1>11, <1>13, <1>15, <1>17 DEF Seen
  <2>4. Known(C, F.pc + 1) = AnyValue
    <3>1. C.code[F.pc][1] # "push"
      BY <1>1, <1>2
    <3>. QED  BY <3>1, <1>12, KnownFacts
  <2>5. Planned(chunks', F', Top', w)
    BY <2>4, <1>13, <1>15, <1>16, <1>17 DEF Planned
  <2>6. sp' = Q[N].base + w.height /\ Len(cstack') = Q[N].own + w.scopes
    BY <1>3, <1>5, <1>11, <1>14, <1>17
  <2>. QED  BY <2>3, <2>5, <2>6 DEF Runs
<1>19. Shape'
  <2>1. Good(Q, traps')
    BY <1>8, <1>10
  <2>2. Running(Q)'
    BY <2>1, <1>2, <1>15, <1>18 DEF Running
  <2>3. mode' = Run /\ mode' \notin {Prompt, Done}
    BY <1>14 DEF Run, Prompt, Done
  <2>. QED  BY <2>2, <2>3 DEF Shape
<1>20. Talk'
  <2>1. k - 1 \in 0 .. Len(traps) /\ Len(traps) <= TrapSize /\ TrapSize \in Nat
    BY <1>5, <1>9, VmAssumption DEF Inv, Talk
  <2>2. IsSeq(traps') /\ Len(traps') = k - 1
    BY <2>1, <1>9, <1>10, SeqFacts
  <2>3. Len(traps') <= TrapSize
    BY <2>1, <2>2, <1>5, <1>9
  <2>. QED  BY <2>2, <2>3, <1>14 DEF Inv, Talk
<1>21. Contexts' /\ Program'
  <2>1. Contexts' /\ Len(vars') = Len(vars)
    BY <1>14, StillContexts DEF Inv
  <2>2. Len(vars) \in Nat
    BY SeqFacts DEF Inv, Contexts
  <2>. QED  BY <2>1, <2>2, <1>14, StillProgram DEF Inv
<1>22. Memory'
  BY <1>14 DEF Inv, Memory
<1>. QED  BY <1>19, <1>20, <1>21, <1>22 DEF Inv

-------------------------------------------------------------------------------
(* Calls of what the machine has built in.                                 *)

LEMMA CallStep ==
  ASSUME Inv, Verified, mode = Run, NEW P, Standing(P), Op = "call", NEW f, Top = Native(f),
         NEW n \in Nat, Pops(Top, Operand) = n, Pushes(Top) = 1, NEW x, x # Junk, Replace(n, x),
         NextI, Grown(chunks, chunks'), freed' = freed, traps' = traps, mode' = mode, cstack' = cstack
  PROVE  Memory' /\ Shape'
<1>1. Callable(Top)
  BY NativeFacts
<1>2. Rise(C, F.pc) = 1 - n /\ V.height - n >= Low(Plan(C), V)
  BY <1>1, CallFacts
<1>. QED  BY <1>2, ReplaceStep DEF Plain

LEMMA CallListKeeps ==
  ASSUME Inv, Verified, mode = Run, NEW P, Standing(P), CallList PROVE Inv'
<1>1. Op = "call" /\ Top = Native("LIST") /\ Straight /\ UNCHANGED context
  BY DEF CallList, Calling, Executing
<1>2. PICK x : Replace(1 + Operand, x) /\ (x = Nil \/ \E s : x = List(s))
  BY DEF CallList
<1>3. x # Junk
  BY <1>2, TopFacts DEF List, Junk, Inv
<1>4. Callable(Top) /\ Pushes(Top) = 1 /\ Pops(Top, Operand) = Operand + 1
  BY <1>1, NativeFacts
<1>5. Operand \in Nat
  BY <1>1, <1>4, CallFacts
<1>6. 1 + Operand \in Nat /\ Pops(Top, Operand) = 1 + Operand
  BY <1>4, <1>5
<1>7. Memory' /\ Shape'
  BY <1>1, <1>2, <1>3, <1>4, <1>6, StraightFacts, CallStep
<1>. QED  BY <1>1, <1>7, StraightFacts DEF Inv

LEMMA CallCompareKeeps ==
  ASSUME Inv, Verified, mode = Run, NEW P, Standing(P), CallCompare PROVE Inv'
<1>1. PICK f \in {">", "<"} : Compares(f) /\ \E x \in {T, Nil} : Replace(3, x)
  BY DEF CallCompare, Truth
<1>2. PICK x \in {T, Nil} : Replace(3, x)
  BY <1>1
<1>3. /\ Op = "call" /\ Top = Native(f) /\ (f = "<" => Operand = 2) /\ Straight /\ UNCHANGED context
  BY <1>1 DEF CallCompare, Compares, Calling, Executing
<1>4. x # Junk
  BY TopFacts DEF Inv
<1>5. Pops(Top, Operand) = 3 /\ Pushes(Top) = 1
  <2>1. CASE f = ">"
    BY <2>1, <1>3, NativeFacts
  <2>2. CASE f = "<"
    BY <2>2, <1>3, NativeFacts
  <2>. QED  BY <2>1, <2>2
<1>6. Memory' /\ Shape'
  BY <1>2, <1>3, <1>4, <1>5, StraightFacts, CallStep
<1>. QED  BY <1>3, <1>6, StraightFacts DEF Inv

LEMMA CallBindKeeps ==
  ASSUME Inv, Verified, mode = Run, NEW P, Standing(P), CallBind PROVE Inv'
<1>1. /\ Op = "call" /\ Top = Native("BIND") /\ Operand = 2
      /\ vars' = [vars EXCEPT ![Last(cstack)][Arg(2)[2]] = Arg(1)]
      /\ Replace(3, Arg(1)) /\ Straight /\ cstack' = cstack
  BY DEF CallBind, Calling, Executing
<1>2. Arg(1) # Junk
  BY TopFacts DEF Inv
<1>3. Pops(Top, Operand) = 3 /\ Pushes(Top) = 1
  BY <1>1, NativeFacts
<1>4. Memory' /\ Shape'
  BY <1>1, <1>2, <1>3, StraightFacts, CallStep
<1>5. Contexts' /\ Len(vars') = Len(vars) /\ Len(vars') \in Nat
  BY <1>1, <1>2, AssignFacts DEF Inv
<1>6. Program'
  BY <1>1, <1>5, StraightFacts, StillProgram DEF Inv
<1>. QED  BY <1>1, <1>4, <1>5, <1>6, StraightFacts DEF Inv

LEMMA CallFunctionKeeps ==
  ASSUME Inv, Verified, mode = Run, NEW P, Standing(P), CallFunction PROVE Inv'
<1>1. /\ Op = "call" /\ Top = Native("FUNCTION") /\ Operand = 1
      /\ Replace(2, FunctionNamed(Arg(1)[2])) /\ Straight /\ UNCHANGED context
  BY DEF CallFunction, Calling, Executing
<1>2. ASSUME NEW s PROVE FunctionNamed(s) # Junk
  <2>1. \A k : CodeRef(k) # Junk
    BY DEF CodeRef, Junk
  <2>2. \A g : Native(g) # Junk
    BY NativeFacts
  <2>3. Nil # Junk
    BY TopFacts DEF Inv
  <2>4. \A g \in FnNames : fns[g] = Unbound \/ \E k \in 1 .. Len(chunks) : fns[g] = CodeRef(k)
    BY DEF Inv, Program
  <2>. QED  BY <2>1, <2>2, <2>3, <2>4 DEF FunctionNamed
<1>3. Pops(Top, Operand) = 2 /\ Pushes(Top) = 1
  BY <1>1, NativeFacts
<1>4. Memory' /\ Shape'
  BY <1>1, <1>2, <1>3, StraightFacts, CallStep
<1>. QED  BY <1>1, <1>4, StraightFacts DEF Inv

LEMMA OnwardFacts ==
  ASSUME Inv, UNCHANGED <<context, program>>
  PROVE  /\ Contexts' /\ Program' /\ Grown(chunks, chunks') /\ freed' = freed /\ cstack' = cstack
<1>1. UNCHANGED <<chunks, freed, fns>>
  BY DEF program
<1>2. Contexts' /\ Len(vars') = Len(vars) /\ cstack' = cstack
  BY StillContexts DEF Inv
<1>3. Len(vars) \in Nat
  BY SeqFacts DEF Inv, Contexts
<1>4. Program'
  BY <1>1, <1>2, <1>3, StillProgram DEF Inv
<1>. QED  BY <1>1, <1>2, <1>4 DEF Grown

LEMMA CallReadKeeps ==
  ASSUME Inv, Verified, mode = Run, NEW P, Standing(P), CallRead PROVE Inv'
<1>1. /\ Op = "call" /\ Top = Native("READ") /\ next <= Len(session)
      /\ Replace(1, <<"form", session[next]>>) /\ next' = next + 1 /\ NextI
      /\ UNCHANGED <<context, program, session, answers, traps, mode>>
  BY DEF CallRead, Calling, Executing
<1>2. <<"form", session[next]>> # Junk
  BY DEF Junk
<1>3. Pops(Top, Operand) = 1 /\ Pushes(Top) = 1
  BY <1>1, NativeFacts
<1>4. Contexts' /\ Program' /\ Grown(chunks, chunks') /\ freed' = freed /\ cstack' = cstack
  BY <1>1, OnwardFacts
<1>5. Memory' /\ Shape'
  BY <1>1, <1>2, <1>3, <1>4, CallStep
<1>6. Talk'
  <2>1. next \in 1 .. Len(session) + 2 /\ Len(session) \in Nat
    BY VmAssumption DEF Inv, Talk
  <2>2. next' \in 1 .. Len(session) + 2
    BY <2>1, <1>1
  <2>. QED  BY <2>2, <1>1 DEF Inv, Talk
<1>. QED  BY <1>4, <1>5, <1>6 DEF Inv

LEMMA CallPrintKeeps ==
  ASSUME Inv, Verified, mode = Run, NEW P, Standing(P), CallPrint PROVE Inv'
<1>1. /\ Op = "call" /\ Top = Native("PRINT") /\ Operand = 1
      /\ Replace(2, Nil) /\ NextI /\ UNCHANGED <<context, program, session, next, traps, mode>>
  BY DEF CallPrint, Calling, Executing
<1>2. Nil # Junk
  BY TopFacts DEF Inv
<1>3. Pops(Top, Operand) = 2 /\ Pushes(Top) = 1
  BY <1>1, NativeFacts
<1>4. Contexts' /\ Program' /\ Grown(chunks, chunks') /\ freed' = freed /\ cstack' = cstack
  BY <1>1, OnwardFacts
<1>5. Memory' /\ Shape'
  BY <1>1, <1>2, <1>3, <1>4, CallStep
<1>6. Talk'
  BY <1>1, StillTalk DEF Inv
<1>. QED  BY <1>4, <1>5, <1>6 DEF Inv

-------------------------------------------------------------------------------
(* What stops a chunk: an error, or what C leaves undefined.               *)

LEMMA RaisingFacts ==
  /\ \A e : /\ Raising(e) \notin {Run, Prompt, Done, Undefined, Aborted}
            /\ Raising(e)[1] = "raise" /\ Raising(e)[2] = e
  /\ {Undefined, Aborted} \cap {Run, Prompt, Done} = {}
  /\ Run # Prompt /\ Run # Done /\ Prompt # Done
  /\ \A m \in {Run, Prompt, Done, Undefined, Aborted} : m[1] # "raise"
  /\ SigError # Junk /\ TypeError # Junk /\ \A s : Sym(s) # Junk
<1>1. \A e : Raising(e)[1] = "raise" /\ Raising(e)[2] = e
  BY DEF Raising
<1>2. Run[1] = "run" /\ Prompt[1] = "prompt" /\ Done[1] = "done" /\ Undefined[1] = "undefined"
      /\ Aborted[1] = "aborted"
  BY DEF Run, Prompt, Done, Undefined, Aborted
<1>3. \A s : Sym(s) # Junk
  BY DEF Sym, Junk
<1>. QED  BY <1>1, <1>2, <1>3 DEF SigError, TypeError

LEMMA StopAt ==
  ASSUME Inv, NEW P, Standing(P), Touched, NEW j \in DOMAIN Plan(C), F'.pc = j,
         Plan(C)[j].catch = V.catch, Plan(C)[j].saved = V.saved,
         F'.bs_saved = F.bs_saved, F'.saved_off = F.saved_off,
         Grown(chunks, chunks'), freed' = freed, mode' \notin {Run, Prompt, Done},
         P[N].low <= sp', P[N].lows <= Len(cstack'), Good(P, traps') \/ Pending(P, traps', Len(cstack'))
  PROVE  Shape'
<1>1. N > 0 /\ Frames(chunks, freed, frames, P) /\ Seen(chunks, F, V, P[N])
  BY DEF Standing
<1>2. /\ N' = N /\ Frames(chunks', freed', frames', P) /\ F' = frames'[N]
      /\ chunks'[F'.chunk] = C /\ PlanIn(chunks', F') = Plan(C)
  BY <1>1, TouchedFrames
<1>3. PlanIn(chunks, F) = Plan(C)
  BY DEF PlanIn, C
<1>4. PICK w : w = Plan(C)[j]
  OBVIOUS
<1>5. Low(Plan(C), w) = Low(Plan(C), V) /\ LowScopes(Plan(C), w) = LowScopes(Plan(C), V)
  BY <1>4 DEF Low, LowScopes
<1>6. Seen(chunks', F', w, P[N])
  BY <1>1, <1>2, <1>3, <1>4, <1>5 DEF Seen
<1>7. Rests(chunks', F', P[N])
  BY <1>2, <1>4, <1>6 DEF Rests
<1>8. Stopped(P)'
  BY <1>1, <1>2, <1>7 DEF Stopped
<1>. QED  BY <1>8 DEF Shape

LEMMA StopShape ==
  ASSUME Inv, NEW P, Standing(P), mode' \notin {Run, Prompt, Done}, UNCHANGED <<frames, traps, cstack>>,
         Grown(chunks, chunks'), freed' = freed, P[N].low <= sp'
  PROVE  Shape'
<1>1. /\ frames \in Seq(FrameRecs) /\ F.pc \in DOMAIN Plan(C)
      /\ P[N].own \in Nat /\ V.scopes \in Nat /\ LowScopes(Plan(C), V) \in Nat
      /\ P[N].lows = P[N].own + LowScopes(Plan(C), V) /\ LowScopes(Plan(C), V) <= V.scopes
  BY StandFacts
<1>2. Touched /\ F' = F
  BY <1>1 DEF Touched, Same, F
<1>3. Good(P, traps') /\ Len(cstack') = P[N].own + V.scopes
  BY DEF Standing
<1>4. P[N].lows <= Len(cstack')
  BY <1>1, <1>3
<1>5. PICK j : j = F.pc
  OBVIOUS
<1>6. j \in DOMAIN Plan(C) /\ F'.pc = j /\ Plan(C)[j].catch = V.catch /\ Plan(C)[j].saved = V.saved
  BY <1>1, <1>2, <1>5 DEF V
<1>. QED  BY <1>2, <1>3, <1>4, <1>6, StopAt

(* Nothing changes but the mode.                                           *)
LEMMA StopKeeps ==
  ASSUME Inv, NEW P, Standing(P), UNCHANGED <<values, context, program, session, traps, frames>>,
         next' \in 1 .. Len(session) + 2,
         mode' \in {Undefined, Aborted} \/ \E e : mode' = Raising(e) /\ e # Junk
  PROVE  Inv'
<1>1. Contexts' /\ Program' /\ Grown(chunks, chunks') /\ freed' = freed /\ cstack' = cstack
  BY OnwardFacts
<1>2. mode' \notin {Run, Prompt, Done}
  BY RaisingFacts
<1>3. Memory' /\ sp' = sp
  BY DEF Inv, Memory, values
<1>4. P[N].low <= sp'
  <2>1. /\ P[N].low = P[N].base + Low(Plan(C), V) /\ Low(Plan(C), V) <= V.height
        /\ P[N].base \in Nat /\ Low(Plan(C), V) \in Nat /\ V.height \in Nat
    BY StandFacts
  <2>2. sp = P[N].base + V.height
    BY DEF Standing
  <2>. QED  BY <2>1, <2>2, <1>3
<1>5. Shape'
  BY <1>1, <1>2, <1>4, StopShape
<1>6. Talk'
  BY DEF Inv, Talk
<1>. QED  BY <1>1, <1>3, <1>5, <1>6 DEF Inv

LEMMA SignalKeeps ==
  ASSUME Inv, mode = Run, NEW P, Standing(P), SignalI PROVE Inv'
<1>1. next \in 1 .. Len(session) + 2 /\ next + 1 \in 1 .. Len(session) + 3 /\ Len(session) \in Nat
  BY VmAssumption DEF Inv, Talk
<1>2. ASSUME NEW e, e # Junk, Signal(e) PROVE Inv'
  BY <1>1, <1>2, StopKeeps DEF Signal, io
<1>3. \A n \in Nat : Arg(n) # Junk
  BY TopFacts DEF Inv
<1>4. ASSUME next = Len(session) + 1, mode' = Raising(Sym("END-OF-FILE")), next' = next + 1,
             UNCHANGED <<values, context, program, session, answers, frames, traps>>
      PROVE  Inv'
  <2>1. next' \in 1 .. Len(session) + 2
    BY <1>1, <1>4
  <2>2. \E e : mode' = Raising(e) /\ e # Junk
    BY <1>4, RaisingFacts
  <2>. QED  BY <2>1, <2>2, <1>4, StopKeeps
<1>5. \/ \E e : e # Junk /\ Signal(e)
      \/ /\ next = Len(session) + 1 /\ mode' = Raising(Sym("END-OF-FILE")) /\ next' = next + 1
         /\ UNCHANGED <<values, context, program, session, answers, frames, traps>>
  BY <1>3, RaisingFacts DEF SignalI
<1>. QED  BY <1>2, <1>4, <1>5

-------------------------------------------------------------------------------
(* Compiling.                                                              *)

LEMMA MoreCode ==
  ASSUME Contexts, Program, NEW x, x.ctx = NoContext \/ x.ctx \in 1 .. Len(vars),
         chunks' = Append(chunks, x), freed' = freed, Len(vars') = Len(vars),
         \A f \in FnNames : \/ fns'[f] = Unbound \/ fns'[f] = fns[f]
                            \/ fns'[f] = CodeRef(Len(chunks) + 1)
  PROVE  Program' /\ Grown(chunks, chunks')
<1>1. /\ IsSeq(chunks) /\ Len(chunks) \in Nat /\ Len(chunks) > 0 /\ DOMAIN chunks = 1 .. Len(chunks)
  BY SeqFacts DEF Program
<1>2. PICK cs, n : cs = chunks' /\ n = Len(chunks)
  OBVIOUS
<1>3. /\ IsSeq(cs) /\ Len(cs) = n + 1 /\ cs[n + 1] = x /\ \A k \in 1 .. n : cs[k] = chunks[k]
  BY <1>1, <1>2, SeqFacts
<1>4. DOMAIN cs = 1 .. n + 1 /\ n \in Nat /\ n > 0 /\ (\A k \in 1 .. n + 1 : k \in 1 .. n \/ k = n + 1)
      /\ \A k \in 1 .. n : k \in 1 .. n + 1
  BY <1>1, <1>2, <1>3, SeqFacts
<1>5. Grown(chunks, cs)
  BY <1>1, <1>2, <1>3, <1>4 DEF Grown
<1>6. cs[1].ctx = NoContext /\ Parameters(cs[1]) = 0 /\ cs[1].entry = 0
  <2>1. 1 \in 1 .. n
    BY <1>4
  <2>. QED  BY <2>1, <1>2, <1>3 DEF Program
<1>7. \A k \in 1 .. n + 1 : cs[k].ctx = NoContext \/ cs[k].ctx \in 1 .. Len(vars')
  BY <1>2, <1>3, <1>4 DEF Program
<1>8. freed' \subseteq 2 .. n + 1 /\ \A k \in freed' : cs[k].ctx = NoContext
  <2>1. freed \subseteq 2 .. n /\ \A k \in freed : k \in 1 .. n /\ chunks[k].ctx = NoContext
    BY <1>1, <1>2 DEF Program
  <2>. QED  BY <2>1, <1>3, <1>4
<1>9. \A f \in FnNames : fns'[f] = Unbound \/ \E k \in 1 .. n + 1 : fns'[f] = CodeRef(k)
  <2>1. n + 1 \in 1 .. n + 1
    BY <1>4
  <2>. QED  BY <2>1, <1>2, <1>4 DEF Program
<1>10. Program'
  BY <1>2, <1>3, <1>4, <1>6, <1>7, <1>8, <1>9 DEF Program
<1>. QED  BY <1>2, <1>5, <1>10

LEMMA InnermostContext ==
  ASSUME Contexts
  PROVE  Last(cstack) \in 1 .. Len(vars) /\ Len(cstack) \in Nat
<1>1. Len(cstack) \in Nat /\ Len(cstack) \in 1 .. Len(cstack)
  BY SeqFacts DEF Contexts
<1>. QED  BY <1>1 DEF Contexts, Last

LEMMA CompileKeeps ==
  ASSUME Inv, Verified, mode = Run, NEW P, Standing(P), Op = "call",
         NEW fn, NEW named, NEW start, NEW rest, CompileIt(fn, named, start, rest),
         \/ named = {} /\ Top = Native("COMPILE-LAMBDA")
         \/ named # {} /\ Top = Native("COMPILE-FN")
  PROVE  Inv'
<1>1. PICK x :
        /\ x.ctx = Last(cstack) /\ chunks' = Append(chunks, x)
        /\ \A f \in FnNames : \/ fns'[f] = Unbound \/ fns'[f] = fns[f]
                              \/ fns'[f] = CodeRef(Len(chunks) + 1)
        /\ \/ /\ IF named = {} THEN Replace(2, CodeRef(Len(chunks) + 1)) ELSE Discard(3)
              /\ NextI /\ mode' = mode
           \/ mode' = Raising(SigError) /\ UNCHANGED <<values, frames>>
        /\ UNCHANGED <<context, freed, io, traps>>
  <2>1. PICK d, x, b : d = Compilation(fn, named, start, rest) /\ x = FnChunk(d, fn, start) /\ b = Bound(named)
    OBVIOUS
  <2>2. /\ chunks' = Append(chunks, x) /\ UNCHANGED <<context, freed, io, traps>>
        /\ IF d.ok
             THEN /\ fns' = b
                  /\ IF named = {} THEN Replace(2, CodeRef(Len(chunks) + 1)) ELSE Discard(3)
                  /\ NextI /\ UNCHANGED mode
             ELSE /\ fns' = Unnamed(b, named)
                  /\ mode' = Raising(SigError)
                  /\ UNCHANGED <<values, frames>>
    BY <2>1 DEF CompileIt
  <2>3. x.ctx = Last(cstack)
    BY <2>1 DEF FnChunk, Chunk
  <2>4. \A f \in FnNames : /\ b[f] = fns[f] \/ b[f] = CodeRef(Len(chunks) + 1)
                           /\ Unnamed(b, named)[f] = b[f] \/ Unnamed(b, named)[f] = Unbound
    BY <2>1 DEF Unnamed, Bound
  <2>. QED  BY <2>1, <2>2, <2>3, <2>4
<1>2. Contexts' /\ Len(vars') = Len(vars) /\ cstack' = cstack
  BY <1>1, StillContexts DEF Inv
<1>3. Program' /\ Grown(chunks, chunks') /\ freed' = freed
  BY <1>1, <1>2, InnermostContext, MoreCode DEF Inv
<1>4. UNCHANGED <<session, next, traps>>
  BY <1>1 DEF io
<1>5. CASE /\ IF named = {} THEN Replace(2, CodeRef(Len(chunks) + 1)) ELSE Discard(3)
           /\ NextI /\ mode' = mode
  <2>1. Callable(Top) /\ NextI /\ mode' = mode
    BY <1>5, NativeFacts
  <2>2. Talk'
    BY <2>1, <1>4, StillTalk DEF Inv
  <2>3. Memory' /\ Shape'
    <3>1. CASE named = {}
      <4>1. Top = Native("COMPILE-LAMBDA") /\ Replace(2, CodeRef(Len(chunks) + 1))
        BY <3>1, <1>5
      <4>2. Pops(Top, Operand) = 2 /\ Pushes(Top) = 1
        BY <4>1, NativeFacts
      <4>3. CodeRef(Len(chunks) + 1) # Junk
        BY DEF CodeRef, Junk
      <4>. QED  BY <4>1, <4>2, <4>3, <2>1, <1>2, <1>3, <1>4, CallStep
    <3>2. CASE named # {}
      <4>1. Top = Native("COMPILE-FN") /\ Discard(3)
        BY <3>2, <1>5
      <4>2. Pops(Top, Operand) = 3 /\ Pushes(Top) = 0
        BY <4>1, NativeFacts
      <4>3. Rise(C, F.pc) = 0 - 3 /\ V.height - 3 >= Low(Plan(C), V)
        BY <4>2, <2>1, CallFacts
      <4>4. Memory' /\ (3 <= sp => sp' = sp - 3)
        BY <4>1, DiscardFacts DEF Inv
      <4>5. Shape'
        BY <4>3, <4>4, <2>1, <1>2, <1>3, <1>4, DiscardStep DEF Plain
      <4>. QED  BY <4>4, <4>5
    <3>. QED  BY <3>1, <3>2
  <2>. QED  BY <2>2, <2>3, <1>2, <1>3 DEF Inv
<1>6. CASE mode' = Raising(SigError) /\ UNCHANGED <<values, frames>>
  <2>1. mode' = Raising(SigError) /\ UNCHANGED <<values, frames>>
    BY <1>6
  <2>2. Memory' /\ sp' = sp
    BY <2>1 DEF values, Inv, Memory
  <2>3. P[N].low <= sp'
    <3>1. /\ P[N].low = P[N].base + Low(Plan(C), V) /\ Low(Plan(C), V) <= V.height
          /\ P[N].base \in Nat /\ Low(Plan(C), V) \in Nat /\ V.height \in Nat
      BY StandFacts
    <3>2. sp = P[N].base + V.height
      BY DEF Standing
    <3>. QED  BY <3>1, <3>2, <2>2
  <2>4. mode' \notin {Run, Prompt, Done} /\ SigError # Junk
    BY <2>1, RaisingFacts
  <2>5. Shape'
    BY <2>1, <2>3, <2>4, <1>2, <1>3, <1>4, StopShape
  <2>6. Talk'
    BY <2>1, <2>4, <1>4 DEF Inv, Talk
  <2>. QED  BY <2>2, <2>5, <2>6, <1>2, <1>3 DEF Inv
<1>. QED  BY <1>1, <1>5, <1>6

LEMMA CallCompileFnKeeps ==
  ASSUME Inv, Verified, mode = Run, NEW P, Standing(P), CallCompileFn PROVE Inv'
<1>1. Op = "call" /\ Top = Native("COMPILE-FN")
  BY DEF CallCompileFn, Calling, Executing
<1>2. PICK fn, named, start, rest : named # {} /\ CompileIt(fn, named, start, rest)
  BY DEF CallCompileFn
<1>. QED  BY <1>1, <1>2, CompileKeeps

LEMMA CallCompileLambdaKeeps ==
  ASSUME Inv, Verified, mode = Run, NEW P, Standing(P), CallCompileLambda PROVE Inv'
<1>1. Op = "call" /\ Top = Native("COMPILE-LAMBDA")
  BY DEF CallCompileLambda, Calling, Executing
<1>2. PICK fn, start, rest : CompileIt(fn, {}, start, rest)
  BY DEF CallCompileLambda
<1>. QED  BY <1>1, <1>2, CompileKeeps

-------------------------------------------------------------------------------
(* A chunk starts.                                                         *)

(* The rest of what call and vm_eval do before the new chunk runs: the     *)
(* caller's pc moves on.                                                   *)
LEMMA Waiting ==
  ASSUME Inv, NEW P, Standing(P), Op = "call",
         NEW fs, fs = [frames EXCEPT ![N].pc = @ + 1], Grown(chunks, chunks')
  PROVE  /\ fs \in Seq(FrameRecs) /\ Len(fs) = N /\ Same(F, fs[N]) /\ fs[N].pc = F.pc + 1
         /\ \A j \in 1 .. N - 1 : fs[j] = frames[j]
         /\ Frames(chunks', freed, fs, P) /\ Rests(chunks', fs[N], P[N])
         /\ PlanIn(chunks', fs[N]) = Plan(C) /\ chunks'[fs[N].chunk] = C
         /\ F.pc + 1 \in DOMAIN Plan(C) /\ Plan(C)[F.pc + 1].height = V.height + Rise(C, F.pc)
         /\ Plan(C)[F.pc + 1].scopes = V.scopes
         /\ Plan(C)[F.pc + 1].catch = V.catch /\ Plan(C)[F.pc + 1].saved = V.saved
         /\ Low(Plan(C), Plan(C)[F.pc + 1]) = Low(Plan(C), V) /\ Known(C, F.pc + 1) = AnyValue
<1>1. /\ N \in Nat /\ N > 0 /\ N \in 1 .. N /\ N = Len(P) /\ frames \in Seq(FrameRecs) /\ F = frames[N]
      /\ F \in FrameRecs /\ Placed(chunks, F, P[N]) /\ PlanIn(chunks, F) = Plan(C)
      /\ IsPlan(C, Plan(C)) /\ F.pc \in DOMAIN Plan(C) /\ Op = C.code[F.pc][1] /\ V \in Views(C)
  BY StandFacts
<1>2. F.pc \in Nat /\ F.pc + 1 \in Nat
  BY <1>1, ViewFacts
<1>3. PICK c, p, i, u : c = C /\ p = Plan(C) /\ i = F.pc /\ u = V
  OBVIOUS
<1>4. PICK w : w = Plan(C)[F.pc + 1]
  OBVIOUS
<1>5. /\ F.pc + 1 \in DOMAIN Plan(C)
      /\ w.height = V.height + Rise(C, F.pc) /\ w.scopes = V.scopes /\ w.catch = V.catch /\ w.saved = V.saved
  <2>1. IsPlan(c, p) /\ i \in DOMAIN p /\ c.code[i][1] = "call" /\ u = p[i] /\ u \in Views(c)
    BY <1>1, <1>3 DEF V
  <2>2. i + 1 \in DOMAIN p /\ p[i + 1] = [p[i] EXCEPT !.height = @ + Rise(c, i)]
    BY <2>1, PlainStep DEF Plain
  <2>3. PICK x : x = p[i + 1]
    OBVIOUS
  <2>4. x.height = u.height + Rise(c, i) /\ x.scopes = u.scopes /\ x.catch = u.catch /\ x.saved = u.saved
    BY <2>1, <2>2, <2>3 DEF Views
  <2>. QED  BY <2>2, <2>3, <2>4, <1>3, <1>4
<1>6. Known(C, F.pc + 1) = AnyValue
  BY <1>1, <1>2, KnownFacts
<1>7. PICK g : g = [F EXCEPT !.pc = F.pc + 1]
  OBVIOUS
<1>8. g \in FrameRecs /\ Same(F, g) /\ g.pc = F.pc + 1 /\ g.bs_saved = F.bs_saved /\ g.saved_off = F.saved_off
  BY <1>1, <1>2, <1>7 DEF FrameRecs, Same
<1>9. fs = [frames EXCEPT ![N] = g]
  BY <1>1, <1>7 DEF N
<1>10. /\ fs \in Seq(FrameRecs) /\ Len(fs) = N /\ fs[N] = g /\ \A j \in 1 .. N - 1 : fs[j] = frames[j]
  BY <1>1, <1>8, <1>9, SMTT(20) DEF N
<1>11. Frames(chunks', freed, fs, P)
  <2>1. PICK cs, ds, dead, gs : cs = chunks /\ ds = chunks' /\ dead = freed /\ gs = frames
    OBVIOUS
  <2>2. /\ Frames(cs, dead, gs, P) /\ Grown(cs, ds) /\ Len(fs) = Len(gs) /\ Len(gs) > 0
        /\ (\A j \in 1 .. Len(gs) - 1 : fs[j] = gs[j]) /\ Same(gs[Len(gs)], fs[Len(gs)])
    BY <2>1, <1>1, <1>8, <1>10 DEF Standing, N
  <2>3. Frames(ds, dead, fs, P)
    BY <2>2, <1>10, Recast
  <2>. QED  BY <2>1, <2>3
<1>12. PlanIn(chunks', g) = Plan(C) /\ chunks'[g.chunk] = C
  BY <1>1, <1>8 DEF Same, Placed, Grown, PlanIn, C
<1>13. Low(Plan(C), w) = Low(Plan(C), V) /\ LowScopes(Plan(C), w) = LowScopes(Plan(C), V)
  BY <1>5 DEF Low, LowScopes
<1>14. Rests(chunks', g, P[N])
  <2>1. Seen(chunks, F, V, P[N])
    BY DEF Standing
  <2>2. Seen(chunks', g, w, P[N])
    BY <2>1, <1>1, <1>5, <1>8, <1>12, <1>13 DEF Seen
  <2>. QED  BY <2>2, <1>4, <1>5, <1>8, <1>12 DEF Rests
<1>. QED  BY <1>4, <1>5, <1>6, <1>8, <1>10, <1>11, <1>12, <1>13, <1>14

LEMMA EnterChunk ==
  ASSUME Inv, NEW P, Standing(P), Op = "call", Grown(chunks, chunks'), freed' = freed,
         NEW g \in FrameRecs, g.pc = 1,
         frames' = Append([frames EXCEPT ![N].pc = @ + 1], g),
         NEW q, Placed(chunks', g, q), g.chunk \notin freed,
         q.back + 1 = P[N].base + (V.height + Rise(C, F.pc)), V.height + Rise(C, F.pc) > Low(Plan(C), V),
         q.own = P[N].own + V.scopes + IF q.kind = "call" THEN 1 ELSE 0,
         q.base \in Int, q.own \in Nat, q.catch = 0, q.low = q.base, q.lows = q.own,
         g.kind = "eval" => \A i \in 1 .. N : frames[i].chunk # g.chunk,
         Good(Append(P, q), traps'), mode' = Run, sp' = q.base, Len(cstack') = q.own
  PROVE  Shape'
<1>1. PICK fs : fs = [frames EXCEPT ![N].pc = @ + 1]
  OBVIOUS
<1>2. /\ fs \in Seq(FrameRecs) /\ Len(fs) = N /\ Same(F, fs[N]) /\ fs[N].pc = F.pc + 1
      /\ \A j \in 1 .. N - 1 : fs[j] = frames[j]
      /\ Frames(chunks', freed, fs, P) /\ Rests(chunks', fs[N], P[N])
      /\ PlanIn(chunks', fs[N]) = Plan(C) /\ chunks'[fs[N].chunk] = C
      /\ F.pc + 1 \in DOMAIN Plan(C) /\ Plan(C)[F.pc + 1].height = V.height + Rise(C, F.pc)
      /\ Plan(C)[F.pc + 1].scopes = V.scopes
      /\ Low(Plan(C), Plan(C)[F.pc + 1]) = Low(Plan(C), V) /\ Known(C, F.pc + 1) = AnyValue
  <2>1. PICK gs : gs = [frames EXCEPT ![N].pc = @ + 1]
    OBVIOUS
  <2>2. Op = "call" /\ Grown(chunks, chunks') /\ Standing(P)
    OBVIOUS
  <2>5. /\ gs \in Seq(FrameRecs) /\ Len(gs) = N /\ Same(F, gs[N]) /\ gs[N].pc = F.pc + 1
        /\ \A j \in 1 .. N - 1 : gs[j] = frames[j]
    BY <2>1, <2>2, Waiting
  <2>6. /\ Frames(chunks', freed, gs, P) /\ Rests(chunks', gs[N], P[N])
        /\ PlanIn(chunks', gs[N]) = Plan(C) /\ chunks'[gs[N].chunk] = C
    BY <2>1, <2>2, Waiting
  <2>3. /\ F.pc + 1 \in DOMAIN Plan(C) /\ Plan(C)[F.pc + 1].height = V.height + Rise(C, F.pc)
        /\ Plan(C)[F.pc + 1].scopes = V.scopes
        /\ Low(Plan(C), Plan(C)[F.pc + 1]) = Low(Plan(C), V) /\ Known(C, F.pc + 1) = AnyValue
    BY <2>1, <2>2, Waiting
  <2>4. gs = fs
    BY <2>1, <1>1
  <2>. QED  BY <2>3, <2>4, <2>5, <2>6
<1>3. N \in Nat /\ N > 0 /\ Len(P) = N /\ F = frames[N] /\ Stacked(P)
  BY StandFacts
<1>4. Waits(chunks', fs[N], P[N], q)
  BY <1>2 DEF Waits
<1>5. Frames(chunks', freed', frames', Append(P, q))
  <2>. PICK ds, n : ds = chunks' /\ n = N
    OBVIOUS
  <2>1. Frames(ds, freed, fs, P) /\ Len(fs) = n /\ n > 0 /\ Rests(ds, fs[n], P[n]) /\ Waits(ds, fs[n], P[n], q)
        /\ Placed(ds, g, q)
    BY <1>2, <1>3, <1>4
  <2>2. g.kind = "eval" => \A i \in 1 .. n : fs[i].chunk # g.chunk
    <3>1. \A i \in 1 .. n : i = n \/ i \in 1 .. n - 1
      BY <1>3
    <3>2. \A i \in 1 .. n : fs[i].chunk = frames[i].chunk
      BY <3>1, <1>2, <1>3 DEF Same
    <3>. QED  BY <3>2
  <2>3. IsSeq(P)
    BY <1>3 DEF Stacked, IsSeq
  <2>4. Frames(ds, freed, Append(fs, g), Append(P, q))
    BY <2>1, <2>2, <2>3, AddFrame
  <2>. QED  BY <2>4, <1>1
<1>6. N' = N + 1 /\ F' = g /\ Append(P, q)[N + 1] = q
  <2>1. frames' = Append(fs, g) /\ fs \in Seq(FrameRecs)
    BY <1>1, <1>2
  <2>2. Len(frames') = N + 1 /\ frames'[N + 1] = g
    BY <2>1, <1>2
  <2>3. P \in Seq(Pictures)
    BY <1>3 DEF Stacked
  <2>. QED  BY <2>2, <2>3, <1>3, SeqFacts DEF N, F, Last, IsSeq
<1>7. Runs(chunks', g, q, sp', Len(cstack'), Top')
  <2>1. Level(chunks'[g.chunk])
    BY DEF Placed
  <2>2. 1 \in DOMAIN PlanIn(chunks', g) /\ PlanIn(chunks', g)[1] = AtStart
    BY <2>1 DEF Level, IsPlan, PlanIn
  <2>3. Known(chunks'[g.chunk], 1) = AnyValue
    BY KnownFacts
  <2>4. Planned(chunks', g, Top', AtStart)
    BY <2>2, <2>3 DEF Planned
  <2>5. Seen(chunks', g, AtStart, q)
    BY DEF Seen, AtStart, Low, LowScopes
  <2>6. sp' = q.base + AtStart.height /\ Len(cstack') = q.own + AtStart.scopes
    BY DEF AtStart
  <2>. QED  BY <2>4, <2>5, <2>6 DEF Runs
<1>8. Running(Append(P, q))'
  BY <1>3, <1>5, <1>6, <1>7 DEF Running
<1>9. mode' \notin {Prompt, Done}
  BY RaisingFacts
<1>. QED  BY <1>8, <1>9 DEF Shape

(* The caller stops where it would have waited: too many contexts.         *)
LEMMA Overflows ==
  ASSUME Inv, NEW P, Standing(P), Op = "call", NextI, Grown(chunks, chunks'), freed' = freed,
         mode' \notin {Run, Prompt, Done}, P[N].low <= sp', Len(cstack') \in Nat, Len(cstack') >= Len(cstack),
         Good(P, traps') \/ Pending(P, traps', Len(cstack'))
  PROVE  Shape'
<1>1. PICK fs : fs = [frames EXCEPT ![N].pc = @ + 1]
  OBVIOUS
<1>2. /\ F.pc + 1 \in DOMAIN Plan(C)
      /\ Plan(C)[F.pc + 1].catch = V.catch /\ Plan(C)[F.pc + 1].saved = V.saved
  BY <1>1, Waiting
<1>3. /\ frames \in Seq(FrameRecs) /\ N > 0 /\ IsPlan(C, Plan(C)) /\ F.pc \in DOMAIN Plan(C)
      /\ P[N].own \in Nat /\ V.scopes \in Nat /\ LowScopes(Plan(C), V) \in Nat
      /\ P[N].lows = P[N].own + LowScopes(Plan(C), V) /\ LowScopes(Plan(C), V) <= V.scopes
  BY StandFacts
<1>4. F.pc \in Nat /\ F.pc + 1 \in Nat
  BY <1>3, ViewFacts
<1>5. Touched /\ F'.pc = F.pc + 1 /\ F'.bs_saved = F.bs_saved /\ F'.saved_off = F.saved_off
  BY <1>3, <1>4, GotoFacts DEF NextI
<1>6. Len(cstack) = P[N].own + V.scopes
  BY DEF Standing
<1>7. P[N].lows <= Len(cstack')
  BY <1>3, <1>6
<1>. QED  BY <1>2, <1>5, <1>7, StopAt

LEMMA CallCodeKeeps ==
  ASSUME Inv, Verified, Verified', mode = Run, NEW P, Standing(P), CallCode PROVE Inv'
<1>1. /\ Op = "call" /\ Top[1] = "code" /\ cstack' = Append(cstack, chunks[Top[2]].ctx) /\ Discard(1)
      /\ Start(Top[2], "call", Operand, Len(cstack'), Popped(1), chunks[Top[2]].entry)
      /\ UNCHANGED <<vars, program, io, traps>>
  BY DEF CallCode, Executing
<1>2. PICK k, n : k = Top[2] /\ n = Operand
  OBVIOUS
<1>3. Callable(Top) /\ Pops(Top, Operand) = n + 1 /\ Pushes(Top) = 1
  BY <1>1, <1>2, NativeFacts DEF Callable
<1>4. /\ Rise(C, F.pc) = 1 - (n + 1) /\ n \in Nat /\ V.height - (n + 1) >= Low(Plan(C), V)
      /\ k \in 1 .. Len(chunks) /\ chunks[k].ctx # NoContext /\ n = Parameters(chunks[k])
  BY <1>1, <1>2, <1>3, CallFacts
<1>5. /\ N \in Nat /\ N > 0 /\ Stacked(P) /\ Len(P) = N
      /\ V.height \in Nat /\ V.scopes \in Nat /\ Low(Plan(C), V) \in Nat
      /\ LowScopes(Plan(C), V) \in Nat /\ LowScopes(Plan(C), V) <= V.scopes
      /\ P[N].base \in Nat /\ P[N].own \in Nat /\ P[N].own > 0 /\ sp \in Nat /\ Len(cstack) \in Nat
      /\ P[N].low = P[N].base + Low(Plan(C), V) /\ P[N].lows = P[N].own + LowScopes(Plan(C), V)
  BY StandFacts
<1>6. sp = P[N].base + V.height /\ Len(cstack) = P[N].own + V.scopes /\ Good(P, traps)
  BY DEF Standing
(* The numbers.                                                            *)
<1>6a. PICK b, h, m, w, z, y, d, r :
         /\ b = P[N].base /\ h = V.height /\ m = Low(Plan(C), V) /\ w = P[N].own /\ z = V.scopes
         /\ y = LowScopes(Plan(C), V) /\ d = Len(cstack) /\ r = Rise(C, F.pc)
  OBVIOUS
<1>6b. /\ b \in Nat /\ h \in Nat /\ m \in Nat /\ w \in Nat /\ z \in Nat /\ y \in Nat /\ n \in Nat
       /\ y <= z /\ d = w + z /\ sp = b + h /\ h - (n + 1) >= m /\ r = 1 - (n + 1)
       /\ P[N].low = b + m /\ P[N].lows = w + y
  BY <1>4, <1>5, <1>6, <1>6a
<1>7. sp > 0 /\ Popped(1) = sp - 1
  BY <1>6b DEF Popped
<1>8. Memory' /\ sp' = sp - 1
  <2>1. Memory' /\ (1 <= sp => sp' = sp - 1)
    BY <1>1, DiscardFacts DEF Inv
  <2>. QED  BY <2>1, <1>5, <1>7
<1>9. UNCHANGED <<chunks, freed, fns, session, next, traps, vars>> /\ Grown(chunks, chunks')
  BY <1>1 DEF program, io, Grown
<1>10. /\ IsSeq(cstack') /\ Len(cstack') = Len(cstack) + 1 /\ Contexts'
  <2>1. IsSeq(cstack) /\ Len(cstack) > 0 /\ Len(cstack) \in Nat
    BY <1>5 DEF Inv, Contexts
  <2>2. PICK x, s : x = chunks[k].ctx /\ s = cstack'
    OBVIOUS
  <2>3. x \in 1 .. Len(vars)
    BY <2>2, <1>4 DEF Inv, Program
  <2>4. /\ IsSeq(s) /\ Len(s) = Len(cstack) + 1 /\ s[Len(cstack) + 1] = x
        /\ \A i \in 1 .. Len(cstack) : s[i] = cstack[i]
    BY <2>1, <2>2, <1>1, <1>2, SeqFacts
  <2>5. \A i \in 1 .. Len(s) : s[i] \in 1 .. Len(vars)
    <3>1. \A i \in 1 .. Len(s) : i \in 1 .. Len(cstack) \/ i = Len(cstack) + 1
      BY <2>1, <2>4
    <3>. QED  BY <3>1, <2>3, <2>4 DEF Inv, Contexts
  <2>6. s[1] = Global /\ Len(s) > 0
    BY <2>1, <2>4 DEF Inv, Contexts
  <2>. QED  BY <2>2, <2>4, <2>5, <2>6, <1>9 DEF Inv, Contexts
<1>10a. /\ Len(cstack') = d + 1 /\ d + 1 \in Nat /\ d + 1 \in Int /\ d + 1 >= d
        /\ sp' = sp - 1 /\ P[N].low <= sp - 1
  <2>1. d + 1 \in Nat /\ d + 1 \in Int /\ d + 1 >= d /\ b + m <= sp - 1
    BY <1>6b
  <2>. QED  BY <2>1, <1>6a, <1>6b, <1>8, <1>10
<1>11. Program'
  <2>1. Len(vars') \in Nat /\ Len(vars') >= Len(vars)
    BY <1>9, SeqFacts DEF Inv, Contexts
  <2>. QED  BY <2>1, <1>9, StillProgram DEF Inv
<1>12. CASE TooDeep(Len(cstack'))
  <2>1. mode' = Raising(Sym("STACK-OVERFLOW")) /\ NextI
    BY <1>1, <1>12 DEF Start
  <2>2. P[N].low <= sp' /\ Len(cstack') \in Nat /\ Len(cstack') >= Len(cstack)
    BY <1>6a, <1>10a
  <2>3. Good(P, traps')
    BY <1>6, <1>9
  <2>4. mode' \notin {Run, Prompt, Done} /\ \E e : mode' = Raising(e) /\ e # Junk
    BY <2>1, RaisingFacts
  <2>5. Shape'
    BY <2>1, <2>2, <2>3, <2>4, <1>1, <1>9, Overflows
  <2>6. Talk'
    BY <2>4, <1>9 DEF Inv, Talk
  <2>. QED  BY <2>5, <2>6, <1>8, <1>10, <1>11 DEF Inv
<1>13. CASE ~TooDeep(Len(cstack'))
  <2>1. PICK g : g = [kind |-> "call", chunk |-> k, pc |-> 1, argc |-> n, bs_saved |-> 0,
                      saved_off |-> NoSave, origin |-> Popped(1) - chunks[k].entry, lvl |-> Len(cstack')]
    OBVIOUS
  <2>2. frames' = Append([frames EXCEPT ![N].pc = @ + 1], g) /\ mode' = Run
    BY <2>1, <1>1, <1>2, <1>13 DEF Start, N
  <2>3. F' = g
    <3>1. PICK fs : fs = [frames EXCEPT ![N].pc = @ + 1]
      OBVIOUS
    <3>2. fs \in Seq(FrameRecs)
      BY <3>1, <1>1, <1>9, Waiting
    <3>. QED  BY <3>1, <3>2, <2>2, FrontFacts DEF F, Last
  <2>4. g.pc = 1 /\ g.chunk = k /\ g.kind = "call" /\ g.argc = n /\ g.lvl = Len(cstack')
        /\ g.origin = sp - 1 - chunks[k].entry
    BY <2>1, <1>7
  <2>5. Level(chunks'[k])
    BY <2>2, <2>3, <2>4 DEF Verified
  <2>6. Level(chunks[k]) /\ chunks[k].entry \in Int
    BY <2>5, <1>9 DEF Level, IsPlan
  <2>7. g \in FrameRecs
    <3>1. sp - 1 - chunks[k].entry \in Int /\ Len(cstack') \in Int
      BY <2>6, <1>6b, <1>10a
    <3>2. k \in Nat
      BY <1>4
    <3>. QED  BY <3>1, <3>2, <2>1, <1>6b, <1>7 DEF FrameRecs, NoSave
  <2>8. PICK q : q = [base |-> sp - 1, back |-> sp - 1 - n, low |-> sp - 1, own |-> Len(cstack) + 1,
                      lows |-> Len(cstack) + 1, catch |-> 0, kind |-> "call"]
    OBVIOUS
  <2>9. /\ q \in Pictures /\ q.kind = "call" /\ q.catch = 0 /\ q.base = sp - 1 /\ q.back = sp - 1 - n
        /\ q.low = q.base /\ q.lows = q.own /\ q.own = Len(cstack) + 1 /\ q.back <= q.base
        /\ q.base \in Int /\ q.own \in Nat
    <3>1. /\ sp - 1 \in Int /\ sp - 1 - n \in Int /\ sp - 1 - n <= sp - 1
          /\ Len(cstack) + 1 \in Nat /\ Len(cstack) + 1 # 0
      BY <1>6a, <1>6b
    <3>. QED  BY <3>1, <2>8 DEF Pictures
  <2>10. Good(Append(P, q), traps')
    <3>1. P[N].low <= q.back /\ P[N].lows <= q.own
      BY <2>9, <1>6a, <1>6b
    <3>2. Good(Append(P, q), traps)
      BY <3>1, <2>9, <1>5, <1>6, EnterCall
    <3>. QED  BY <3>2, <1>9
  <2>11. Placed(chunks', g, q)
    <3>1. q.base = g.origin + chunks[k].entry /\ q.back = q.base - g.argc /\ q.own = g.lvl
      <4>1. sp - 1 \in Int /\ sp - 1 - chunks[k].entry + chunks[k].entry = sp - 1
        BY <2>6, <1>6b
      <4>. QED  BY <4>1, <2>4, <2>9, <1>10
    <3>2. k \in DOMAIN chunks
      BY <1>4, SeqFacts DEF Inv, Program
    <3>. QED  BY <3>1, <3>2, <2>4, <2>6, <2>9, <1>4, <1>9 DEF Placed
  <2>12. g.chunk \notin freed
    BY <2>4, <1>4 DEF Inv, Program
  <2>13. /\ q.back + 1 = P[N].base + (V.height + Rise(C, F.pc)) /\ V.height + Rise(C, F.pc) > Low(Plan(C), V)
         /\ q.own = P[N].own + V.scopes + IF q.kind = "call" THEN 1 ELSE 0
    <3>1. sp - 1 - n + 1 = b + (h + r) /\ h + r > m /\ d + 1 = w + z + 1
      BY <1>6b
    <3>. QED  BY <3>1, <2>9, <1>6a
  <2>14. sp' = q.base /\ Len(cstack') = q.own
    BY <2>9, <1>8, <1>10
  <2>15. g.kind # "eval"
    BY <2>4
  <2>16. Shape'
    BY <2>2, <2>4, <2>7, <2>9, <2>10, <2>11, <2>12, <2>13, <2>14, <2>15, <1>1, <1>9, EnterChunk
  <2>17. Talk'
    BY <2>2, <1>9, StillTalk DEF Inv
  <2>. QED  BY <2>16, <2>17, <1>8, <1>10, <1>11 DEF Inv
<1>. QED  BY <1>12, <1>13

LEMMA CallEvalKeeps ==
  ASSUME Inv, Verified, Verified', mode = Run, NEW P, Standing(P), CallEval PROVE Inv'
<1>1. /\ Op = "call" /\ Top = Native("EVAL") /\ Operand = 1 /\ RoomForTrap
      /\ UNCHANGED <<cstack, fns, freed, io>>
  BY DEF CallEval, Calling, Executing
<1>2. PICK start, x, new :
        /\ start \in StartLevels
        /\ x = Chunk([code |-> x.code, labels |-> x.labels], 0, FALSE, NoContext, start)
        /\ vars' = [vars EXCEPT ![Last(cstack)] = Rebound(@, new)]
        /\ chunks' = Append(chunks, x) /\ Discard(2)
        /\ \/ /\ traps' = Append(traps, Trap("eval", Nil, Popped(1), Len(frames) + 1))
              /\ Start(Len(chunks) + 1, "eval", 0, Len(cstack), Popped(2), start)
           \/ /\ mode' = Raising(SigError)
              /\ UNCHANGED <<frames, traps>>
  <2>1. PICK start \in StartLevels :
          LET c == CompiledForm(NewChunk(Scopes, fns, chunks, labnum, start, FALSE), Arg(1)[2])
              chunk == Chunk(c, 0, FALSE, NoContext, start)
          IN /\ vars' = [vars EXCEPT ![Last(cstack)] = Rebound(@, Last(c.scopes))]
             /\ chunks' = Append(chunks, chunk)
             /\ Discard(2)
             /\ IF c.ok
                  THEN /\ traps' = Append(traps, Trap("eval", Nil, Popped(1), Len(frames) + 1))
                       /\ Start(Len(chunks) + 1, "eval", 0, Len(cstack), Popped(2), start)
                  ELSE /\ mode' = Raising(SigError)
                       /\ UNCHANGED <<frames, traps>>
    BY DEF CallEval
  <2>2. PICK c, x : /\ c = CompiledForm(NewChunk(Scopes, fns, chunks, labnum, start, FALSE), Arg(1)[2])
                    /\ x = Chunk(c, 0, FALSE, NoContext, start)
    OBVIOUS
  <2>3. x = Chunk([code |-> x.code, labels |-> x.labels], 0, FALSE, NoContext, start)
    BY <2>2 DEF Chunk
  <2>. QED  BY <2>1, <2>2, <2>3
<1>3. /\ x.ctx = NoContext /\ x.entry = start /\ Parameters(x) = 0 /\ start \in Int
  BY <1>2, VmAssumption DEF Chunk, Parameters
<1>4. Callable(Top) /\ Pops(Top, Operand) = 1 + 1 /\ Pushes(Top) = 1
  BY <1>1, NativeFacts
<1>5. Rise(C, F.pc) = 1 - 2 /\ V.height - 2 >= Low(Plan(C), V)
  BY <1>1, <1>4, CallFacts
<1>6. /\ N \in Nat /\ N > 0 /\ Stacked(P) /\ Len(P) = N /\ N = Len(frames)
      /\ V.height \in Nat /\ V.scopes \in Nat /\ Low(Plan(C), V) \in Nat
      /\ LowScopes(Plan(C), V) \in Nat /\ LowScopes(Plan(C), V) <= V.scopes
      /\ P[N].base \in Nat /\ P[N].own \in Nat /\ P[N].own > 0 /\ sp \in Nat /\ Len(cstack) \in Nat
      /\ P[N].low = P[N].base + Low(Plan(C), V) /\ P[N].lows = P[N].own + LowScopes(Plan(C), V)
  BY StandFacts DEF N
<1>7. sp = P[N].base + V.height /\ Len(cstack) = P[N].own + V.scopes /\ Good(P, traps)
  BY DEF Standing
(* The numbers.                                                            *)
<1>8. PICK b, h, m, w, z, y, d, r :
        /\ b = P[N].base /\ h = V.height /\ m = Low(Plan(C), V) /\ w = P[N].own /\ z = V.scopes
        /\ y = LowScopes(Plan(C), V) /\ d = Len(cstack) /\ r = Rise(C, F.pc)
  OBVIOUS
<1>9. /\ b \in Nat /\ h \in Nat /\ m \in Nat /\ w \in Nat /\ w > 0 /\ z \in Nat /\ y \in Nat /\ y <= z
      /\ d = w + z /\ sp = b + h /\ h - 2 >= m /\ r = 1 - 2
      /\ P[N].low = b + m /\ P[N].lows = w + y
  BY <1>5, <1>6, <1>7, <1>8
<1>10. sp > 1 /\ Popped(1) = sp - 1 /\ Popped(2) = sp - 2
  BY <1>9 DEF Popped
<1>11. Memory' /\ sp' = sp - 2 /\ b + m <= sp - 2 /\ sp - 2 \in Int
  <2>1. Memory' /\ (2 <= sp => sp' = sp - 2)
    BY <1>2, DiscardFacts DEF Inv
  <2>2. 2 <= sp /\ b + m <= sp - 2 /\ sp - 2 \in Int
    BY <1>9
  <2>. QED  BY <2>1, <2>2
<1>12. Contexts' /\ Len(vars') = Len(vars) /\ Len(vars') \in Nat
  <2>1. PICK u, v : u = vars[Last(cstack)] /\ v = Rebound(u, new)
    OBVIOUS
  <2>2. Last(cstack) \in 1 .. Len(vars)
    BY InnermostContext DEF Inv
  <2>3. DOMAIN v = Syms /\ \A s \in Syms : v[s] # Junk
    <3>1. \A s \in Syms : u[s] # Junk
      BY <2>1, <2>2 DEF Inv, Contexts
    <3>2. \A k : IsOffset(k) => k # Junk
      BY DEF IsOffset, Junk
    <3>. QED  BY <2>1, <3>1, <3>2 DEF Rebound
  <2>4. vars' = [vars EXCEPT ![Last(cstack)] = v]
    BY <2>1, <1>2
  <2>. QED  BY <2>3, <2>4, <1>1, BindFacts DEF Inv
<1>13. Program' /\ Grown(chunks, chunks')
  BY <1>1, <1>2, <1>3, <1>12, MoreCode DEF Inv
<1>14. PICK k : k = Len(chunks) + 1
  OBVIOUS
<1>15. /\ chunks'[k] = x /\ k \in DOMAIN chunks' /\ k \in Nat /\ DOMAIN chunks = 1 .. k - 1
       /\ k \notin freed /\ k \notin 1 .. k - 1
  <2>1. IsSeq(chunks) /\ Len(chunks) \in Nat /\ DOMAIN chunks = 1 .. Len(chunks)
    BY SeqFacts DEF Inv, Program
  <2>2. PICK cs : cs = chunks'
    OBVIOUS
  <2>3. IsSeq(cs) /\ Len(cs) = k /\ cs[k] = x
    BY <2>1, <2>2, <1>2, <1>14, SeqFacts
  <2>4. DOMAIN cs = 1 .. k /\ k \in Nat /\ k > 0
    BY <2>1, <2>3, <1>14, SeqFacts
  <2>5. freed \subseteq 2 .. k - 1
    BY <2>1, <1>14 DEF Inv, Program
  <2>. QED  BY <2>1, <2>2, <2>3, <2>4, <2>5, <1>14
<1>16. UNCHANGED <<session, next>> /\ freed' = freed /\ cstack' = cstack
  BY <1>1 DEF io
<1>17. CASE /\ mode' = Raising(SigError) /\ UNCHANGED <<frames, traps>>
  <2>1. mode' \notin {Run, Prompt, Done} /\ \E e : mode' = Raising(e) /\ e # Junk
    BY <1>17, RaisingFacts
  <2>2. P[N].low <= sp'
    BY <1>9, <1>11
  <2>3. Shape'
    BY <2>1, <2>2, <1>13, <1>16, <1>17, StopShape
  <2>4. Talk'
    BY <2>1, <1>16, <1>17 DEF Inv, Talk
  <2>. QED  BY <2>3, <2>4, <1>11, <1>12, <1>13 DEF Inv
<1>18. CASE /\ traps' = Append(traps, Trap("eval", Nil, Popped(1), Len(frames) + 1))
            /\ Start(Len(chunks) + 1, "eval", 0, Len(cstack), Popped(2), start)
  <2>1. PICK t, ts : t = Trap("eval", Nil, Popped(1), Len(frames) + 1) /\ ts = traps'
    OBVIOUS
  <2>2. /\ t.owner = "eval" /\ t.catcher = Nil /\ t.live = TRUE /\ t.frame = N + 1 /\ t.off = sp - 1
        /\ t.lvl = d
    BY <2>1, <1>6, <1>8, <1>10 DEF Trap
  <2>3. ts = Append(traps, t)
    BY <2>1, <1>18
  <2>4. /\ IsSeq(traps) /\ Len(traps) \in Nat /\ Len(traps) < TrapSize /\ TrapSize \in Nat
    BY <1>1, SeqFacts, VmAssumption DEF RoomForTrap, Inv, Talk
  <2>5. IsSeq(ts) /\ Len(ts) = Len(traps) + 1 /\ Len(ts) <= TrapSize
    <3>1. IsSeq(ts) /\ Len(ts) = Len(traps) + 1
      BY <2>3, <2>4, SeqFacts
    <3>. QED  BY <3>1, <2>4
  <2>6. CASE TooDeep(Len(cstack))
    <3>1. mode' = Raising(Sym("STACK-OVERFLOW")) /\ NextI
      BY <1>18, <2>6 DEF Start
    <3>2. mode' \notin {Run, Prompt, Done} /\ \E e : mode' = Raising(e) /\ e # Junk
      BY <3>1, RaisingFacts
    <3>3. Pending(P, ts, d)
      <4>1. ts[Len(ts)] = t /\ SubSeq(ts, 1, Len(ts) - 1) = traps
        <5>1. PICK k2 : k2 = Len(traps)
          OBVIOUS
        <5>2. ts[k2 + 1] = t /\ Len(ts) = k2 + 1 /\ k2 \in Nat /\ Len(ts) - 1 = k2
              /\ \A i \in 1 .. k2 : ts[i] = traps[i]
          BY <5>1, <2>3, <2>4, <2>5, SeqFacts
        <5>3. k2 \in 0 .. Len(ts)
          BY <5>2
        <5>4. PICK us : us = SubSeq(ts, 1, k2)
          OBVIOUS
        <5>5. IsSeq(us) /\ Len(us) = k2 /\ \A i \in 1 .. k2 : us[i] = traps[i]
          BY <5>2, <5>3, <5>4, <2>5, SeqFacts
        <5>6. us = traps
          <6>1. us = [i \in 1 .. k2 |-> us[i]] /\ traps = [i \in 1 .. k2 |-> traps[i]]
            BY <5>1, <5>5, <2>4, SeqFacts
          <6>2. [i \in 1 .. k2 |-> us[i]] = [i \in 1 .. k2 |-> traps[i]]
            BY <5>5
          <6>. QED  BY <6>1, <6>2
        <5>. QED  BY <5>2, <5>4, <5>6
      <4>2. Good(P, SubSeq(ts, 1, Len(ts) - 1))
        BY <4>1, <1>7
      <4>3. sp - 1 \in Int /\ sp - 1 > b + m /\ d \in Nat /\ w + y <= d /\ d <= d
        BY <1>9
      <4>4. t.off \in Int /\ t.off > P[Len(P)].low /\ t.lvl \in Nat /\ P[Len(P)].lows <= t.lvl /\ t.lvl <= d
        BY <4>3, <2>2, <1>6, <1>9
      <4>5. Len(ts) > 0
        BY <2>4, <2>5
      <4>. QED  BY <4>1, <4>2, <4>4, <4>5, <2>2, <1>6 DEF Pending
    <3>4. P[N].low <= sp' /\ Len(cstack') = d /\ d \in Nat /\ d >= d
      <4>1. d \in Nat /\ d >= d
        BY <1>9
      <4>. QED  BY <4>1, <1>8, <1>9, <1>11, <1>16
    <3>5. Pending(P, traps', Len(cstack'))
      BY <3>3, <3>4, <2>1
    <3>6. Shape'
      BY <3>1, <3>2, <3>4, <3>5, <1>1, <1>8, <1>13, <1>16, Overflows
    <3>7. Talk'
      BY <3>2, <2>1, <2>5, <1>16 DEF Inv, Talk
    <3>. QED  BY <3>6, <3>7, <1>11, <1>12, <1>13 DEF Inv
  <2>7. CASE ~TooDeep(Len(cstack))
    <3>1. PICK g : g = [kind |-> "eval", chunk |-> k, pc |-> 1, argc |-> 0, bs_saved |-> 0,
                        saved_off |-> NoSave, origin |-> Popped(2) - start, lvl |-> Len(cstack)]
      OBVIOUS
    <3>2. frames' = Append([frames EXCEPT ![N].pc = @ + 1], g) /\ mode' = Run
      BY <3>1, <1>14, <1>18, <2>7 DEF Start, N
    <3>3. F' = g
      <4>1. PICK fs : fs = [frames EXCEPT ![N].pc = @ + 1]
        OBVIOUS
      <4>2. fs \in Seq(FrameRecs)
        BY <4>1, <1>1, <1>13, Waiting
      <4>. QED  BY <4>1, <4>2, <3>2, FrontFacts DEF F, Last
    <3>4. g.pc = 1 /\ g.chunk = k /\ g.kind = "eval" /\ g.argc = 0 /\ g.lvl = d
          /\ g.origin = sp - 2 - start
      BY <3>1, <1>8, <1>10
    <3>5. Level(chunks'[k])
      BY <3>2, <3>3, <3>4 DEF Verified
    <3>6. g \in FrameRecs
      <4>1. sp - 2 - start \in Int /\ d \in Int
        BY <1>3, <1>9
      <4>. QED  BY <4>1, <3>1, <1>8, <1>10, <1>15 DEF FrameRecs, NoSave
    <3>7. PICK q : q = [base |-> sp - 2, back |-> sp - 2, low |-> sp - 2, own |-> d, lows |-> d,
                        catch |-> 0, kind |-> "eval"]
      OBVIOUS
    <3>8. /\ q \in Pictures /\ q.kind = "eval" /\ q.catch = 0 /\ q.base = sp - 2 /\ q.back = sp - 2
          /\ q.low = q.base /\ q.lows = q.own /\ q.own = d /\ q.back <= q.base
          /\ q.base \in Int /\ q.own \in Nat
      <4>1. sp - 2 \in Int /\ sp - 2 <= sp - 2 /\ d \in Nat /\ d # 0
        BY <1>9
      <4>. QED  BY <4>1, <3>7 DEF Pictures
    <3>9. Good(Append(P, q), traps')
      <4>1. b + m <= sp - 2 /\ w + y <= d /\ sp - 1 = sp - 2 + 1
        BY <1>9
      <4>2. P[Len(P)].low <= q.back /\ P[Len(P)].lows <= q.own /\ t.frame = Len(P) + 1
            /\ t.off = q.base + 1 /\ t.lvl = q.own /\ Len(P) > 0
        BY <4>1, <3>8, <2>2, <1>6, <1>9
      <4>3. Good(Append(P, q), Append(traps, t))
        BY <4>2, <3>8, <2>2, <1>7, EnterEval
      <4>. QED  BY <4>3, <2>1, <2>3
    <3>10. Placed(chunks', g, q)
      <4>1. sp - 2 - start + start = sp - 2 /\ sp - 2 - 0 = sp - 2
        BY <1>3, <1>9
      <4>. QED  BY <4>1, <3>4, <3>5, <3>8, <1>3, <1>15 DEF Placed
    <3>11. /\ q.back + 1 = P[N].base + (V.height + Rise(C, F.pc)) /\ V.height + Rise(C, F.pc) > Low(Plan(C), V)
           /\ q.own = P[N].own + V.scopes + IF q.kind = "call" THEN 1 ELSE 0
      <4>1. sp - 2 + 1 = b + (h + r) /\ h + r > m /\ d = w + z + 0
        BY <1>9
      <4>. QED  BY <4>1, <3>8, <1>8
    <3>12. sp' = q.base /\ Len(cstack') = q.own
      BY <3>8, <1>8, <1>11, <1>16
    <3>13. \A i \in 1 .. N : frames[i].chunk # g.chunk
      <4>1. \A i \in 1 .. N : frames[i].chunk \in DOMAIN chunks
        BY DEF Standing, Frames, Placed, N
      <4>. QED  BY <4>1, <3>4, <1>15
    <3>14. g.chunk \notin freed
      BY <3>4, <1>15
    <3>15. Shape'
      BY <3>2, <3>4, <3>6, <3>8, <3>9, <3>10, <3>11, <3>12, <3>13, <3>14, <1>1, <1>13, <1>16, EnterChunk
    <3>16. Talk'
      BY <3>2, <2>1, <2>5, <1>16 DEF Inv, Talk
    <3>. QED  BY <3>15, <3>16, <1>11, <1>12, <1>13 DEF Inv
  <2>. QED  BY <2>6, <2>7
<1>. QED  BY <1>2, <1>17, <1>18

-------------------------------------------------------------------------------
(* A chunk ends.                                                           *)

LEMMA FirstItems ==
  ASSUME NEW S, NEW s \in Seq(S), NEW n \in 0 .. Len(s)
  PROVE  /\ SubSeq(s, 1, n) \in Seq(S) /\ Len(SubSeq(s, 1, n)) = n
         /\ \A i \in 1 .. n : SubSeq(s, 1, n)[i] = s[i]
OBVIOUS

LEMMA Resume ==
  ASSUME Inv, NEW P, Frames(chunks, freed, frames, P), Stacked(P), N > 1, frames' = Front(frames),
         chunks' = chunks, \A j \in 1 .. N - 1 : frames[j].chunk \notin freed',
         sp' = P[N].back + 1, Len(cstack') = P[N].own - IF P[N].kind = "call" THEN 1 ELSE 0,
         Good(Cut(P, N - 1), traps'), mode' = Run
  PROVE  Shape'
<1>1. PICK n, fs, gs, Q : n = N - 1 /\ fs = frames /\ gs = frames' /\ Q = Cut(P, N - 1)
  OBVIOUS
<1>2. N \in Nat /\ n \in Nat /\ n > 0 /\ fs \in Seq(FrameRecs) /\ Len(fs) = n + 1 /\ N = n + 1 /\ Len(P) = n + 1
  BY <1>1 DEF Frames, N
<1>3. gs \in Seq(FrameRecs) /\ Len(gs) = n /\ \A j \in 1 .. n : gs[j] = fs[j]
  <2>1. n \in 0 .. Len(fs) /\ Len(fs) - 1 = n
    BY <1>2
  <2>2. gs = SubSeq(fs, 1, n)
    BY <2>1, <1>1 DEF Front
  <2>. QED  BY <2>1, <2>2, <1>2, FirstItems
<1>4. Len(Q) = n /\ \A j \in 1 .. n : Q[j] = P[j]
  <2>1. n \in 0 .. Len(P)
    BY <1>2
  <2>2. Q = Cut(P, n)
    BY <1>1
  <2>. QED  BY <2>1, <2>2, CutFrames DEF Cut
<1>5. Frames(chunks', freed', gs, Q)
  <2>1. PICK cs, ds, dead, dead2 : cs = chunks /\ ds = chunks' /\ dead = freed /\ dead2 = freed'
    OBVIOUS
  <2>2. Frames(cs, dead, fs, P) /\ Grown(cs, ds) /\ Len(Q) = Len(gs) /\ Len(gs) > 0 /\ Len(gs) <= Len(fs)
    BY <2>1, <1>1, <1>2, <1>3, <1>4 DEF Grown
  <2>3. \A j \in 1 .. Len(gs) - 1 : gs[j] = fs[j] /\ Q[j] = P[j]
    BY <1>2, <1>3, <1>4
  <2>4. \A j \in 1 .. Len(gs) : fs[j].chunk \notin dead2
    BY <2>1, <1>1, <1>3
  <2>5. /\ Same(fs[n], gs[n]) /\ Q[n] = P[n]
    BY <1>2, <1>3, <1>4 DEF Same
  <2>6. Same(fs[Len(gs)], gs[Len(gs)]) /\ Q[Len(gs)] = P[Len(gs)]
    BY <2>5, <1>3
  <2>7. Frames(ds, dead2, gs, Q)
    BY <2>2, <2>3, <2>4, <2>6, <1>3, Retouch
  <2>. QED  BY <2>1, <2>7
<1>6. N' = n /\ F' = fs[n]
  BY <1>1, <1>2, <1>3 DEF N, F, Last
<1>7. Rests(chunks, fs[n], P[n]) /\ Waits(chunks, fs[n], P[n], P[n + 1])
  BY <1>1, <1>2 DEF Frames
<1>8. PICK v : v = PlanIn(chunks, fs[n])[fs[n].pc]
  OBVIOUS
<1>9. /\ P[n + 1].back + 1 = P[n].base + v.height
      /\ P[n + 1].own = P[n].own + v.scopes + (IF P[n + 1].kind = "call" THEN 1 ELSE 0)
      /\ Known(chunks[fs[n].chunk], fs[n].pc) = AnyValue
      /\ fs[n].pc \in DOMAIN PlanIn(chunks, fs[n]) /\ Seen(chunks, fs[n], v, P[n])
  BY <1>7, <1>8 DEF Rests, Waits
<1>10. P[n].own \in Nat /\ v.scopes \in Nat
  <2>1. n \in 1 .. Len(P) /\ n \in 1 .. Len(fs)
    BY <1>2
  <2>2. P[n].own \in Nat
    BY <2>1, FrameFacts
  <2>3. IsPlan(chunks[fs[n].chunk], PlanIn(chunks, fs[n]))
    BY <2>1, <1>1 DEF Frames, Placed, Level, PlanIn
  <2>4. v.scopes \in Nat
    BY <2>3, <1>8, <1>9, ViewFacts
  <2>. QED  BY <2>2, <2>4
<1>11. sp' = P[n].base + v.height /\ Len(cstack') = P[n].own + v.scopes
  <2>1. CASE P[n + 1].kind = "call"
    <3>1. P[n + 1].own = P[n].own + v.scopes + 1 /\ Len(cstack') = P[n + 1].own - 1
      BY <2>1, <1>2, <1>9
    <3>. QED  BY <3>1, <1>2, <1>9, <1>10
  <2>2. CASE P[n + 1].kind # "call"
    <3>1. P[n + 1].own = P[n].own + v.scopes + 0 /\ Len(cstack') = P[n + 1].own - 0
      BY <2>2, <1>2, <1>9
    <3>. QED  BY <3>1, <1>2, <1>9, <1>10
  <2>. QED  BY <2>1, <2>2
<1>12. Runs(chunks', F', Q[n], sp', Len(cstack'), Top')
  <2>1. n \in 1 .. n
    BY <1>2
  <2>2. Planned(chunks', F', Top', v)
    BY <1>6, <1>8, <1>9 DEF Planned, PlanIn
  <2>3. Seen(chunks', F', v, Q[n])
    BY <2>1, <1>4, <1>6, <1>9
  <2>. QED  BY <2>1, <2>2, <2>3, <1>4, <1>11 DEF Runs
<1>13. Running(Q)'
  BY <1>1, <1>2, <1>5, <1>6, <1>12 DEF Running
<1>14. mode' \notin {Prompt, Done}
  BY RaisingFacts
<1>. QED  BY <1>13, <1>14 DEF Shape

LEMMA NoOrphans ==
  ASSUME NEW ts, IsSeq(ts), NEW n \in Int, \A i \in 1 .. Len(ts) : ts[i].frame \in Int /\ ts[i].frame < n
  PROVE  Orphan(ts, n) = ts
<1>1. DOMAIN ts = 1 .. Len(ts) /\ ts = [i \in DOMAIN ts |-> ts[i]]
  BY SeqFacts
<1>2. \A i \in 1 .. Len(ts) : ~(ts[i].frame >= n)
  OBVIOUS
<1>3. Orphan(ts, n) = [i \in DOMAIN ts |-> ts[i]]
  BY <1>1, <1>2 DEF Orphan
<1>. QED  BY <1>1, <1>3

LEMMA ExitFacts ==
  ASSUME Inv, NEW P, Standing(P), Op = "exit"
  PROVE  /\ V.height = 1 /\ V.scopes = 0 /\ V.catch = 0 /\ P[N].catch = 0
         /\ sp = P[N].base + 1 /\ Len(cstack) = P[N].own /\ Good(P, traps)
         /\ N \in Nat /\ N > 0 /\ N \in 1 .. N /\ Len(P) = N /\ N = Len(frames) /\ Stacked(P)
         /\ Frames(chunks, freed, frames, P) /\ frames \in Seq(FrameRecs) /\ F = frames[N]
         /\ F.kind = P[N].kind /\ P[N].back = P[N].base - F.argc
         /\ F.argc \in Nat /\ (F.kind # "call" => F.argc = 0)
         /\ F.kind = "call" <=> C.ctx # NoContext
         /\ P[N].back \in Nat /\ P[N].base \in Nat /\ P[N].own \in Nat /\ P[N].own > 0
         /\ F.kind = "repl" <=> N = 1
         /\ sp \in Nat
<1>1. /\ Fits(C, Plan(C), F.pc) /\ Op = C.code[F.pc][1] /\ Placed(chunks, F, P[N])
      /\ N \in Nat /\ N > 0 /\ N \in 1 .. N /\ Len(P) = N /\ N = Len(frames) /\ Stacked(P)
      /\ frames \in Seq(FrameRecs) /\ F = frames[N] /\ F \in FrameRecs /\ IsPlan(C, Plan(C))
      /\ P[N].back \in Nat /\ P[N].base \in Nat /\ P[N].own \in Nat /\ P[N].own > 0 /\ sp \in Nat
  BY StandFacts DEF N
<1>2. V = [AtStart EXCEPT !.height = 1, !.saved = V.saved]
  BY <1>1 DEF Fits, V
<1>3. V.height = 1 /\ V.scopes = 0 /\ V.catch = 0
  BY <1>2 DEF AtStart
<1>4. /\ sp = P[N].base + V.height /\ Len(cstack) = P[N].own + V.scopes /\ Good(P, traps)
      /\ Frames(chunks, freed, frames, P) /\ Seen(chunks, F, V, P[N])
  BY DEF Standing
<1>5. P[N].catch = 0 /\ sp = P[N].base + 1 /\ Len(cstack) = P[N].own
  BY <1>1, <1>3, <1>4 DEF Seen
<1>6. /\ F.kind = P[N].kind /\ P[N].back = P[N].base - F.argc /\ F.argc = Parameters(C)
      /\ F.kind # "call" => F.argc = 0
      /\ F.kind = "call" <=> C.ctx # NoContext
  BY <1>1 DEF Placed, C
<1>7. Parameters(C) \in Nat
  BY <1>1 DEF IsPlan
<1>8. P[N].kind = "repl" <=> N = 1
  BY <1>1 DEF Stacked
<1>. QED  BY <1>1, <1>3, <1>4, <1>5, <1>6, <1>7, <1>8

(* No trap but the ones below.                                             *)
Older(ts, us) == \A k \in 1 .. Len(us) : k \in 1 .. Len(ts) /\ us[k] = ts[k]

LEMMA ExitCallKeeps ==
  ASSUME Inv, mode = Run, NEW P, Standing(P), Op = "exit", F.kind = "call", Len(cstack) > 1,
         Replace(1 + F.argc, Top), cstack' = Front(cstack), traps' = Orphan(traps, Len(frames)),
         frames' = Front(frames), UNCHANGED <<vars, fns, chunks, freed, mode>>, UNCHANGED io
  PROVE  Inv' /\ Older(traps, traps')
<1>1. /\ P[N].catch = 0 /\ sp = P[N].base + 1 /\ Len(cstack) = P[N].own /\ Good(P, traps)
      /\ N \in Nat /\ N > 0 /\ N \in 1 .. N /\ Len(P) = N /\ N = Len(frames) /\ Stacked(P)
      /\ Frames(chunks, freed, frames, P)
      /\ F.kind = P[N].kind /\ P[N].back = P[N].base - F.argc /\ F.argc \in Nat
      /\ P[N].back \in Nat /\ P[N].base \in Nat /\ (F.kind = "repl" <=> N = 1)
  BY ExitFacts
<1>2. N > 1 /\ P[N].kind = "call"
  BY <1>1
<1>3. Good(Cut(P, N - 1), traps) /\ \A i \in 1 .. Len(traps) : traps[i].frame < N
  <2>1. Len(P) > 1 /\ P[Len(P)].kind = "call" /\ P[Len(P)].catch = 0
    BY <1>1, <1>2
  <2>2. Good(Cut(P, Len(P) - 1), traps) /\ \A i \in 1 .. Len(traps) : traps[i].frame < Len(P)
    BY <2>1, <1>1, LeaveCall
  <2>. QED  BY <2>2, <1>1
<1>4. traps' = traps
  <2>1. \A i \in 1 .. Len(traps) : traps[i].frame \in Int
    BY <1>1, KeyFacts
  <2>2. IsSeq(traps)
    BY DEF Inv, Talk
  <2>3. Orphan(traps, N) = traps
    BY <2>1, <2>2, <1>1, <1>3, NoOrphans, SMTT(20)
  <2>. QED  BY <2>3, <1>1
<1>5. Memory' /\ sp' = P[N].back + 1
  <2>1. PICK n : n = 1 + F.argc
    OBVIOUS
  <2>2. n \in Nat /\ n <= sp /\ sp - n + 1 = P[N].back + 1
    <3>1. PICK a, b, k, d : a = F.argc /\ b = P[N].base /\ k = P[N].back /\ d = sp
      OBVIOUS
    <3>2. a \in Nat /\ b \in Nat /\ k \in Nat /\ k = b - a /\ d = b + 1 /\ n = 1 + a
      BY <3>1, <2>1, <1>1
    <3>3. n \in Nat /\ n <= d /\ d - n + 1 = k + 1
      BY <3>2
    <3>. QED  BY <3>1, <3>3
  <2>3. Top # Junk
    BY TopFacts DEF Inv
  <2>4. Memory' /\ (n <= sp => sp' = sp - n + 1)
    BY <2>1, <2>2, <2>3, ReplaceFacts DEF Inv
  <2>. QED  BY <2>2, <2>4
<1>6. Contexts' /\ Len(cstack') = Len(cstack) - 1 /\ Len(vars') \in Nat
  <2>1. IsSeq(cstack) /\ Len(cstack) \in Nat
    BY SeqFacts DEF Inv, Contexts
  <2>2. Len(cstack) - 1 \in 1 .. Len(cstack)
    BY <2>1
  <2>3. cstack' = SubSeq(cstack, 1, Len(cstack) - 1)
    BY <2>1, FrontFacts
  <2>. QED  BY <2>2, <2>3, CutContexts DEF Inv
<1>7. Program'
  BY <1>6, StillProgram DEF Inv
<1>8. Talk'
  BY <1>4, StillTalk DEF Inv, io
<1>9. \A j \in 1 .. N - 1 : frames[j].chunk \notin freed'
  BY <1>1 DEF Frames
<1>10. Shape'
  <2>1. Len(cstack') = P[N].own - IF P[N].kind = "call" THEN 1 ELSE 0
    BY <1>1, <1>2, <1>6
  <2>. QED  BY <2>1, <1>1, <1>2, <1>3, <1>4, <1>5, <1>9, Resume
<1>11. Older(traps, traps')
  BY <1>4 DEF Older
<1>. QED  BY <1>5, <1>6, <1>7, <1>8, <1>10, <1>11 DEF Inv

LEMMA ExitEvalKeeps ==
  ASSUME Inv, mode = Run, NEW P, Standing(P), Op = "exit", F.kind = "eval",
         freed' = freed \cup {F.chunk}, traps' = Orphan(PopTrap(traps), Len(frames)),
         frames' = Front(frames), UNCHANGED <<values, cstack, mode, vars, fns, chunks>>, UNCHANGED io
  PROVE  Inv' /\ Older(traps, traps')
<1>1. /\ P[N].catch = 0 /\ sp = P[N].base + 1 /\ Len(cstack) = P[N].own /\ Good(P, traps)
      /\ N \in Nat /\ N > 0 /\ N \in 1 .. N /\ Len(P) = N /\ N = Len(frames) /\ Stacked(P)
      /\ Frames(chunks, freed, frames, P) /\ frames \in Seq(FrameRecs) /\ F = frames[N]
      /\ F.kind = P[N].kind /\ P[N].back = P[N].base - F.argc /\ F.argc = 0 /\ C.ctx = NoContext
      /\ P[N].back \in Nat /\ P[N].base \in Nat /\ P[N].own \in Nat /\ (F.kind = "repl" <=> N = 1)
  BY ExitFacts
<1>2. N > 1 /\ P[N].kind = "eval"
  BY <1>1
<1>3. PICK k, ts : k = Len(traps) /\ ts = SubSeq(traps, 1, k - 1)
  OBVIOUS
<1>4. k \in 1 .. k /\ traps[k].frame = N /\ traps[k].owner = "eval"
  <2>1. Len(P) > 0 /\ P[Len(P)].kind = "eval" /\ P[Len(P)].catch = 0
    BY <1>1, <1>2
  <2>2. /\ Len(traps) \in 1 .. Len(traps) /\ traps[Len(traps)].frame = Len(P)
        /\ traps[Len(traps)].owner = "eval"
    BY <2>1, <1>1, LastTrap
  <2>. QED  BY <2>2, <1>1, <1>3
<1>5. Good(Cut(P, N - 1), ts) /\ Len(Cut(P, N - 1)) = N - 1
  <2>1. /\ Good(Cut(P, traps[k].frame - 1), SubSeq(traps, 1, k - 1))
        /\ Len(Cut(P, traps[k].frame - 1)) = traps[k].frame - 1
    BY <1>1, <1>3, <1>4, LeaveEval
  <2>. QED  BY <2>1, <1>3, <1>4
<1>6. IsSeq(traps) /\ k \in Nat /\ k > 0 /\ IsSeq(ts) /\ Len(ts) = k - 1
  <2>1. IsSeq(traps) /\ k \in Nat /\ k > 0
    BY <1>3, <1>4, SeqFacts DEF Inv, Talk
  <2>2. k - 1 \in 0 .. Len(traps)
    BY <2>1, <1>3
  <2>. QED  BY <2>1, <2>2, <1>3, SeqFacts
<1>7. traps' = ts
  <2>1. PopTrap(traps) = ts
    <3>1. traps # << >>
      BY <1>3, <1>6
    <3>. QED  BY <3>1, <1>3, <1>6, FrontFacts DEF PopTrap
  <2>2. \A i \in 1 .. Len(ts) : ts[i].frame \in Int /\ ts[i].frame < N
    <3>1. PICK Q : Q = Cut(P, N - 1)
      OBVIOUS
    <3>2. \A i \in 1 .. Len(ts) : ts[i].frame \in 0 .. Len(Q)
      BY <3>1, <1>5, KeyFacts
    <3>. QED  BY <3>1, <3>2, <1>1, <1>5
  <2>3. Orphan(ts, N) = ts
    BY <2>2, <1>1, <1>6, NoOrphans, SMTT(20)
  <2>. QED  BY <2>1, <2>3, <1>1
<1>8. Memory' /\ sp' = P[N].back + 1
  BY <1>1 DEF Inv, Memory, values
<1>9. Contexts' /\ Len(vars') \in Nat
  BY SeqFacts DEF Inv, Contexts
<1>10. \A j \in 1 .. N - 1 : frames[j].chunk \notin freed'
  <2>1. \A j \in 1 .. N - 1 : j \in 1 .. N /\ j < N
    BY <1>1
  <2>2. \A j \in 1 .. N - 1 : frames[j].chunk # frames[N].chunk /\ frames[j].chunk \notin freed
    BY <2>1, <1>1, <1>2 DEF Frames
  <2>. QED  BY <2>2, <1>1
<1>11. Program'
  <2>1. Placed(chunks, F, P[N]) /\ F.chunk \in DOMAIN chunks
    BY <1>1 DEF Frames, Placed
  <2>2. F.chunk # 1
    <3>1. Placed(chunks, frames[1], P[1]) /\ 1 \in 1 .. N /\ 1 < N
      BY <1>1, <1>2 DEF Frames
    <3>2. frames[1].kind = "repl"
      BY <3>1, <1>1 DEF Placed, Stacked
    <3>3. frames[1].chunk = 1
      BY <3>1, <3>2 DEF Placed
    <3>. QED  BY <3>1, <3>3, <1>1, <1>2 DEF Frames
  <2>3. IsSeq(chunks) /\ Len(chunks) \in Nat /\ DOMAIN chunks = 1 .. Len(chunks)
    BY SeqFacts DEF Inv, Program
  <2>4. F.chunk \in 2 .. Len(chunks) /\ chunks[F.chunk].ctx = NoContext
    BY <2>1, <2>2, <2>3, <1>1 DEF C
  <2>. QED  BY <2>4 DEF Inv, Program
<1>12. Talk'
  <2>1. Len(ts) <= TrapSize
    <3>1. k <= TrapSize /\ TrapSize \in Nat
      BY <1>3, VmAssumption DEF Inv, Talk
    <3>. QED  BY <3>1, <1>6
  <2>. QED  BY <2>1, <1>6, <1>7 DEF Inv, Talk, io
<1>13. Shape'
  <2>1. Len(cstack') = P[N].own - IF P[N].kind = "call" THEN 1 ELSE 0
    BY <1>1, <1>2
  <2>2. Good(Cut(P, N - 1), traps')
    BY <1>5, <1>7
  <2>. QED  BY <2>1, <2>2, <1>1, <1>2, <1>8, <1>10, Resume
<1>14. Older(traps, traps')
  <2>1. k - 1 \in 0 .. Len(traps) /\ \A i \in 1 .. k - 1 : i \in 1 .. Len(traps)
    BY <1>3, <1>6
  <2>2. Len(ts) = k - 1 /\ \A i \in 1 .. k - 1 : ts[i] = traps[i]
    BY <2>1, <1>3, <1>6, SeqFacts
  <2>. QED  BY <2>1, <2>2, <1>7 DEF Older
<1>. QED  BY <1>8, <1>9, <1>11, <1>12, <1>13, <1>14 DEF Inv

LEMMA ExitReplKeeps ==
  ASSUME Inv, mode = Run, NEW P, Standing(P), Op = "exit", F.kind = "repl", mode' = Prompt,
         traps' = Orphan(PopTrap(traps), Len(frames)),
         frames' = Front(frames), UNCHANGED <<values, cstack, freed, vars, fns, chunks>>, UNCHANGED io
  PROVE  Inv' /\ Older(traps, traps')
<1>1. /\ P[N].catch = 0 /\ sp = P[N].base + 1 /\ Len(cstack) = P[N].own /\ Good(P, traps)
      /\ N = 1 /\ Len(P) = N /\ N = Len(frames) /\ Stacked(P) /\ frames \in Seq(FrameRecs)
  BY ExitFacts
<1>2. P[1].base = 0 /\ P[1].own = 1
  BY <1>1 DEF Stacked
<1>3. Len(traps) = 1
  BY <1>1, LastFrame
<1>4. IsSeq(traps)
  BY DEF Inv, Talk
<1>5. traps' = << >>
  <2>1. PICK ts : ts = PopTrap(traps)
    OBVIOUS
  <2>2. ts = Front(traps)
    BY <2>1, <1>3 DEF PopTrap
  <2>3. IsSeq(ts) /\ Len(ts) = 0
    <3>1. PICK us : us = traps
      OBVIOUS
    <3>2. IsSeq(us) /\ Len(us) > 0 /\ Len(us) - 1 = 0
      BY <3>1, <1>3, <1>4
    <3>3. IsSeq(Front(us)) /\ Len(Front(us)) = Len(us) - 1
      BY <3>2, FrontFacts
    <3>. QED  BY <3>1, <3>2, <3>3, <2>2
  <2>4. ts = << >>
    BY <2>3 DEF IsSeq
  <2>5. Orphan(ts, Len(frames)) = ts
    BY <2>3, <1>1, NoOrphans
  <2>. QED  BY <2>1, <2>4, <2>5
<1>6. frames' = << >>
  <2>1. PICK fs, gs : fs = frames' /\ gs = frames
    OBVIOUS
  <2>5. IsSeq(frames) /\ Len(frames) = 1
    BY <1>1 DEF IsSeq
  <2>2. IsSeq(gs) /\ Len(gs) > 0 /\ Len(gs) - 1 = 0
    <3>1. IsSeq(gs) /\ Len(gs) = 1
      BY <2>1, <2>5
    <3>. QED  BY <3>1
  <2>4. IsSeq(Front(gs)) /\ Len(Front(gs)) = Len(gs) - 1
    BY <2>2, FrontFacts
  <2>3. IsSeq(fs) /\ Len(fs) = 0
    BY <2>1, <2>2, <2>4
  <2>. QED  BY <2>1, <2>3 DEF IsSeq
<1>7. cstack' = <<Global>> /\ sp' = 1
  <2>1. IsSeq(cstack) /\ Len(cstack) = 1 /\ cstack[1] = Global
    BY <1>1, <1>2 DEF Inv, Contexts
  <2>2. cstack = <<Global>>
    BY <2>1 DEF IsSeq
  <2>. QED  BY <2>2, <1>1, <1>2 DEF values
<1>8. Memory'
  BY DEF Inv, Memory, values
<1>9. Contexts' /\ Program'
  <2>1. Contexts' /\ Len(vars') \in Nat
    BY SeqFacts DEF Inv, Contexts
  <2>. QED  BY <2>1, StillProgram DEF Inv
<1>10. Shape'
  <2>1. Clean'
    BY <1>5, <1>6, <1>7 DEF Clean
  <2>. QED  BY <2>1, RaisingFacts DEF Shape
<1>11. Talk'
  <2>1. IsSeq(traps') /\ Len(traps') <= TrapSize
    <3>1. IsSeq(<< >>) /\ Len(<< >>) = 0
      BY DEF IsSeq
    <3>. QED  BY <3>1, <1>5, VmAssumption
  <2>. QED  BY <2>1 DEF Inv, Talk, io
<1>12. Older(traps, traps')
  BY <1>5 DEF Older
<1>. QED  BY <1>8, <1>9, <1>10, <1>11, <1>12 DEF Inv

LEMMA ExitKeeps ==
  ASSUME Inv, mode = Run, NEW P, Standing(P), ExitI
  PROVE  Inv' /\ Older(traps, traps')
<1>1. Op = "exit" /\ frames' = Front(frames) /\ UNCHANGED <<vars, fns, chunks, labnum, io>>
  BY DEF ExitI, Executing
<1>2. CASE /\ F.kind = "call" /\ Len(cstack) > 1 /\ Replace(1 + F.argc, Top) /\ cstack' = Front(cstack)
           /\ traps' = Orphan(traps, Len(frames)) /\ UNCHANGED <<freed, mode>>
  BY <1>1, <1>2, ExitCallKeeps
<1>3. CASE /\ F.kind = "eval" /\ freed' = freed \cup {F.chunk}
           /\ traps' = Orphan(PopTrap(traps), Len(frames)) /\ UNCHANGED <<values, cstack, mode>>
  BY <1>1, <1>3, ExitEvalKeeps
<1>4. CASE /\ F.kind = "repl" /\ traps' = Orphan(PopTrap(traps), Len(frames)) /\ mode' = Prompt
           /\ UNCHANGED <<values, cstack, freed>>
  BY <1>1, <1>4, ExitReplKeeps
<1>. QED  BY <1>2, <1>3, <1>4 DEF ExitI

-------------------------------------------------------------------------------
(* An error.  What a trap of vm_eval or of main goes back to may have been *)
(* popped, but it was on the stack when the trap was pushed.               *)

Marks == \A k \in 1 .. Len(traps) : \A m \in 1 .. traps[k].off : m <= StackSize /\ mem[m] # Junk

LEMMA CatcherFacts ==
  ASSUME Inv, NEW e, Caught(e)
  PROVE  /\ Catcher(e) \in 1 .. Len(traps) /\ Wants(Catcher(e), e)
         /\ \A i \in 1 .. Len(traps) : Wants(i, e) => i <= Catcher(e)
         /\ IsSeq(traps) /\ Len(traps) \in Nat /\ e # Junk /\ mode \notin {Run, Prompt, Done}
<1>1. IsSeq(traps) /\ Len(traps) \in Nat /\ DOMAIN traps = 1 .. Len(traps)
  BY SeqFacts DEF Inv, Talk
<1>2. PICK n, S : n = Len(traps) /\ S = {i \in DOMAIN traps : Wants(i, e)}
  OBVIOUS
<1>3. n \in Nat /\ S \subseteq 1 .. n /\ S # {}
  BY <1>1, <1>2 DEF Caught
<1>4. Max(S) \in S /\ \A y \in S : y <= Max(S)
  BY <1>3, MaxFacts
<1>5. Catcher(e) = Max(S)
  BY <1>2 DEF Catcher
<1>6. mode = Raising(e)
  BY DEF Caught
<1>7. e # Junk
  <2>1. PICK x : mode = Raising(x) /\ x # Junk
    BY <1>6, RaisingFacts DEF Inv, Talk
  <2>2. mode[2] = x /\ mode[2] = e
    BY <2>1, <1>6 DEF Raising
  <2>. QED  BY <2>1, <2>2
<1>8. mode \notin {Run, Prompt, Done}
  BY <1>6, RaisingFacts
<1>. QED  BY <1>1, <1>2, <1>4, <1>5, <1>7, <1>8

(* The trap of vm_eval whose chunk was not entered wants every error.      *)
LEMMA PendingCatches ==
  ASSUME Inv, NEW e, Caught(e), NEW P, Pending(P, traps, Len(cstack))
  PROVE  Catcher(e) = Len(traps) /\ traps[Catcher(e)].owner = "eval"
<1>1. /\ Catcher(e) \in 1 .. Len(traps) /\ Len(traps) \in Nat
      /\ \A i \in 1 .. Len(traps) : Wants(i, e) => i <= Catcher(e)
  BY CatcherFacts
<1>2. Len(traps) > 0 /\ traps[Len(traps)].owner = "eval" /\ traps[Len(traps)].catcher = Nil
  BY DEF Pending
<1>3. Wants(Len(traps), e)
  BY <1>2 DEF Wants
<1>. QED  BY <1>1, <1>2, <1>3

(* What unwinding leaves.                                                  *)
LEMMA UnwindFacts ==
  ASSUME Inv, NEW e, Caught(e), Unwind(traps[Catcher(e)]), traps[Catcher(e)].lvl \in Nat,
         traps[Catcher(e)].lvl > 0
  PROVE  /\ Contexts' /\ Program' /\ Len(cstack') = traps[Catcher(e)].lvl
         /\ chunks' = chunks /\ freed' = freed /\ Grown(chunks, chunks')
         /\ traps' = SubSeq(traps, 1, Catcher(e) - 1) /\ IsSeq(traps') /\ Len(traps') = Catcher(e) - 1
         /\ Len(traps') <= TrapSize
<1>1. PICK t, k : k = Catcher(e) /\ t = traps[k]
  OBVIOUS
<1>2. k \in 1 .. Len(traps) /\ IsSeq(traps) /\ Len(traps) \in Nat /\ mode[2] = e
  BY <1>1, CatcherFacts, RaisingFacts DEF Caught
<1>3. /\ t.lvl <= Len(cstack) /\ cstack' = SubSeq(cstack, 1, t.lvl)
      /\ traps' = SubSeq(traps, 1, k - 1) /\ UNCHANGED <<vars, program>>
  BY <1>1, <1>2 DEF Unwind
<1>4. Len(cstack) \in Nat /\ t.lvl \in Nat /\ t.lvl > 0
  BY <1>1, SeqFacts DEF Inv, Contexts
<1>5. t.lvl \in 1 .. Len(cstack) /\ vars' = vars
  BY <1>3, <1>4
<1>6. Contexts' /\ Len(cstack') = t.lvl /\ Len(vars') \in Nat
  BY <1>3, <1>5, CutContexts DEF Inv
<1>7. UNCHANGED <<chunks, freed, fns>>
  BY <1>3 DEF program
<1>8. Program' /\ Grown(chunks, chunks')
  BY <1>5, <1>6, <1>7, StillProgram DEF Inv
<1>9. IsSeq(traps') /\ Len(traps') = k - 1
  BY <1>2, <1>3, SeqFacts
<1>10. Len(traps') <= TrapSize
  <2>1. Len(traps) <= TrapSize /\ TrapSize \in Nat
    BY VmAssumption DEF Inv, Talk
  <2>. QED  BY <2>1, <1>2, <1>9
<1>. QED  BY <1>1, <1>3, <1>6, <1>7, <1>8, <1>9, <1>10

(* What a frame in which an error is caught has kept.                      *)
LEMMA CatchingFrame ==
  ASSUME Inv, NEW P, Frames(chunks, freed, frames, P), Rests(chunks, F, P[N]), N > 0, Stacked(P),
         NEW n \in 1 .. N, P[n].catch # 0
  PROVE  LET c == chunks[frames[n].chunk]
             p == Plan(c)
             i == P[n].catch
         IN /\ IsPlan(c, p) /\ i \in DOMAIN p /\ c.code[i][1] = "catch"
            /\ frames[n].bs_saved = i /\ frames[n] \in FrameRecs
            /\ P[n].low = P[n].base + (p[i].height - 1) /\ P[n].lows = P[n].own + p[i].scopes
            /\ p[i].saved # NoSave => frames[n].saved_off = P[n].base + p[i].saved
<1>1. PICK c, p, i, f, q : /\ c = chunks[frames[n].chunk] /\ p = Plan(c) /\ i = P[n].catch
                           /\ f = frames[n] /\ q = P[n]
  OBVIOUS
<1>2. N \in Nat /\ frames \in Seq(FrameRecs) /\ n \in 1 .. Len(frames) /\ F = frames[N]
  BY DEF Frames, N, F, Last
<1>3. Placed(chunks, f, q) /\ f \in FrameRecs
  BY <1>1, <1>2 DEF Frames
<1>4. Rests(chunks, f, q)
  <2>1. CASE n = N
    BY <2>1, <1>1, <1>2
  <2>2. CASE n # N
    <3>1. n \in 1 .. Len(frames) - 1
      BY <2>2, <1>2 DEF N
    <3>. QED  BY <3>1, <1>1 DEF Frames
  <2>. QED  BY <2>1, <2>2
<1>5. IsPlan(c, p) /\ PlanIn(chunks, f) = p
  BY <1>1, <1>3 DEF Placed, Level, PlanIn
<1>6. PICK v : v = p[f.pc]
  OBVIOUS
<1>7. /\ f.pc \in DOMAIN p /\ i = v.catch /\ q.low = q.base + Low(p, v) /\ q.lows = q.own + LowScopes(p, v)
      /\ v.saved # NoSave => f.saved_off = q.base + v.saved
      /\ v.catch # 0 => f.bs_saved = v.catch
  BY <1>1, <1>4, <1>5, <1>6 DEF Rests, Seen
<1>8. Kept(c, p, v) /\ i # 0
  BY <1>1, <1>5, <1>6, <1>7, ViewFacts
<1>9. i \in DOMAIN p /\ c.code[i][1] = "catch" /\ (p[i].saved # NoSave => v.saved = p[i].saved)
  BY <1>7, <1>8 DEF Kept
<1>10. Low(p, v) = p[i].height - 1 /\ LowScopes(p, v) = p[i].scopes
  BY <1>7, <1>8 DEF Low, LowScopes
<1>11. p[i].saved # NoSave => f.saved_off = q.base + p[i].saved
  BY <1>7, <1>9
<1>. QED  BY <1>1, <1>3, <1>5, <1>7, <1>8, <1>9, <1>10, <1>11

LEMMA RaiseToCatchKeeps ==
  ASSUME Inv, NEW P, Stopped(P), NEW e, RaiseToCatch(e)
  PROVE  Inv'
<1>1. PICK k, t, n, low : k = Catcher(e) /\ t = traps[k] /\ n = t.frame /\ low = t.off
  OBVIOUS
<1>2. /\ Caught(e) /\ t.owner = "catch" /\ Unwind(t) /\ low + 2 <= StackSize
      /\ mem' = [mem EXCEPT ![low + 1] = e, ![low + 2] = T] /\ sp' = low + 2
      /\ \E at \in {t.at, frames[n].bs_saved} : frames' = [SubSeq(frames, 1, n) EXCEPT ![n].pc = at + 1]
      /\ mode' = Run /\ UNCHANGED io
  BY <1>1 DEF RaiseToCatch
<1>3. /\ N > 0 /\ Frames(chunks, freed, frames, P) /\ Rests(chunks, F, P[N]) /\ P[N].low <= sp
      /\ Good(P, traps)
  <2>1. ~Pending(P, traps, Len(cstack))
    BY <1>1, <1>2, PendingCatches
  <2>. QED  BY <2>1 DEF Stopped
<1>4. k \in 1 .. Len(traps) /\ e # Junk
  BY <1>1, <1>2, CatcherFacts
<1>5. Stacked(P) /\ N \in Nat /\ Len(P) = N /\ frames \in Seq(FrameRecs) /\ Len(frames) = N
  BY <1>3 DEF Good, Frames, N
<1>6. PICK Q : Q = Calm(Cut(P, n))
  OBVIOUS
<1>7. n \in 1 .. N /\ n \in Nat /\ Good(Q, SubSeq(traps, 1, k - 1)) /\ Len(Q) = n
  BY <1>1, <1>2, <1>3, <1>4, <1>5, <1>6, LeaveCatch
<1>8. /\ \A j \in 1 .. n - 1 : Q[j] = P[j]
      /\ Q[n].kind = P[n].kind /\ Q[n].base = P[n].base /\ Q[n].own = P[n].own /\ Q[n].back = P[n].back
      /\ Q[n].catch = 0 /\ Q[n].low = P[n].base /\ Q[n].lows = P[n].own
  <2>1. /\ \A j \in 1 .. n : /\ j # n => Q[j] = P[j]
                             /\ Q[j].kind = P[j].kind /\ Q[j].base = P[j].base
                             /\ Q[j].own = P[j].own /\ Q[j].back = P[j].back
        /\ Q[n].catch = 0 /\ Q[n].low = P[n].base /\ Q[n].lows = P[n].own
    <3>1. n \in 1 .. Len(P)
      BY <1>5, <1>7
    <3>. QED  BY <3>1, <1>5, <1>6, CalmFacts
  <2>2. n \in 1 .. n /\ \A j \in 1 .. n - 1 : j \in 1 .. n /\ j # n
    BY <1>7
  <2>. QED  BY <2>1, <2>2
<1>9. t.at = P[n].catch /\ t.at # 0 /\ low = P[n].low /\ t.lvl = P[n].lows
  <2>1. TrapFits(t, P)
    BY <1>1, <1>3, <1>4 DEF Good, TrapsFit
  <2>. QED  BY <2>1, <1>1, <1>2 DEF TrapFits
<1>10. PICK c, p, i, f : c = chunks[frames[n].chunk] /\ p = Plan(c) /\ i = t.at /\ f = frames[n]
  OBVIOUS
<1>11. /\ IsPlan(c, p) /\ i \in DOMAIN p /\ c.code[i][1] = "catch" /\ f.bs_saved = i /\ f \in FrameRecs
       /\ low = P[n].base + (p[i].height - 1) /\ t.lvl = P[n].own + p[i].scopes
       /\ p[i].saved # NoSave => f.saved_off = P[n].base + p[i].saved
  <2>1. Frames(chunks, freed, frames, P) /\ Rests(chunks, F, P[N]) /\ N > 0 /\ Stacked(P)
    BY <1>3, <1>5
  <2>2. PICK m : m = n
    OBVIOUS
  <2>3. m \in 1 .. N /\ P[m].catch # 0
    BY <2>2, <1>7, <1>9
  <2>4. PICK q, g : q = P[m] /\ g = frames[m]
    OBVIOUS
  <2>5. PICK d, r, l : d = chunks[g.chunk] /\ r = Plan(d) /\ l = q.catch
    OBVIOUS
  <2>6. /\ IsPlan(d, r) /\ l \in DOMAIN r /\ d.code[l][1] = "catch" /\ g.bs_saved = l /\ g \in FrameRecs
        /\ q.low = q.base + (r[l].height - 1) /\ q.lows = q.own + r[l].scopes
        /\ r[l].saved # NoSave => g.saved_off = q.base + r[l].saved
    BY <2>1, <2>3, <2>4, <2>5, CatchingFrame
  <2>7. q = P[n] /\ g = f
    BY <2>2, <2>4, <1>10
  <2>8. d = c /\ r = p /\ l = i
    BY <2>5, <2>7, <1>9, <1>10
  <2>. QED  BY <2>6, <2>7, <2>8, <1>9
<1>12. /\ p[i].catch = 0 /\ p[i].height \in Nat /\ p[i].height > 0 /\ p[i].scopes \in Nat /\ i \in Nat
       /\ p[i] \in Views(c)
  BY <1>11, ViewFacts, CatchStep
<1>13. P[n].base \in Nat /\ P[n].own \in Nat /\ P[n].own > 0 /\ P[n].low <= P[N].low /\ P[N].low \in Int
  <2>1. n \in 1 .. Len(P) /\ N \in 1 .. Len(P) /\ n <= N
    BY <1>5, <1>7
  <2>2. P[n].base \in Int /\ P[n].back >= 0 /\ P[n].back <= P[n].base /\ P[n].back \in Int
        /\ P[n].own \in Nat /\ P[n].own > 0 /\ P[n].low <= P[N].low /\ P[N].low \in Int
    BY <2>1, <1>5, FrameFacts
  <2>. QED  BY <2>2
<1>14. low \in Nat /\ low <= sp /\ sp \in Nat /\ t.lvl \in Nat /\ t.lvl > 0 /\ StackSize \in Nat
  <2>1. sp \in Nat /\ StackSize \in Nat
    BY VmAssumption DEF Inv, Memory
  <2>2. low \in Nat
    BY <1>11, <1>12, <1>13
  <2>3. low <= sp
    <3>1. low <= P[N].low /\ P[N].low <= sp
      BY <1>3, <1>9, <1>13
    <3>. QED  BY <3>1, <2>1, <2>2, <1>13
  <2>4. t.lvl \in Nat /\ t.lvl > 0
    BY <1>11, <1>12, <1>13
  <2>. QED  BY <2>1, <2>2, <2>3, <2>4
<1>15. /\ Contexts' /\ Program' /\ Len(cstack') = t.lvl
       /\ chunks' = chunks /\ freed' = freed /\ Grown(chunks, chunks')
       /\ traps' = SubSeq(traps, 1, k - 1) /\ IsSeq(traps') /\ Len(traps') <= TrapSize
  BY <1>1, <1>2, <1>14, UnwindFacts
<1>16. Memory' /\ Top' = T
  <2>1. \A m \in DOMAIN mem : mem'[m] = IF m = low + 2 THEN T ELSE IF m = low + 1 THEN e ELSE mem[m]
    BY <1>2, <1>14
  <2>2. DOMAIN mem = 1 .. StackSize /\ DOMAIN mem' = 1 .. StackSize
    BY <1>2 DEF Inv, Memory
  <2>3. T # Junk
    BY TopFacts DEF Inv
  <2>4. sp' \in 1 .. StackSize /\ sp' \in Nat /\ sp' # 0
    BY <1>2, <1>14
  <2>5. ASSUME NEW m \in 1 .. sp' PROVE mem'[m] # Junk
    <3>1. m \in DOMAIN mem /\ (m # low + 2 /\ m # low + 1 => m \in 1 .. sp)
      BY <2>2, <2>4, <1>2, <1>14
    <3>2. m # low + 2 /\ m # low + 1 => mem[m] # Junk
      BY <3>1 DEF Inv, Memory
    <3>. QED  BY <3>1, <3>2, <2>1, <2>3, <1>4
  <2>6. Top' = T
    BY <2>1, <2>2, <2>4, <1>2 DEF Top
  <2>. QED  BY <2>2, <2>4, <2>5, <2>6 DEF Memory
<1>17. PICK gs, g : gs = frames' /\ g = [f EXCEPT !.pc = i + 1]
  OBVIOUS
<1>18. gs \in Seq(FrameRecs) /\ Len(gs) = n /\ gs[n] = g /\ \A j \in 1 .. n - 1 : gs[j] = frames[j]
  <2>1. PICK hs : hs = SubSeq(frames, 1, n)
    OBVIOUS
  <2>2. hs \in Seq(FrameRecs) /\ Len(hs) = n /\ \A j \in 1 .. n : hs[j] = frames[j]
    BY <2>1, <1>5, <1>7, FirstItems
  <2>3. g \in FrameRecs
    BY <1>11, <1>12, <1>17 DEF FrameRecs
  <2>4. gs = [hs EXCEPT ![n].pc = i + 1]
    BY <2>1, <1>2, <1>10, <1>11, <1>17
  <2>5. hs[n] = f /\ n \in 1 .. n
    BY <2>2, <1>7, <1>10
  <2>6. gs = [hs EXCEPT ![n] = g]
    BY <2>4, <2>5, <1>17
  <2>. QED  BY <2>2, <2>3, <2>5, <2>6
<1>19. g.pc = i + 1 /\ g.saved_off = f.saved_off /\ Same(f, g)
  BY <1>11, <1>17 DEF FrameRecs, Same
<1>20. Frames(chunks, freed, gs, Q)
  <2>1. Len(Q) = Len(gs) /\ Len(gs) > 0 /\ Len(gs) <= Len(frames) /\ Grown(chunks, chunks)
    BY <1>5, <1>7, <1>18 DEF Grown
  <2>2. \A j \in 1 .. Len(gs) - 1 : gs[j] = frames[j] /\ Q[j] = P[j]
    BY <1>8, <1>18
  <2>3. \A j \in 1 .. Len(gs) : frames[j].chunk \notin freed
    BY <1>3, <1>5, <1>7, <1>18 DEF Frames
  <2>4. Same(frames[Len(gs)], gs[Len(gs)])
    BY <1>10, <1>18, <1>19
  <2>5. /\ Q[Len(gs)].base = P[Len(gs)].base /\ Q[Len(gs)].back = P[Len(gs)].back
        /\ Q[Len(gs)].own = P[Len(gs)].own /\ Q[Len(gs)].kind = P[Len(gs)].kind
    BY <1>8, <1>18
  <2>. QED  BY <2>1, <2>2, <2>3, <2>4, <2>5, <1>3, <1>18, Retouch
<1>21. N' = n /\ F' = g
  BY <1>17, <1>18 DEF N, F, Last
<1>22. PICK v : v = Thrown(p[i])
  OBVIOUS
<1>23. v.catch = 0 /\ v.height = p[i].height + 1 /\ v.scopes = p[i].scopes /\ v.saved = p[i].saved
  BY <1>12, <1>22 DEF Thrown, Views
<1>24. chunks[g.chunk] = c /\ PlanIn(chunks, g) = p
  BY <1>10, <1>19 DEF Same, PlanIn
<1>25. Seen(chunks, g, v, Q[n])
  <2>1. Low(p, v) = 0 /\ LowScopes(p, v) = 0
    BY <1>23 DEF Low, LowScopes
  <2>2. Q[n].low = Q[n].base + 0 /\ Q[n].lows = Q[n].own + 0
    BY <1>8, <1>13
  <2>. QED  BY <2>1, <2>2, <1>8, <1>11, <1>19, <1>23, <1>24 DEF Seen
<1>26. Branching(chunks, g, T, v)
  <2>1. g.pc - 1 = i
    BY <1>12, <1>19
  <2>. QED  BY <2>1, <1>11, <1>22, <1>24 DEF Branching
<1>27. sp' = Q[n].base + v.height /\ Len(cstack') = Q[n].own + v.scopes
  <2>1. PICK b, h, o : b = P[n].base /\ h = p[i].height /\ o = P[n].own
    OBVIOUS
  <2>2. b \in Nat /\ h \in Nat /\ low = b + (h - 1) /\ v.height = h + 1 /\ Q[n].base = b
    BY <2>1, <1>8, <1>11, <1>12, <1>13, <1>23
  <2>3. sp' = Q[n].base + v.height
    BY <2>2, <1>2
  <2>4. Len(cstack') = o + v.scopes /\ Q[n].own = o
    BY <2>1, <1>8, <1>11, <1>15, <1>23
  <2>. QED  BY <2>3, <2>4
<1>28. Runs(chunks', F', Q[n], sp', Len(cstack'), Top')
  BY <1>15, <1>16, <1>21, <1>25, <1>26, <1>27 DEF Runs
<1>29. Running(Q)'
  BY <1>7, <1>15, <1>17, <1>20, <1>21, <1>28 DEF Running
<1>30. Shape'
  BY <1>2, <1>29, RaisingFacts DEF Shape
<1>31. Talk'
  BY <1>2, <1>15 DEF Inv, Talk, io
<1>. QED  BY <1>15, <1>16, <1>30, <1>31 DEF Inv

LEMMA MarkedMemory ==
  ASSUME Inv, Marks, NEW k \in 1 .. Len(traps), traps[k].off \in Nat, traps[k].off < StackSize, NEW e,
         mem' = [mem EXCEPT ![traps[k].off + 1] = e], sp' = traps[k].off
  PROVE  Memory'
<1>1. PICK off : off = traps[k].off
  OBVIOUS
<1>2. off \in Nat /\ StackSize \in Nat /\ off < StackSize /\ sp' = off
  BY <1>1, VmAssumption
<1>3. DOMAIN mem = 1 .. StackSize /\ DOMAIN mem' = 1 .. StackSize
  BY DEF Inv, Memory
<1>4. \A m \in 1 .. off : m \in 1 .. StackSize /\ m # off + 1 /\ mem[m] # Junk
  BY <1>1, <1>2 DEF Marks
<1>5. \A m \in 1 .. off : mem'[m] = mem[m]
  BY <1>1, <1>2, <1>3, <1>4
<1>. QED  BY <1>2, <1>3, <1>4, <1>5 DEF Memory

(* Back in the frame below, whose plan says what it keeps.                 *)
LEMMA StoppedBelow ==
  ASSUME Inv, NEW P, Frames(chunks, freed, frames, P), Rests(chunks, F, P[N]), N > 0, Stacked(P),
         NEW n \in 1 .. N, frames' = SubSeq(frames, 1, n), chunks' = chunks, freed' = freed,
         NEW Q, Len(Q) = n, \A j \in 1 .. n : Q[j] = P[j],
         P[n].low <= sp', P[n].lows <= Len(cstack'), Good(Q, traps')
  PROVE  Stopped(Q)'
<1>1. N \in Nat /\ n \in Nat /\ frames \in Seq(FrameRecs) /\ Len(frames) = N /\ F = frames[N] /\ n \in 1 .. n
  BY DEF Frames, N, F, Last
<1>2. PICK gs : gs = frames'
  OBVIOUS
<1>3. gs \in Seq(FrameRecs) /\ Len(gs) = n /\ \A j \in 1 .. n : gs[j] = frames[j]
  BY <1>1, <1>2, FirstItems
<1>4. Frames(chunks, freed, gs, Q)
  <2>1. Len(Q) = Len(gs) /\ Len(gs) > 0 /\ Len(gs) <= Len(frames) /\ Grown(chunks, chunks)
    BY <1>1, <1>3 DEF Grown
  <2>2. \A j \in 1 .. Len(gs) - 1 : gs[j] = frames[j] /\ Q[j] = P[j]
    BY <1>1, <1>3
  <2>3. \A j \in 1 .. Len(gs) : frames[j].chunk \notin freed
    BY <1>1, <1>3 DEF Frames
  <2>4. Same(frames[n], gs[n])
    BY <1>1, <1>3 DEF Same
  <2>5. Q[n] = P[n] /\ Len(gs) = n
    BY <1>1, <1>3
  <2>6. PICK fs : fs = frames
    OBVIOUS
  <2>7. /\ Frames(chunks, freed, fs, P) /\ gs \in Seq(FrameRecs)
        /\ Len(Q) = Len(gs) /\ Len(gs) > 0 /\ Len(gs) <= Len(fs) /\ Grown(chunks, chunks)
    BY <2>1, <2>6, <1>3
  <2>8. \A j \in 1 .. Len(gs) - 1 : gs[j] = fs[j] /\ Q[j] = P[j]
    BY <2>2, <2>6
  <2>9. (\A j \in 1 .. Len(gs) : fs[j].chunk \notin freed) /\ Same(fs[Len(gs)], gs[Len(gs)])
    BY <2>3, <2>4, <2>5, <2>6
  <2>10. /\ Q[Len(gs)].base = P[Len(gs)].base /\ Q[Len(gs)].back = P[Len(gs)].back
         /\ Q[Len(gs)].own = P[Len(gs)].own /\ Q[Len(gs)].kind = P[Len(gs)].kind
    BY <2>5
  <2>. QED  BY <2>7, <2>8, <2>9, <2>10, Retouch
<1>5. N' = n /\ F' = frames[n]
  BY <1>1, <1>2, <1>3 DEF N, F, Last
<1>6. Rests(chunks, frames[n], P[n])
  <2>1. CASE n = N
    BY <2>1, <1>1
  <2>2. CASE n # N
    <3>1. n \in 1 .. Len(frames) - 1
      BY <2>2, <1>1
    <3>. QED  BY <3>1 DEF Frames
  <2>. QED  BY <2>1, <2>2
<1>7. Q[n] = P[n]
  BY <1>1
<1>. QED  BY <1>1, <1>2, <1>4, <1>5, <1>6, <1>7 DEF Stopped

LEMMA RaiseToEvalKeeps ==
  ASSUME Inv, Marks, NEW P, Stopped(P), NEW e, RaiseToEval(e)
  PROVE  Inv'
<1>1. PICK k, t, n : k = Catcher(e) /\ t = traps[k] /\ n = t.frame
  OBVIOUS
<1>2. /\ Caught(e) /\ t.owner = "eval" /\ Unwind(t) /\ t.off < StackSize
      /\ mem' = [mem EXCEPT ![t.off + 1] = e] /\ sp' = t.off
      /\ frames' = SubSeq(frames, 1, n - 1) /\ UNCHANGED io /\ mode' = mode
  BY <1>1 DEF RaiseToEval
<1>3. k \in 1 .. Len(traps) /\ Len(traps) \in Nat /\ mode \notin {Run, Prompt, Done}
  BY <1>1, <1>2, CatcherFacts
<1>4. N > 0 /\ Frames(chunks, freed, frames, P) /\ Rests(chunks, F, P[N]) /\ Stacked(P)
  BY DEF Stopped, Good, Pending
<1>5. N \in Nat /\ Len(P) = N /\ frames \in Seq(FrameRecs) /\ Len(frames) = N
  BY <1>4 DEF Frames, N
<1>6. \E Q : /\ n - 1 \in 1 .. N /\ Good(Q, SubSeq(traps, 1, k - 1)) /\ Len(Q) = n - 1
             /\ \A j \in 1 .. n - 1 : Q[j] = P[j]
             /\ t.lvl \in Nat /\ t.lvl > 0 /\ t.off \in Nat
             /\ P[n - 1].low <= t.off /\ P[n - 1].lows <= t.lvl
  <2>1. CASE Good(P, traps)
    <3>1. PICK Q : Q = Cut(P, n - 1)
      OBVIOUS
    <3>2. n \in 2 .. N /\ Good(Q, SubSeq(traps, 1, k - 1)) /\ Len(Q) = n - 1
      BY <2>1, <3>1, <1>1, <1>2, <1>3, <1>5, LeaveEval
    <3>3. n - 1 \in 1 .. N /\ n - 1 < n /\ n - 1 \in 1 .. Len(P) /\ n \in 1 .. Len(P)
      BY <3>2, <1>5
    <3>4. \A j \in 1 .. n - 1 : Q[j] = P[j]
      BY <3>1 DEF Cut
    <3>5. t.lvl = P[n].own /\ t.off = P[n].base + 1
      <4>1. TrapFits(t, P)
        BY <2>1, <1>1, <1>3 DEF Good, TrapsFit
      <4>. QED  BY <4>1, <1>1, <1>2 DEF TrapFits
    <3>6. /\ P[n].own \in Nat /\ P[n].own > 0 /\ P[n].base \in Int /\ P[n].back \in Int
          /\ P[n].back >= 0 /\ P[n].back <= P[n].base
          /\ P[n - 1].low \in Int /\ P[n - 1].lows \in Nat
      BY <3>3, <1>4, FrameFacts
    <3>7. P[n - 1].low <= P[n].back /\ P[n - 1].lows <= P[n].own
      BY <3>3, <1>4 DEF Stacked
    <3>8. t.lvl \in Nat /\ t.lvl > 0 /\ t.off \in Nat /\ P[n - 1].low <= t.off /\ P[n - 1].lows <= t.lvl
      BY <3>5, <3>6, <3>7
    <3>. QED  BY <3>2, <3>3, <3>4, <3>8
  <2>2. CASE Pending(P, traps, Len(cstack))
    <3>1. k = Len(traps)
      BY <2>2, <1>1, <1>2, PendingCatches
    <3>2. /\ Good(P, SubSeq(traps, 1, k - 1)) /\ n = N + 1 /\ t.off \in Int /\ t.off > P[N].low
          /\ t.lvl \in Nat /\ P[N].lows <= t.lvl
      BY <2>2, <3>1, <1>1, <1>5 DEF Pending
    <3>3. n - 1 = N /\ N \in 1 .. N /\ N \in 1 .. Len(P)
      BY <3>2, <1>4, <1>5
    <3>4. /\ P[N].low \in Int /\ P[N].base <= P[N].low /\ P[N].back <= P[N].base /\ P[N].back >= 0
          /\ P[N].base \in Int /\ P[N].back \in Int
          /\ P[N].own \in Nat /\ P[N].own > 0 /\ P[N].own <= P[N].lows /\ P[N].lows \in Nat
      BY <3>3, <1>4, FrameFacts
    <3>5. t.off \in Nat /\ t.lvl > 0 /\ P[N].low <= t.off
      BY <3>2, <3>4
    <3>. QED  BY <3>2, <3>3, <3>5, <1>5
  <2>. QED  BY <2>1, <2>2 DEF Stopped
<1>7. PICK Q, m : /\ m = n - 1 /\ m \in 1 .. N /\ Good(Q, SubSeq(traps, 1, k - 1)) /\ Len(Q) = m
                  /\ \A j \in 1 .. m : Q[j] = P[j]
                  /\ t.lvl \in Nat /\ t.lvl > 0 /\ t.off \in Nat
                  /\ P[m].low <= t.off /\ P[m].lows <= t.lvl
  BY <1>6
<1>8. /\ Contexts' /\ Program' /\ Len(cstack') = t.lvl
      /\ chunks' = chunks /\ freed' = freed
      /\ traps' = SubSeq(traps, 1, k - 1) /\ IsSeq(traps') /\ Len(traps') <= TrapSize
  BY <1>1, <1>2, <1>7, UnwindFacts
<1>9. Memory'
  BY <1>1, <1>2, <1>3, <1>7, MarkedMemory
<1>10. Stopped(Q)'
  <2>1. P[m].low <= sp' /\ P[m].lows <= Len(cstack') /\ Good(Q, traps') /\ frames' = SubSeq(frames, 1, m)
    BY <1>2, <1>7, <1>8
  <2>. QED  BY <2>1, <1>4, <1>7, <1>8, StoppedBelow
<1>11. Shape'
  BY <1>2, <1>3, <1>10 DEF Shape
<1>12. Talk'
  BY <1>2, <1>8 DEF Inv, Talk, io
<1>. QED  BY <1>8, <1>9, <1>11, <1>12 DEF Inv

LEMMA RaiseToMainKeeps ==
  ASSUME Inv, Marks, NEW P, Stopped(P), NEW e, RaiseToMain(e)
  PROVE  Inv'
<1>1. PICK k, t : k = Catcher(e) /\ t = traps[k]
  OBVIOUS
<1>2. /\ Caught(e) /\ t.owner = "main" /\ Unwind(t) /\ t.off < StackSize
      /\ mem' = [mem EXCEPT ![t.off + 1] = e] /\ sp' = t.off /\ frames' = << >>
      /\ mode' \in {Done, Prompt} /\ UNCHANGED <<session, next>>
  BY <1>1 DEF RaiseToMain
<1>3. k \in 1 .. Len(traps) /\ Len(traps) \in Nat
  BY <1>1, <1>2, CatcherFacts
<1>4. Good(P, traps)
  <2>1. ~Pending(P, traps, Len(cstack))
    BY <1>1, <1>2, PendingCatches
  <2>. QED  BY <2>1 DEF Stopped
<1>5. k = 1
  BY <1>1, <1>2, <1>3, <1>4, KeyFacts
<1>6. t.lvl = 1 /\ t.off \in 0 .. 1 /\ t.lvl \in Nat /\ t.lvl > 0 /\ t.off \in Nat
  <2>1. TrapFits(t, P)
    BY <1>1, <1>3, <1>4 DEF Good, TrapsFit
  <2>2. t.lvl = 1 /\ t.off \in 0 .. 1
    BY <2>1, <1>2 DEF TrapFits
  <2>. QED  BY <2>2
<1>7. /\ Contexts' /\ Program' /\ Len(cstack') = 1
      /\ IsSeq(traps') /\ Len(traps') = k - 1 /\ Len(traps') <= TrapSize
  BY <1>1, <1>2, <1>6, UnwindFacts
<1>8. Memory'
  BY <1>1, <1>2, <1>3, <1>6, MarkedMemory
<1>9. Clean'
  <2>1. traps' = << >>
    BY <1>5, <1>7 DEF IsSeq
  <2>2. cstack' = <<Global>>
    BY <1>7 DEF Contexts, IsSeq
  <2>. QED  BY <2>1, <2>2, <1>2, <1>6 DEF Clean
<1>10. Shape'
  BY <1>2, <1>9, RaisingFacts DEF Shape
<1>11. Talk'
  BY <1>2, <1>7 DEF Inv, Talk
<1>. QED  BY <1>7, <1>8, <1>10, <1>11 DEF Inv

-------------------------------------------------------------------------------
(* The loop of main(), and where the program stops.                        *)

LEMMA FirstFrame ==
  ASSUME NEW cs, cs[1].ctx = NoContext, Parameters(cs[1]) = 0, cs[1].entry = 0, 1 \in DOMAIN cs,
         Level(cs[1]), NEW f, f \in FrameRecs, f.kind = "repl", f.chunk = 1, f.pc = 1, f.argc = 0,
         f.origin = 0, f.lvl = 1,
         NEW t, t.owner = "main", t.frame = 0, t.lvl = 1, t.off \in 0 .. 1, t.catcher = Nil, t.live = TRUE,
         NEW dead, 1 \notin dead, NEW top
  PROVE  \E P : /\ Frames(cs, dead, <<f>>, P) /\ Good(P, <<t>>) /\ Len(P) = 1
                /\ Runs(cs, f, P[1], 0, 1, top)
<1>1. PICK q : q = [base |-> 0, back |-> 0, low |-> 0, own |-> 1, lows |-> 1, catch |-> 0, kind |-> "repl"]
  OBVIOUS
<1>2. PICK P, fs, ts : P = <<q>> /\ fs = <<f>> /\ ts = <<t>>
  OBVIOUS
<1>3. Len(P) = 1 /\ P[1] = q /\ P \in Seq(Pictures) /\ Len(fs) = 1 /\ fs[1] = f /\ fs \in Seq(FrameRecs)
      /\ Len(ts) = 1 /\ ts[1] = t /\ IsSeq(ts)
  <2>1. q \in Pictures
    BY <1>1 DEF Pictures
  <2>2. ts \in Seq({t}) /\ Len(ts) = 1 /\ ts[1] = t
    BY <1>2
  <2>3. IsSeq(ts)
    BY <2>2 DEF IsSeq
  <2>4. P \in Seq(Pictures) /\ Len(P) = 1 /\ P[1] = q
    BY <2>1, <1>2
  <2>5. fs \in Seq(FrameRecs) /\ Len(fs) = 1 /\ fs[1] = f
    BY <1>2
  <2>. QED  BY <2>2, <2>3, <2>4, <2>5
<1>4. /\ q.base = 0 /\ q.back = 0 /\ q.low = 0 /\ q.own = 1 /\ q.lows = 1 /\ q.catch = 0 /\ q.kind = "repl"
  BY <1>1
<1>5. Stacked(P)
  BY <1>3, <1>4 DEF Stacked
<1>6. TrapsFit(P, ts)
  <2>1. TrapFits(t, P)
    BY DEF TrapFits
  <2>2. P[1].kind # "eval" /\ P[1].catch = 0
    BY <1>3, <1>4
  <2>. QED  BY <2>1, <2>2, <1>3 DEF TrapsFit, Increasing
<1>7. PlanIn(cs, f) = Plan(cs[1]) /\ IsPlan(cs[1], Plan(cs[1]))
  BY DEF PlanIn, Level
<1>8. Placed(cs, f, q)
  BY <1>4 DEF Placed
<1>9. Frames(cs, dead, fs, P)
  <2>1. \A j \in 1 .. Len(fs) : j = 1
    BY <1>3
  <2>2. \A j \in 1 .. Len(fs) - 1 : FALSE
    BY <1>3
  <2>3. \A i, j \in 1 .. Len(fs) : ~(i < j)
    BY <1>3
  <2>. QED  BY <2>1, <2>2, <2>3, <1>3, <1>8 DEF Frames
<1>10. PICK v : v = AtStart
  OBVIOUS
<1>11. v.height = 0 /\ v.scopes = 0 /\ v.catch = 0 /\ v.saved = NoSave
  BY <1>10 DEF AtStart
<1>12. Planned(cs, f, top, v)
  <2>1. 1 \in DOMAIN Plan(cs[1]) /\ Plan(cs[1])[1] = v
    BY <1>7, <1>10 DEF IsPlan
  <2>2. Known(cs[1], 1) = AnyValue
    BY KnownFacts
  <2>. QED  BY <2>1, <2>2, <1>7 DEF Planned
<1>13. Seen(cs, f, v, q)
  <2>1. Low(PlanIn(cs, f), v) = 0 /\ LowScopes(PlanIn(cs, f), v) = 0
    BY <1>11 DEF Low, LowScopes
  <2>. QED  BY <2>1, <1>4, <1>11 DEF Seen
<1>14. Runs(cs, f, q, 0, 1, top)
  BY <1>4, <1>11, <1>12, <1>13 DEF Runs
<1>. QED  BY <1>2, <1>3, <1>5, <1>6, <1>9, <1>14 DEF Good

LEMMA MainLoopKeeps ==
  ASSUME Inv, Verified', MainLoop
  PROVE  Inv'
<1>1. /\ mode = Prompt /\ Len(traps) < TrapSize /\ traps' = Append(traps, Trap("main", Nil, sp, 0))
      /\ Discard(1) /\ mode' = Run /\ UNCHANGED <<context, program, io>>
  BY DEF MainLoop, RoomForTrap
<1>2. Clean
  BY <1>1 DEF Inv, Shape
<1>3. sp \in 0 .. 1 /\ Popped(1) = 0
  <2>1. sp \in Nat /\ sp <= 1
    BY <1>2 DEF Clean, Inv, Memory
  <2>. QED  BY <2>1 DEF Popped
<1>4. PICK t : t = Trap("main", Nil, sp, 0)
  OBVIOUS
<1>5. /\ t.owner = "main" /\ t.frame = 0 /\ t.lvl = 1 /\ t.off \in 0 .. 1 /\ t.catcher = Nil /\ t.live = TRUE
  BY <1>2, <1>3, <1>4 DEF Trap, Clean
<1>6. traps' = <<t>>
  BY <1>1, <1>2, <1>4 DEF Clean
<1>7. PICK f : f = [kind |-> "repl", chunk |-> 1, pc |-> 1, argc |-> 0, bs_saved |-> 0,
                    saved_off |-> NoSave, origin |-> 0, lvl |-> 1]
  OBVIOUS
<1>8. /\ f \in FrameRecs /\ f.kind = "repl" /\ f.chunk = 1 /\ f.pc = 1 /\ f.argc = 0
      /\ f.origin = 0 /\ f.lvl = 1
  BY <1>7 DEF FrameRecs, NoSave
<1>9. frames' = <<f>> /\ N' = 1 /\ F' = f
  <2>1. frames' = <<f>>
    BY <1>3, <1>7 DEF MainLoop
  <2>. QED  BY <2>1 DEF N, F, Last
<1>10. Contexts' /\ Program' /\ chunks' = chunks /\ freed' = freed /\ cstack' = cstack
  BY <1>1, OnwardFacts DEF program
<1>11. /\ chunks[1].ctx = NoContext /\ Parameters(chunks[1]) = 0 /\ chunks[1].entry = 0
       /\ 1 \in DOMAIN chunks /\ 1 \notin freed
  BY SeqFacts DEF Inv, Program
<1>12. Level(chunks[1])
  <2>1. mode' = Run /\ F'.pc = 1 /\ chunks'[F'.chunk] = chunks[1]
    BY <1>1, <1>8, <1>9, <1>10
  <2>. QED  BY <2>1 DEF Verified
<1>13. Memory' /\ sp' = 0
  <2>1. Memory'
    BY <1>1, DiscardFacts DEF Inv
  <2>. QED  BY <2>1, <1>1, <1>3 DEF Discard
<1>14. Len(cstack') = 1
  BY <1>2, <1>10 DEF Clean
<1>15. PICK cs, dead, top : cs = chunks /\ dead = freed /\ top = Top'
  OBVIOUS
<1>16. PICK P : Frames(cs, dead, <<f>>, P) /\ Good(P, <<t>>) /\ Len(P) = 1 /\ Runs(cs, f, P[1], 0, 1, top)
  BY <1>5, <1>8, <1>11, <1>12, <1>15, FirstFrame
<1>17. Running(P)'
  BY <1>6, <1>9, <1>10, <1>13, <1>14, <1>15, <1>16 DEF Running
<1>18. Shape'
  BY <1>1, <1>17, RaisingFacts DEF Shape
<1>19. Talk'
  <2>1. IsSeq(traps') /\ Len(traps') = 1
    <3>1. PICK ts : ts = <<t>>
      OBVIOUS
    <3>2. ts \in Seq({t}) /\ Len(ts) = 1
      BY <3>1
    <3>3. IsSeq(ts)
      BY <3>2 DEF IsSeq
    <3>. QED  BY <3>1, <3>2, <3>3, <1>6
  <2>. QED  BY <2>1, <1>1, VmAssumption DEF Inv, Talk, io
<1>. QED  BY <1>10, <1>13, <1>18, <1>19 DEF Inv

LEMMA BreakKeeps ==
  ASSUME Inv, Break
  PROVE  Inv'
<1>1. mode' \in {Undefined, Aborted} /\ UNCHANGED <<values, context, program, io, frames, traps>>
  BY DEF Break, Stop
<1>2. mode = Run \/ mode[1] = "raise"
  BY DEF Break, Breaks, Fails, PushesTrap, Executing, Computes, Calling
<1>3. UNCHANGED <<mem, sp, cstack, vars, chunks, freed, fns, session, next, frames, traps>>
  BY <1>1 DEF values, context, program, io
<1>4. next' \in 1 .. Len(session) + 2
  BY <1>3 DEF Inv, Talk
<1>5. CASE mode = Run
  <2>1. mode[1] # "raise"
    BY <1>5, RaisingFacts
  <2>2. Op # "go_if_not_nil"
    BY <2>1 DEF Break, Breaks, Fails, PushesTrap, Executing, Computes, ByZero, Calling
  <2>3. PICK P : Standing(P)
    BY <2>2, <1>5, Instructions
  <2>. QED  BY <2>3, <1>1, <1>4, StopKeeps DEF io
<1>6. CASE mode[1] = "raise"
  <2>1. mode \notin {Run, Prompt, Done} /\ mode' \notin {Run, Prompt, Done}
    BY <1>1, <1>6, RaisingFacts
  <2>2. PICK P : Stopped(P)
    BY <2>1 DEF Inv, Shape
  <2>3. Stopped(P)'
    BY <2>2, <1>3 DEF Stopped, F, N
  <2>4. Shape'
    BY <2>1, <2>3 DEF Shape
  <2>5. Memory' /\ Contexts' /\ Program' /\ Talk'
    BY <1>1, <1>3 DEF Inv, Memory, Contexts, Program, Talk
  <2>. QED  BY <2>4, <2>5 DEF Inv
<1>. QED  BY <1>2, <1>5, <1>6

-------------------------------------------------------------------------------
(* Every step.                                                             *)

LEMMA InitInv ==
  ASSUME Init
  PROVE  Inv /\ Marks
<1>1. /\ session \in Sessions /\ next = 1 /\ mem = [i \in 1 .. StackSize |-> Junk] /\ sp = 0
      /\ cstack = <<Global>> /\ vars = <<NoVars>> /\ fns = [f \in FnNames |-> Unbound]
      /\ chunks = <<ReplChunk>> /\ freed = {} /\ frames = << >> /\ traps = << >> /\ mode = Prompt
  BY DEF Init
<1>2. ASSUME NEW x, NEW s, s = <<x>> PROVE IsSeq(s) /\ Len(s) = 1 /\ s[1] = x
  <2>1. s \in Seq({x}) /\ Len(s) = 1 /\ s[1] = x
    BY <1>2
  <2>. QED  BY <2>1 DEF IsSeq
<1>3. Memory
  BY <1>1, VmAssumption DEF Memory
<1>4. Contexts
  <2>1. DOMAIN NoVars = Syms /\ \A s \in Syms : NoVars[s] # Junk
    BY DEF NoVars, Unbound, Junk
  <2>2. IsSeq(vars) /\ Len(vars) = 1 /\ vars[1] = NoVars /\ IsSeq(cstack) /\ Len(cstack) = 1 /\ cstack[1] = 1
    BY <1>1, <1>2 DEF Global
  <2>. QED  BY <2>1, <2>2 DEF Contexts, Global
<1>5. Program
  <2>1. IsSeq(chunks) /\ Len(chunks) = 1 /\ chunks[1] = ReplChunk
    BY <1>1, <1>2
  <2>2. PICK c : ReplChunk = Chunk(c, 0, FALSE, NoContext, 0)
    BY DEF ReplChunk
  <2>3. ReplChunk.ctx = NoContext /\ Parameters(ReplChunk) = 0 /\ ReplChunk.entry = 0
    BY <2>2 DEF Chunk, Parameters
  <2>4. \A f \in FnNames : fns[f] = Unbound
    BY <1>1
  <2>. QED  BY <2>1, <2>3, <2>4, <1>1 DEF Program
<1>6. Talk
  <2>1. IsSeq(traps) /\ Len(traps) = 0
    <3>1. << >> \in Seq({}) /\ Len(<< >>) = 0
      OBVIOUS
    <3>2. IsSeq(<< >>)
      BY <3>1 DEF IsSeq
    <3>. QED  BY <3>1, <3>2, <1>1
  <2>. QED  BY <2>1, <1>1, VmAssumption DEF Talk
<1>7. Shape
  BY <1>1, RaisingFacts DEF Shape, Clean
<1>8. Marks
  BY <1>1 DEF Marks
<1>. QED  BY <1>3, <1>4, <1>5, <1>6, <1>7, <1>8 DEF Inv

(* An instruction whose plan holds, or the jump behind a catch.            *)
LEMMA InstructionKeeps ==
  ASSUME Inv, Verified, Verified', Instruction
  PROVE  Inv'
<1>1. mode = Run
  BY DEF Instruction, PushI, PopI, ChewTopI, PushFromStackI, PopToStackI, ResolveI, BindVarI,
     PushContextI, PopContextI, GoI, GoIfI, ArithI, SaveStackoffI, RestoreStackoffI, CatchI, PopCatchI,
     CallCode, CallList, CallCompare, Compares, CallBind, CallFunction, CallRead, CallPrint, CallEval,
     CallCompileFn, CallCompileLambda, SignalI, ExitI, Computes, Calling, Executing
<1>2. ASSUME NEW P, Standing(P) PROVE Inv'
  <2>1. CASE PushI \/ PopI \/ ChewTopI \/ PushFromStackI \/ PopToStackI \/ ResolveI \/ BindVarI
    BY <2>1, <1>1, <1>2, PushKeeps, PopKeeps, ChewTopKeeps, PushFromStackKeeps, PopToStackKeeps,
       ResolveKeeps, BindVarKeeps
  <2>2. CASE PushContextI \/ PopContextI \/ GoI \/ GoIfI \/ ArithI
    BY <2>2, <1>1, <1>2, PushContextKeeps, PopContextKeeps, GoKeeps, GoIfKeeps, ArithKeeps
  <2>3. CASE SaveStackoffI \/ RestoreStackoffI \/ CatchI \/ PopCatchI
    BY <2>3, <1>1, <1>2, SaveStackoffKeeps, RestoreStackoffKeeps, CatchKeeps, PopCatchKeeps
  <2>4. CASE CallCode \/ CallList \/ CallCompare \/ CallBind \/ CallFunction
    BY <2>4, <1>1, <1>2, CallCodeKeeps, CallListKeeps, CallCompareKeeps, CallBindKeeps, CallFunctionKeeps
  <2>5. CASE CallRead \/ CallPrint \/ CallEval
    BY <2>5, <1>1, <1>2, CallReadKeeps, CallPrintKeeps, CallEvalKeeps
  <2>6. CASE CallCompileFn \/ CallCompileLambda \/ SignalI \/ ExitI
    BY <2>6, <1>1, <1>2, CallCompileFnKeeps, CallCompileLambdaKeeps, SignalKeeps, ExitKeeps
  <2>. QED  BY <2>1, <2>2, <2>3, <2>4, <2>5, <2>6 DEF Instruction
<1>3. ASSUME NEW P, Running(P), Op = "go_if_not_nil", F.pc - 1 \in DOMAIN Plan(C),
             NEW v, Branching(chunks, F, Top, v), Seen(chunks, F, v, P[N]),
             sp = P[N].base + v.height, Len(cstack) = P[N].own + v.scopes
      PROVE  Inv'
  <2>1. GoIfI
    BY <1>3 DEF Instruction, PushI, PopI, ChewTopI, PushFromStackI, PopToStackI, ResolveI, BindVarI,
       PushContextI, PopContextI, GoI, ArithI, SaveStackoffI, RestoreStackoffI, CatchI, PopCatchI,
       CallCode, CallList, CallCompare, Compares, CallBind, CallFunction, CallRead, CallPrint, CallEval,
       CallCompileFn, CallCompileLambda, SignalI, ExitI, Computes, Calling, Executing
  <2>. QED  BY <2>1, <1>1, <1>3, BranchKeeps
<1>. QED  BY <1>1, <1>2, <1>3, Instructions

(* What was written is written over at most.                               *)
Written == \A m \in DOMAIN mem : mem'[m] = mem[m] \/ mem'[m] # Junk

LEMMA ReplaceWrites ==
  ASSUME Memory, Memory', NEW n, NEW x, Replace(n, x)
  PROVE  Written
<1>1. mem' = [mem EXCEPT ![sp'] = x] /\ DOMAIN mem = 1 .. StackSize /\ sp' \in 0 .. StackSize
      /\ StackSize \in Nat
  BY VmAssumption DEF Replace, Memory
<1>2. \A m \in DOMAIN mem : m # sp' => mem'[m] = mem[m]
  BY <1>1
<1>3. \A m \in DOMAIN mem : m = sp' => m \in 1 .. sp'
  BY <1>1
<1>. QED  BY <1>2, <1>3 DEF Written, Memory

(* A trap that is pushed remembers a height that the stack has.            *)
Marked == \A k \in 1 .. Len(traps') :
            \/ k \in 1 .. Len(traps) /\ traps'[k] = traps[k]
            \/ traps'[k].off \in Int /\ traps'[k].off <= sp

LEMMA MarkFacts ==
  ASSUME Memory, Marks, Written, Marked
  PROVE  Marks'
<1>1. DOMAIN mem = 1 .. StackSize /\ sp \in Nat /\ sp <= StackSize /\ StackSize \in Nat
  BY VmAssumption DEF Memory
<1>2. ASSUME NEW m, m \in 1 .. StackSize, mem[m] # Junk PROVE mem'[m] # Junk
  BY <1>1, <1>2 DEF Written
<1>3. ASSUME NEW k \in 1 .. Len(traps'), NEW m \in 1 .. traps'[k].off
      PROVE  m <= StackSize /\ mem'[m] # Junk
  <2>1. CASE k \in 1 .. Len(traps) /\ traps'[k] = traps[k]
    <3>1. m \in 1 .. traps[k].off
      BY <2>1
    <3>2. m <= StackSize /\ mem[m] # Junk /\ m \in Nat /\ m > 0
      BY <2>1, <3>1 DEF Marks
    <3>3. m \in 1 .. StackSize
      BY <3>2, <1>1
    <3>. QED  BY <3>2, <3>3, <1>2
  <2>2. CASE traps'[k].off \in Int /\ traps'[k].off <= sp
    <3>1. m \in 1 .. sp /\ m \in 1 .. StackSize
      BY <2>2, <1>1
    <3>2. mem[m] # Junk
      BY <3>1 DEF Memory
    <3>. QED  BY <3>1, <3>2, <1>1, <1>2
  <2>. QED  BY <2>1, <2>2 DEF Marked
<1>. QED  BY <1>3 DEF Marks

LEMMA OlderMarked ==
  ASSUME Older(traps, traps') PROVE Marked
BY DEF Older, Marked

LEMMA CutOlder ==
  ASSUME NEW ts, IsSeq(ts), NEW n \in 0 .. Len(ts)
  PROVE  Older(ts, SubSeq(ts, 1, n))
<1>1. Len(ts) \in Nat /\ Len(SubSeq(ts, 1, n)) = n /\ \A i \in 1 .. n : SubSeq(ts, 1, n)[i] = ts[i]
  BY SeqFacts
<1>. QED  BY <1>1 DEF Older

LEMMA PushMarked ==
  ASSUME Inv, NEW t, t.off \in Int, t.off <= sp, traps' = Append(traps, t)
  PROVE  Marked
<1>1. /\ Len(traps) \in Nat /\ Len(traps') = Len(traps) + 1 /\ traps'[Len(traps) + 1] = t
      /\ \A i \in 1 .. Len(traps) : traps'[i] = traps[i]
  BY SeqFacts DEF Inv, Talk
<1>2. \A k \in 1 .. Len(traps') : k \in 1 .. Len(traps) \/ k = Len(traps) + 1
  BY <1>1
<1>. QED  BY <1>1, <1>2 DEF Marked

LEMMA InstructionMarked ==
  ASSUME Inv, Instruction
  PROVE  Marked
<1>1. sp \in Nat /\ Popped(1) \in Int /\ Popped(1) <= sp
  BY DEF Inv, Memory, Popped
<1>2. IsSeq(traps) /\ Len(traps) \in Nat
  BY SeqFacts DEF Inv, Talk
<1>3. ASSUME traps' = traps PROVE Marked
  BY <1>3 DEF Marked
<1>4. ASSUME NEW o, NEW c, NEW n, traps' = Append(traps, Trap(o, c, Popped(1), n)) PROVE Marked
  <2>1. PICK t : t = Trap(o, c, Popped(1), n)
    OBVIOUS
  <2>2. t.off = Popped(1)
    BY <2>1 DEF Trap
  <2>. QED  BY <2>1, <2>2, <1>1, <1>4, PushMarked
<1>5. CASE PushI \/ PopI \/ ChewTopI \/ PushFromStackI \/ PopToStackI \/ ResolveI \/ BindVarI
           \/ PushContextI \/ PopContextI \/ ArithI \/ RestoreStackoffI
  BY <1>3, <1>5 DEF PushI, PopI, ChewTopI, PushFromStackI, PopToStackI, ResolveI, BindVarI,
     PushContextI, PopContextI, ArithI, RestoreStackoffI, Straight
<1>6. CASE GoI \/ GoIfI \/ SaveStackoffI
  BY <1>3, <1>6 DEF GoI, GoIfI, SaveStackoffI, Jump
<1>7. CASE CatchI
  BY <1>4, <1>7 DEF CatchI
<1>8. CASE PopCatchI
  <2>1. traps' = PopTrap(traps)
    BY <1>8 DEF PopCatchI
  <2>2. CASE traps = << >>
    BY <2>1, <2>2, <1>3 DEF PopTrap
  <2>3. CASE traps # << >>
    <3>1. Len(traps) > 0
      BY <2>3, <1>2 DEF IsSeq
    <3>2. traps' = SubSeq(traps, 1, Len(traps) - 1) /\ Len(traps) - 1 \in 0 .. Len(traps)
      BY <2>1, <2>3, <3>1, <1>2, FrontFacts DEF PopTrap
    <3>. QED  BY <3>2, <1>2, CutOlder, OlderMarked
  <2>. QED  BY <2>2, <2>3
<1>9. CASE CallCode \/ CallList \/ CallCompare \/ CallBind \/ CallFunction
  BY <1>3, <1>9 DEF CallCode, CallList, CallCompare, CallBind, CallFunction, Straight
<1>10. CASE CallRead \/ CallPrint \/ CallCompileFn \/ CallCompileLambda \/ SignalI
  BY <1>3, <1>10 DEF CallRead, CallPrint, CallCompileFn, CallCompileLambda, CompileIt, SignalI, Signal
<1>11. CASE CallEval
  BY <1>3, <1>4, <1>11 DEF CallEval
<1>12. CASE ExitI
  <2>1. mode = Run /\ Op = "exit"
    BY <1>12 DEF ExitI, Executing
  <2>2. PICK P : Standing(P)
    BY <2>1, Instructions
  <2>. QED  BY <2>1, <2>2, <1>12, ExitKeeps, OlderMarked
<1>. QED  BY <1>5, <1>6, <1>7, <1>8, <1>9, <1>10, <1>11, <1>12 DEF Instruction

LEMMA InstructionWrites ==
  ASSUME Inv, Inv', Instruction
  PROVE  Written
<1>1. ASSUME NEW n, NEW x, Replace(n, x) PROVE Written
  BY <1>1, ReplaceWrites DEF Inv
<1>2. ASSUME mem' = mem PROVE Written
  BY <1>2 DEF Written
<1>3. CASE PushI \/ ChewTopI \/ PushFromStackI \/ ResolveI \/ ArithI \/ CatchI
  BY <1>1, <1>3 DEF PushI, ChewTopI, PushFromStackI, ResolveI, ArithI, CatchI
<1>4. CASE PopI \/ BindVarI \/ PushContextI \/ PopContextI \/ GoI \/ GoIfI \/ SaveStackoffI
           \/ RestoreStackoffI \/ PopCatchI
  BY <1>2, <1>4 DEF PopI, BindVarI, PushContextI, PopContextI, GoI, GoIfI, SaveStackoffI,
     RestoreStackoffI, PopCatchI, Discard, values
<1>5. CASE PopToStackI
  <2>1. CASE mem' = mem
    BY <2>1, <1>2
  <2>2. CASE mem' = [mem EXCEPT ![sp - Operand] = Top]
    <3>1. Top # Junk
      BY TopFacts DEF Inv
    <3>. QED  BY <2>2, <3>1 DEF Written
  <2>. QED  BY <2>1, <2>2, <1>5 DEF PopToStackI, values
<1>6. CASE CallCode \/ CallEval \/ SignalI
  BY <1>2, <1>6 DEF CallCode, CallEval, SignalI, Signal, Discard, values
<1>7. CASE CallList \/ CallCompare \/ CallBind \/ CallFunction \/ CallRead \/ CallPrint
  BY <1>1, <1>7 DEF CallList, CallCompare, CallBind, CallFunction, CallRead, CallPrint
<1>8. CASE CallCompileFn \/ CallCompileLambda
  BY <1>1, <1>2, <1>8 DEF CallCompileFn, CallCompileLambda, CompileIt, Discard, values
<1>9. CASE ExitI
  BY <1>1, <1>2, <1>9 DEF ExitI, values
<1>. QED  BY <1>3, <1>4, <1>5, <1>6, <1>7, <1>8, <1>9 DEF Instruction

LEMMA RaiseMarks ==
  ASSUME Inv, Marks, NEW e, RaiseToCatch(e) \/ RaiseToEval(e) \/ RaiseToMain(e)
  PROVE  Marks'
<1>1. PICK k, t : k = Catcher(e) /\ t = traps[k]
  OBVIOUS
<1>2. Caught(e) /\ Unwind(t)
  BY <1>1 DEF RaiseToCatch, RaiseToEval, RaiseToMain
<1>3. k \in 1 .. Len(traps) /\ IsSeq(traps) /\ Len(traps) \in Nat /\ e # Junk /\ mode[2] = e
  BY <1>1, <1>2, CatcherFacts, RaisingFacts DEF Caught
<1>4. traps' = SubSeq(traps, 1, k - 1) /\ k - 1 \in 0 .. Len(traps)
  BY <1>1, <1>2, <1>3 DEF Unwind
<1>5. Marked
  BY <1>3, <1>4, CutOlder, OlderMarked
<1>6. Written
  <2>1. T # Junk
    BY TopFacts DEF Inv
  <2>2. CASE RaiseToCatch(e)
    <3>1. mem' = [mem EXCEPT ![t.off + 1] = e, ![t.off + 2] = T]
      BY <2>2, <1>1 DEF RaiseToCatch
    <3>. QED  BY <3>1, <2>1, <1>3 DEF Written
  <2>3. CASE RaiseToEval(e) \/ RaiseToMain(e)
    <3>1. mem' = [mem EXCEPT ![t.off + 1] = e]
      BY <2>3, <1>1 DEF RaiseToEval, RaiseToMain
    <3>. QED  BY <3>1, <1>3 DEF Written
  <2>. QED  BY <2>2, <2>3
<1>. QED  BY <1>5, <1>6, MarkFacts DEF Inv

(* The invariant is inductive, where compiled code has a plan.             *)
LEMMA NextKeeps ==
  ASSUME Inv, Marks, Verified, Verified', [Next]_vmvars
  PROVE  Inv' /\ Marks'
<1>1. CASE Instruction
  <2>1. Inv'
    BY <1>1, InstructionKeeps
  <2>2. Written /\ Marked
    BY <1>1, <2>1, InstructionWrites, InstructionMarked
  <2>. QED  BY <2>1, <2>2, MarkFacts DEF Inv
<1>2. CASE Raise
  <2>1. PICK e : RaiseToCatch(e) \/ RaiseToEval(e) \/ RaiseToMain(e)
    BY <1>2 DEF Raise
  <2>2. mode \notin {Run, Prompt, Done}
    BY <2>1, CatcherFacts DEF RaiseToCatch, RaiseToEval, RaiseToMain
  <2>3. PICK P : Stopped(P)
    BY <2>2 DEF Inv, Shape
  <2>4. Inv'
    BY <2>1, <2>3, RaiseToCatchKeeps, RaiseToEvalKeeps, RaiseToMainKeeps
  <2>. QED  BY <2>1, <2>4, RaiseMarks
<1>3. CASE MainLoop
  <2>1. Inv'
    BY <1>3, MainLoopKeeps
  <2>2. Written
    BY <1>3 DEF MainLoop, Discard, Written
  <2>3. Marked
    <3>1. PICK t : t = Trap("main", Nil, sp, 0)
      OBVIOUS
    <3>2. t.off = sp /\ sp \in Int /\ traps' = Append(traps, t)
      BY <3>1, <1>3 DEF Trap, Inv, Memory, MainLoop
    <3>. QED  BY <3>2, PushMarked
  <2>. QED  BY <2>1, <2>2, <2>3, MarkFacts DEF Inv
<1>4. CASE Break
  <2>1. Inv'
    BY <1>4, BreakKeeps
  <2>2. mem' = mem /\ traps' = traps
    BY <1>4 DEF Break, Stop, values
  <2>. QED  BY <2>1, <2>2 DEF Marks
<1>5. CASE Halted \/ UNCHANGED vmvars
  <2>1. UNCHANGED <<mem, sp, cstack, vars, chunks, freed, fns, session, next, frames, traps, mode>>
    BY <1>5 DEF Halted, vmvars, values, context, program, io
  <2>2. Memory' /\ Contexts' /\ Program' /\ Talk'
    BY <2>1 DEF Inv, Memory, Contexts, Program, Talk
  <2>3. Shape'
    <3>1. \A P : (Running(P) => Running(P)') /\ (Stopped(P) => Stopped(P)')
      BY <2>1 DEF Running, Stopped, F, N, Top
    <3>. QED  BY <3>1, <2>1 DEF Inv, Shape, Clean
  <2>. QED  BY <2>1, <2>2, <2>3 DEF Inv, Marks
<1>. QED  BY <1>1, <1>2, <1>3, <1>4, <1>5 DEF Next, Step

-------------------------------------------------------------------------------
(* What the invariant says.                                                *)

LEMMA InvType ==
  ASSUME Inv PROVE TypeOK
<1>1. /\ next \in 1 .. Len(session) + 2 /\ DOMAIN mem = 1 .. StackSize /\ sp \in 0 .. StackSize
      /\ Len(traps) <= TrapSize
  BY DEF Inv, Talk, Memory
<1>2. cstack # << >> /\ ToSet(cstack) \subseteq DOMAIN vars
  <2>1. /\ IsSeq(cstack) /\ Len(cstack) > 0 /\ IsSeq(vars)
        /\ \A i \in 1 .. Len(cstack) : cstack[i] \in 1 .. Len(vars)
    BY DEF Inv, Contexts
  <2>2. DOMAIN cstack = 1 .. Len(cstack) /\ DOMAIN vars = 1 .. Len(vars)
    BY <2>1, SeqFacts
  <2>3. cstack # << >>
    BY <2>1
  <2>. QED  BY <2>1, <2>2, <2>3 DEF ToSet
<1>3. DOMAIN chunks = 1 .. Len(chunks) /\ freed \subseteq DOMAIN chunks
  BY SeqFacts DEF Inv, Program
<1>4. \A f \in FnNames : fns[f] = Unbound \/ fns[f][2] \in DOMAIN chunks
  BY <1>3 DEF Inv, Program, CodeRef
<1>5. ASSUME NEW j \in DOMAIN frames
      PROVE  /\ frames[j].chunk \in DOMAIN chunks \ freed
             /\ frames[j].pc \in DOMAIN chunks[frames[j].chunk].code
  <2>1. frames # << >>
    BY <1>5
  <2>2. PICK P : /\ N > 0 /\ Frames(chunks, freed, frames, P)
                 /\ Runs(chunks, F, P[N], sp, Len(cstack), Top) \/ Rests(chunks, F, P[N])
    BY <2>1 DEF Inv, Shape, Clean, Running, Stopped
  <2>3. PICK c, p, f : c = chunks[frames[j].chunk] /\ p = Plan(c) /\ f = frames[j]
    OBVIOUS
  <2>4. N \in Nat /\ j \in 1 .. N /\ Len(frames) = N /\ F = frames[N] /\ frames \in Seq(FrameRecs)
    BY <2>2 DEF Frames, N, F, Last
  <2>5. Placed(chunks, f, P[j]) /\ f.chunk \notin freed /\ f \in FrameRecs
    BY <2>2, <2>3, <2>4 DEF Frames
  <2>6. IsPlan(c, p) /\ PlanIn(chunks, f) = p /\ f.chunk \in DOMAIN chunks /\ f.pc \in Nat
        /\ chunks[f.chunk] = c
    BY <2>3, <2>5 DEF Placed, Level, PlanIn, FrameRecs
  <2>7. Rests(chunks, f, P[j]) \/ \E v : Planned(chunks, f, Top, v) \/ Branching(chunks, f, Top, v)
    <3>1. CASE j = N
      BY <3>1, <2>2, <2>3, <2>4 DEF Runs
    <3>2. CASE j # N
      <4>1. j \in 1 .. Len(frames) - 1
        BY <3>2, <2>4
      <4>. QED  BY <4>1, <2>2, <2>3 DEF Frames
    <3>. QED  BY <3>1, <3>2
  <2>8. f.pc \in DOMAIN p \/ (f.pc - 1 \in DOMAIN p /\ c.code[f.pc - 1][1] = "catch")
    BY <2>6, <2>7 DEF Rests, Planned, Branching
  <2>9. f.pc \in DOMAIN c.code
    <3>1. CASE f.pc \in DOMAIN p
      BY <3>1, <2>6, ViewFacts
    <3>2. CASE f.pc - 1 \in DOMAIN p /\ c.code[f.pc - 1][1] = "catch"
      <4>1. PICK i : i = f.pc - 1
        OBVIOUS
      <4>2. i + 1 \in DOMAIN c.code
        BY <4>1, <3>2, <2>6, CatchStep
      <4>3. i + 1 = f.pc
        BY <4>1, <2>6
      <4>. QED  BY <4>2, <4>3
    <3>. QED  BY <3>1, <3>2, <2>8
  <2>. QED  BY <2>3, <2>5, <2>6, <2>9
<1>. QED  BY <1>1, <1>2, <1>3, <1>4, <1>5 DEF TypeOK

LEMMA InvSlots ==
  ASSUME Inv PROVE SlotsAligned
<1>. SUFFICES ASSUME mode = Run, Op \in {"push_from_stack", "pop_to_stack"}
              PROVE  sp - F.origin = Code[F.pc][3]
  BY DEF SlotsAligned
<1>1. PICK P : Standing(P)
  BY Instructions
<1>. QED  BY <1>1, SlotFacts

(* The running chunk keeps what its catch form keeps.                      *)
LEMMA RunningKeeps ==
  ASSUME Inv, NEW P, Running(P)
  PROVE  P[N].low <= sp /\ P[N].lows <= Len(cstack)
<1>1. N > 0 /\ Frames(chunks, freed, frames, P) /\ Stacked(P)
  BY DEF Running, Good
<1>2. /\ IsPlan(C, Plan(C)) /\ PlanIn(chunks, F) = Plan(C) /\ chunks[F.chunk] = C
      /\ P[N].base \in Nat /\ P[N].own \in Nat /\ F.pc \in Nat
  BY <1>1, RunFacts DEF C
<1>3. PICK v : /\ Planned(chunks, F, Top, v) \/ Branching(chunks, F, Top, v)
               /\ Seen(chunks, F, v, P[N])
               /\ sp = P[N].base + v.height /\ Len(cstack) = P[N].own + v.scopes
  BY DEF Running, Runs
<1>4. PICK c, p : c = C /\ p = Plan(C)
  OBVIOUS
<1>5. /\ Low(p, v) \in Int /\ v.height \in Int /\ Low(p, v) <= v.height
      /\ LowScopes(p, v) \in Int /\ v.scopes \in Int /\ LowScopes(p, v) <= v.scopes
  <2>1. CASE Planned(chunks, F, Top, v)
    <3>1. F.pc \in DOMAIN p /\ v = p[F.pc]
      BY <2>1, <1>2, <1>4 DEF Planned
    <3>. QED  BY <3>1, <1>2, <1>4, ViewFacts
  <2>2. CASE Branching(chunks, F, Top, v)
    <3>1. PICK i : i = F.pc - 1
      OBVIOUS
    <3>2. i \in DOMAIN p /\ c.code[i][1] = "catch" /\ (v = Entered(p[i], i) \/ v = Thrown(p[i]))
      BY <2>2, <3>1, <1>2, <1>4 DEF Branching
    <3>3. /\ p[i] \in Views(c) /\ p[i].height \in Nat /\ p[i].scopes \in Nat /\ p[i].height > 0
          /\ p[i].catch = 0 /\ i \in Nat /\ i # 0
      BY <3>2, <1>2, <1>4, ViewFacts, CatchStep
    <3>4. CASE v = Entered(p[i], i)
      <4>1. v.catch = i /\ v.height = p[i].height /\ v.scopes = p[i].scopes
        BY <3>3, <3>4 DEF Entered, Views
      <4>2. Low(p, v) = p[i].height - 1 /\ LowScopes(p, v) = p[i].scopes
        BY <4>1, <3>3 DEF Low, LowScopes
      <4>. QED  BY <4>1, <4>2, <3>3
    <3>5. CASE v = Thrown(p[i])
      <4>1. v.catch = 0 /\ v.height = p[i].height + 1 /\ v.scopes = p[i].scopes
        BY <3>3, <3>5 DEF Thrown, Views
      <4>2. Low(p, v) = 0 /\ LowScopes(p, v) = 0
        BY <4>1 DEF Low, LowScopes
      <4>. QED  BY <4>1, <4>2, <3>3
    <3>. QED  BY <3>2, <3>4, <3>5
  <2>. QED  BY <2>1, <2>2, <1>3
<1>6. P[N].low = P[N].base + Low(p, v) /\ P[N].lows = P[N].own + LowScopes(p, v)
  BY <1>2, <1>3, <1>4 DEF Seen
<1>7. P[N].low <= sp
  BY <1>2, <1>3, <1>5, <1>6
<1>8. P[N].lows <= Len(cstack)
  BY <1>2, <1>3, <1>5, <1>6
<1>. QED  BY <1>7, <1>8

LEMMA InvTraps ==
  ASSUME Inv PROVE TrapsNested
<1>1. IsSeq(traps) /\ Len(traps) \in Nat /\ DOMAIN traps = 1 .. Len(traps)
  BY SeqFacts DEF Inv, Talk
<1>2. sp \in Nat /\ Len(cstack) \in Nat
  BY SeqFacts DEF Inv, Memory, Contexts
(* Traps that fit the frames.                                              *)
<1>3. ASSUME NEW P, NEW ts, N > 0, Good(P, ts), Len(P) = N, P[N].low <= sp, P[N].lows <= Len(cstack)
      PROVE  /\ \A i \in 1 .. Len(ts) : /\ ts[i].live = TRUE /\ ts[i].frame \in 0 .. N
                                        /\ ts[i].lvl \in Nat /\ ts[i].lvl <= P[N].lows
                                        /\ ts[i].lvl <= Len(cstack)
                                        /\ ts[i].owner = "catch" => ts[i].off <= sp
             /\ \A i, j \in 1 .. Len(ts) :
                  i < j => ts[i].frame <= ts[j].frame /\ ts[i].lvl <= ts[j].lvl
  <2>1. Len(P) > 0 /\ N \in 1 .. Len(P)
    BY <1>3, FrameFacts DEF Good
  <2>2. P[N].low \in Int /\ P[N].lows \in Nat
    BY <1>3, <2>1, FrameFacts DEF Good
  <2>3. /\ \A i \in 1 .. Len(ts) :
             /\ ts[i].live = TRUE /\ ts[i].frame \in 0 .. Len(P) /\ ts[i].off \in Int
             /\ ts[i].lvl \in Nat /\ ts[i].lvl > 0 /\ ts[i].lvl <= P[Len(P)].lows
             /\ ts[i].owner = "catch" => ts[i].off <= P[Len(P)].low
        /\ \A i, j \in 1 .. Len(ts) :
             i < j => ts[i].frame <= ts[j].frame /\ ts[i].lvl <= ts[j].lvl
    BY <1>3, <2>1, TrapOrder
  <2>4. ASSUME NEW i \in 1 .. Len(ts)
        PROVE  ts[i].lvl <= Len(cstack) /\ (ts[i].owner = "catch" => ts[i].off <= sp)
    <3>1. PICK t : t = ts[i]
      OBVIOUS
    <3>2. /\ t.off \in Int /\ t.lvl \in Nat /\ t.lvl <= P[N].lows
          /\ t.owner = "catch" => t.off <= P[N].low
      BY <3>1, <2>3, <1>3
    <3>3. t.lvl <= Len(cstack) /\ (t.owner = "catch" => t.off <= sp)
      BY <3>2, <2>2, <1>2, <1>3
    <3>. QED  BY <3>1, <3>3
  <2>. QED  BY <2>3, <2>4, <1>3
<1>4. CASE \E P : N > 0 /\ Good(P, traps) /\ Len(P) = N /\ P[N].low <= sp /\ P[N].lows <= Len(cstack)
  <2>1. /\ \A i \in 1 .. Len(traps) : /\ traps[i].live = TRUE /\ traps[i].frame \in 0 .. N
                                      /\ traps[i].lvl <= Len(cstack)
                                      /\ traps[i].owner = "catch" => traps[i].off <= sp
        /\ \A i, j \in 1 .. Len(traps) :
             i < j => traps[i].frame <= traps[j].frame /\ traps[i].lvl <= traps[j].lvl
    BY <1>3, <1>4
  <2>2. N \in Nat
    BY <1>4, FrameFacts DEF Good
  <2>3. ASSUME NEW i \in 1 .. Len(traps)
        PROVE  traps[i].frame <= Len(frames) + IF Entering(traps[i]) THEN 1 ELSE 0
    BY <2>1, <2>2 DEF N
  <2>4. \A i \in 1 .. Len(traps) - 1 : i \in 1 .. Len(traps) /\ i + 1 \in 1 .. Len(traps) /\ i < i + 1
    BY <1>1
  <2>. QED  BY <2>1, <2>3, <2>4, <1>1 DEF TrapsNested
<1>5. CASE mode = Run
  <2>1. PICK P : Running(P)
    BY <1>5 DEF Inv, Shape
  <2>2. Len(P) = N
    BY <2>1 DEF Running, Frames, N
  <2>. QED  BY <2>1, <2>2, <1>4, RunningKeeps DEF Running
<1>6. CASE mode \in {Prompt, Done}
  <2>1. Len(traps) = 0
    BY <1>6 DEF Inv, Shape, Clean
  <2>. QED  BY <2>1, <1>1 DEF TrapsNested
<1>7. CASE mode \notin {Run, Prompt, Done}
  <2>1. PICK P : Stopped(P)
    BY <1>7 DEF Inv, Shape
  <2>2. Len(P) = N /\ N > 0 /\ P[N].low <= sp /\ P[N].lows <= Len(cstack)
    BY <2>1 DEF Stopped, Frames, N
  <2>3. CASE Good(P, traps)
    BY <2>2, <2>3, <1>4
  <2>4. CASE Pending(P, traps, Len(cstack))
    <3>1. PICK ts, t, k : k = Len(traps) - 1 /\ ts = SubSeq(traps, 1, k) /\ t = traps[k + 1]
      OBVIOUS
    <3>2. /\ k \in Nat /\ Len(traps) = k + 1 /\ Good(P, ts)
          /\ t.owner = "eval" /\ t.live = TRUE /\ t.frame = N + 1
          /\ t.lvl \in Nat /\ P[N].lows <= t.lvl /\ t.lvl <= Len(cstack)
      BY <2>2, <2>4, <3>1, <1>1 DEF Pending
    <3>3. Len(ts) = k /\ \A i \in 1 .. k : ts[i] = traps[i]
      BY <3>1, <3>2, <1>1, SeqFacts
    <3>4. /\ \A i \in 1 .. k : /\ traps[i].live = TRUE /\ traps[i].frame \in 0 .. N
                               /\ traps[i].lvl \in Nat /\ traps[i].lvl <= P[N].lows
                               /\ traps[i].lvl <= Len(cstack)
                               /\ traps[i].owner = "catch" => traps[i].off <= sp
          /\ \A i, j \in 1 .. k :
               i < j => traps[i].frame <= traps[j].frame /\ traps[i].lvl <= traps[j].lvl
      <4>1. N > 0 /\ Good(P, ts) /\ Len(P) = N /\ P[N].low <= sp /\ P[N].lows <= Len(cstack)
        BY <3>2, <2>2
      <4>2. ASSUME NEW i \in 1 .. Len(ts)
            PROVE  /\ ts[i].live = TRUE /\ ts[i].frame \in 0 .. N
                   /\ ts[i].lvl \in Nat /\ ts[i].lvl <= P[N].lows
                   /\ ts[i].lvl <= Len(cstack)
                   /\ ts[i].owner = "catch" => ts[i].off <= sp
        BY <4>1, <1>3
      <4>6. ASSUME NEW i \in 1 .. Len(ts), NEW j \in 1 .. Len(ts), i < j
            PROVE  ts[i].frame <= ts[j].frame /\ ts[i].lvl <= ts[j].lvl
        BY <4>1, <1>3, <4>6
      <4>3. \A i \in 1 .. k : i \in 1 .. Len(ts) /\ ts[i] = traps[i]
        BY <3>3
      <4>4. ASSUME NEW i \in 1 .. k
            PROVE  /\ traps[i].live = TRUE /\ traps[i].frame \in 0 .. N
                   /\ traps[i].lvl \in Nat /\ traps[i].lvl <= P[N].lows
                   /\ traps[i].lvl <= Len(cstack)
                   /\ traps[i].owner = "catch" => traps[i].off <= sp
        <5>1. i \in 1 .. Len(ts) /\ ts[i] = traps[i]
          BY <4>3
        <5>2. /\ ts[i].live = TRUE /\ ts[i].frame \in 0 .. N
              /\ ts[i].lvl \in Nat /\ ts[i].lvl <= P[N].lows
              /\ ts[i].lvl <= Len(cstack)
              /\ ts[i].owner = "catch" => ts[i].off <= sp
          BY <5>1, <4>2
        <5>. QED  BY <5>1, <5>2
      <4>5. ASSUME NEW i \in 1 .. k, NEW j \in 1 .. k, i < j
            PROVE  traps[i].frame <= traps[j].frame /\ traps[i].lvl <= traps[j].lvl
        BY <4>6, <4>3, <4>5
      <4>. QED  BY <4>4, <4>5
    <3>5. N \in Nat /\ P[N].lows \in Nat
      <4>1. N \in 1 .. Len(P) /\ N \in Nat
        BY <2>2, <3>2, FrameFacts DEF Good
      <4>. QED  BY <4>1, <3>2, FrameFacts DEF Good
    <3>6. ASSUME NEW i \in 1 .. Len(traps)
          PROVE  /\ traps[i].live = TRUE
                 /\ traps[i].frame <= Len(frames) + IF Entering(traps[i]) THEN 1 ELSE 0
                 /\ traps[i].lvl <= Len(cstack)
                 /\ traps[i].owner = "catch" => traps[i].off <= sp
      <4>1. CASE i = k + 1
        <5>1. Entering(t) /\ t.owner # "catch"
          BY <3>2, <1>7 DEF Entering
        <5>. QED  BY <4>1, <5>1, <3>1, <3>2, <3>5 DEF N
      <4>2. CASE i # k + 1
        <5>1. i \in 1 .. k
          BY <4>2, <3>2
        <5>2. traps[i].frame <= Len(frames) + IF Entering(traps[i]) THEN 1 ELSE 0
          BY <5>1, <3>4, <3>5 DEF N
        <5>. QED  BY <5>1, <5>2, <3>4
      <4>. QED  BY <4>1, <4>2
    <3>7. ASSUME NEW i \in 1 .. Len(traps) - 1
          PROVE  traps[i].frame <= traps[i + 1].frame /\ traps[i].lvl <= traps[i + 1].lvl
      <4>1. i \in 1 .. k
        BY <3>2
      <4>2. CASE i = k
        <5>1. traps[i].frame \in 0 .. N /\ traps[i].lvl \in Nat /\ traps[i].lvl <= P[N].lows
          BY <4>1, <3>4
        <5>2. traps[i + 1] = t
          BY <4>2, <3>1
        <5>3. traps[i].frame <= t.frame
          BY <5>1, <3>2, <3>5
        <5>4. traps[i].lvl <= t.lvl
          BY <5>1, <3>2, <3>5
        <5>. QED  BY <5>2, <5>3, <5>4
      <4>3. CASE i # k
        <5>1. i + 1 \in 1 .. k /\ i < i + 1
          BY <4>1, <4>3, <3>2
        <5>. QED  BY <5>1, <4>1, <3>4
      <4>. QED  BY <4>2, <4>3
    <3>. QED  BY <3>6, <3>7, <1>1 DEF TrapsNested
  <2>. QED  BY <2>1, <2>3, <2>4 DEF Stopped
<1>. QED  BY <1>5, <1>6, <1>7

(* Nothing breaks where a plan holds: the exits from C are a division by   *)
(* zero and a full trap stack.                                             *)
LEMMA NothingBreaks ==
  ASSUME Inv, Spared, Break
  PROVE  FALSE
<1>1. CASE mode = Run
  <2>1. mode[1] # "raise" /\ ~(Computes /\ ByZero) /\ ~(PushesTrap /\ ~RoomForTrap)
    BY <1>1, RaisingFacts DEF Spared
  <2>2. Op # "go_if_not_nil"
    BY <2>1 DEF Break, Breaks, Fails, Executing
  <2>3. PICK P : Standing(P)
    BY <2>2, <1>1, Instructions
  <2>4. /\ N \in Nat /\ N > 0 /\ N \in 1 .. N /\ N = Len(P) /\ Op = C.code[F.pc][1] /\ Operand = C.code[F.pc][2]
        /\ Fits(C, Plan(C), F.pc) /\ Low(Plan(C), V) \in Nat /\ V.height \in Nat /\ V.scopes \in Nat
        /\ Stacked(P) /\ P[N].base \in Nat /\ P[N].own \in Nat /\ P[N].own > 0 /\ sp \in Nat
        /\ Placed(chunks, F, P[N]) /\ frames \in Seq(FrameRecs) /\ F = frames[N] /\ V \in Views(C)
    BY <2>3, StandFacts
  <2>5. /\ Frames(chunks, freed, frames, P) /\ Seen(chunks, F, V, P[N])
        /\ sp = P[N].base + V.height /\ Len(cstack) = P[N].own + V.scopes
    BY <2>3 DEF Standing
  <2>6. ~(Op = "chew_top" /\ Popped(1) < Operand)
    <3>. SUFFICES ASSUME Op = "chew_top" PROVE ~(Popped(1) < Operand)
      OBVIOUS
    <3>1. Operand \in Nat /\ V.height - (1 + Operand) >= Low(Plan(C), V)
      BY <2>4 DEF Fits, V
    <3>2. Operand < sp
      <4>1. PICK x, h, b, l : x = Operand /\ h = V.height /\ b = P[N].base /\ l = Low(Plan(C), V)
        OBVIOUS
      <4>2. x \in Nat /\ h - (1 + x) >= l /\ l \in Nat /\ h \in Nat /\ b \in Nat /\ sp = b + h
        BY <4>1, <3>1, <2>4, <2>5
      <4>3. x < b + h
        BY <4>2
      <4>. QED  BY <4>1, <4>2, <4>3
    <3>. QED  BY <3>1, <3>2, <2>4 DEF Popped
  <2>7. Op \in {"push_from_stack", "pop_to_stack"} => InArray(Operand) /\ Slot(Operand) # Junk
    BY <2>3, SlotFacts
  <2>8. ~(Op = "pop_lex_context" /\ Len(cstack) = 1)
    <3>1. Op = "pop_lex_context" => V.scopes > 0
      BY <2>4 DEF Fits, V
    <3>. QED  BY <3>1, <2>4, <2>5
  <2>9. ~(Op = "exit" /\ F.kind = "call" /\ Len(cstack) = 1)
    <3>. SUFFICES ASSUME F.kind = "call" PROVE Len(cstack) # 1
      OBVIOUS
    <3>1. P[N].kind = "call"
      BY <2>4 DEF Placed
    <3>2. N > 1
      BY <3>1, <2>4 DEF Stacked
    <3>3. PICK n : n = N - 1
      OBVIOUS
    <3>4. n \in 1 .. Len(frames) - 1 /\ n \in 1 .. Len(P) /\ n + 1 = N /\ n \in 1 .. Len(frames)
      BY <3>2, <3>3, <2>4, <2>5 DEF N
    <3>5. PICK v : v = PlanIn(chunks, frames[n])[frames[n].pc]
      OBVIOUS
    <3>6. /\ Rests(chunks, frames[n], P[n]) /\ Waits(chunks, frames[n], P[n], P[N])
          /\ Placed(chunks, frames[n], P[n])
      BY <3>4, <2>5 DEF Frames
    <3>7. P[N].own = P[n].own + v.scopes + 1
      BY <3>1, <3>5, <3>6 DEF Waits
    <3>8. v.scopes \in Nat
      BY <3>5, <3>6, ViewFacts DEF Rests, Placed, Level, PlanIn
    <3>9. P[n].own \in Nat /\ P[n].own > 0
      BY <3>4, <2>4, FrameFacts
    <3>. QED  BY <3>7, <3>8, <3>9, <2>4, <2>5
  <2>10. ~(Op = "restore_stackoff" /\ F.saved_off = NoSave)
    <3>. SUFFICES ASSUME Op = "restore_stackoff" PROVE F.saved_off # NoSave
      OBVIOUS
    <3>1. V.saved # NoSave
      BY <2>4 DEF Fits, V
    <3>2. V.saved \in Nat /\ F.saved_off = P[N].base + V.saved
      BY <3>1, <2>4, <2>5 DEF Views, Seen
    <3>. QED  BY <3>2, <2>4 DEF NoSave
  <2>. QED  BY <2>1, <2>6, <2>7, <2>8, <2>9, <2>10 DEF Break, Breaks, Fails, Executing
<1>2. CASE mode[1] = "raise"
  <2>1. mode # Run /\ mode \notin {Run, Prompt, Done}
    BY <1>2, RaisingFacts
  <2>2. PICK e : mode = Raising(e) /\ mode[2] = e
    BY <1>2, RaisingFacts DEF Inv, Talk
  <2>3. PICK P : Stopped(P)
    BY <2>1 DEF Inv, Shape
  <2>4. IsSeq(traps) /\ Len(traps) \in Nat /\ DOMAIN traps = 1 .. Len(traps)
    BY SeqFacts DEF Inv, Talk
  <2>5. \E i \in 1 .. Len(traps) : traps[i].catcher = Nil
    <3>1. CASE Good(P, traps)
      <4>1. 1 \in 1 .. Len(traps) /\ TrapFits(traps[1], P) /\ traps[1].owner = "main"
        BY <3>1, <2>4 DEF Good, TrapsFit
      <4>. QED  BY <4>1 DEF TrapFits
    <3>2. CASE Pending(P, traps, Len(cstack))
      BY <3>2, <2>4 DEF Pending
    <3>. QED  BY <3>1, <3>2, <2>3 DEF Stopped
  <2>6. Caught(e)
    BY <2>2, <2>4, <2>5 DEF Caught, Wants
  <2>7. Catcher(e) \in DOMAIN traps
    BY <2>4, <2>6, CatcherFacts
  <2>8. traps[Catcher(e)].live /\ traps[Catcher(e)].lvl <= Len(cstack)
    BY <2>7, InvTraps DEF TrapsNested
  <2>9. traps[Catcher(e)].lvl \in Int /\ Len(cstack) \in Int
    <3>1. Len(cstack) \in Nat
      BY SeqFacts DEF Inv, Contexts
    <3>2. traps[Catcher(e)].lvl \in Int
      <4>1. CASE Good(P, traps)
        <5>1. Len(P) > 0
          BY <2>3 DEF Stopped, Frames, N
        <5>2. \A i \in 1 .. Len(traps) : traps[i].lvl \in Nat
          BY <4>1, <5>1, TrapOrder
        <5>. QED  BY <5>2, <2>4, <2>7
      <4>2. CASE Pending(P, traps, Len(cstack))
        <5>1. Catcher(e) = Len(traps)
          BY <4>2, <2>6, PendingCatches
        <5>. QED  BY <4>2, <5>1 DEF Pending
      <4>. QED  BY <4>1, <4>2, <2>3 DEF Stopped
    <3>. QED  BY <3>1, <3>2
  <2>10. mode # Run /\ ~PushesTrap /\ ~Computes
    BY <2>1 DEF PushesTrap, Calling, Executing, Computes
  <2>11. ~(traps[Catcher(e)].lvl > Len(cstack))
    BY <2>8, <2>9
  <2>. QED  BY <2>2, <2>6, <2>8, <2>10, <2>11 DEF Break, Breaks, Fails, Executing
<1>3. mode = Run \/ mode[1] = "raise"
  BY DEF Break, Breaks, Fails, PushesTrap, Executing, Computes, Calling
<1>. QED  BY <1>1, <1>2, <1>3

-------------------------------------------------------------------------------
(* The theorems.  Their hypothesis is Verified, what Levels asks of the    *)
(* code that is entered and of what is called.                             *)

(* The inductive invariant holds in every run of verified code.            *)
THEOREM MachineInvariant == Spec /\ []Verified => [](Inv /\ Marks)
<1>1. Init => Inv /\ Marks
  BY InitInv
<1>2. (Inv /\ Marks) /\ Verified /\ Verified' /\ [Next]_vmvars => (Inv /\ Marks)'
  BY NextKeeps
<1>. QED  BY <1>1, <1>2, PTL DEF Spec

(* Type correctness: no frame runs a chunk that vm_eval has freed or an    *)
(* address outside its code, the value stack stays in the array and the    *)
(* trap stack within its size.                                             *)
THEOREM MachineTypeOK == Spec /\ []Verified => []TypeOK
<1>1. Inv /\ Marks => TypeOK
  BY InvType
<1>. QED  BY <1>1, MachineInvariant, PTL

(* Where code reads or writes a local variable, the value stack is as high *)
(* as the compiler took it to be (stacklevel in bs_resolve and bs_set).    *)
THEOREM MachineSlotsAligned == Spec /\ []Verified => []SlotsAligned
<1>1. Inv /\ Marks => SlotsAligned
  BY InvSlots
<1>. QED  BY <1>1, MachineInvariant, PTL

(* The traps nest with the frames, the contexts and the value stack, so    *)
(* that a longjmp always goes to a frame that is active.                   *)
THEOREM MachineTrapsNested == Spec /\ []Verified => []TrapsNested
<1>1. Inv /\ Marks => TrapsNested
  BY InvTraps
<1>. QED  BY <1>1, MachineInvariant, PTL

(* At the prompt nothing is left of an evaluation, whatever it did and     *)
(* wherever an error ended it.                                             *)
THEOREM MachineCleanPrompt == Spec /\ []Verified => []CleanPrompt
<1>1. Inv /\ Marks => CleanPrompt
  BY DEF Inv, Shape, Clean, CleanPrompt
<1>. QED  BY <1>1, MachineInvariant, PTL

(* Code that takes the stacks out of step has been entered without a plan, *)
(* or has called what takes other arguments than were pushed: checking the *)
(* plans is enough.                                                        *)
COROLLARY MachineNoticed == Spec => Noticed
<1>. QED  BY MachineSlotsAligned, MachineTrapsNested, MachineCleanPrompt, PTL DEF Noticed, InStep

(* Verified code makes the machine do nothing undefined and never abort,   *)
(* but for a division by zero and a trap stack that is full.               *)
THEOREM MachineNeverBreaks == Spec /\ []Verified /\ []Spared => []NeverBreaks
<1>1. Init => NeverBreaks
  BY RaisingFacts DEF Init, NeverBreaks
<1>2. ASSUME Inv, Spared, NeverBreaks, [Next]_vmvars PROVE NeverBreaks'
  <2>1. ~Break
    BY <1>2, NothingBreaks
  <2>2. CASE Instruction
    <3>1. mode' = mode \/ mode' = Prompt \/ \E e : mode' = Raising(e)
      BY <2>2 DEF Instruction, PushI, PopI, ChewTopI, PushFromStackI, PopToStackI, ResolveI, BindVarI,
         PushContextI, PopContextI, GoI, GoIfI, ArithI, SaveStackoffI, RestoreStackoffI, CatchI, PopCatchI,
         CallCode, CallList, CallCompare, CallBind, CallFunction, CallRead, CallPrint, CallEval,
         CallCompileFn, CallCompileLambda, CompileIt, SignalI, Signal, ExitI, Straight, Jump, Start
    <3>. QED  BY <3>1, <1>2, RaisingFacts DEF NeverBreaks
  <2>3. CASE Raise \/ MainLoop
    <3>1. mode' = mode \/ mode' \in {Run, Prompt, Done}
      BY <2>3 DEF Raise, RaiseToCatch, RaiseToEval, RaiseToMain, MainLoop
    <3>. QED  BY <3>1, <1>2, RaisingFacts DEF NeverBreaks
  <2>4. CASE Halted \/ UNCHANGED vmvars
    BY <2>4, <1>2 DEF Halted, vmvars, NeverBreaks
  <2>. QED  BY <2>1, <2>2, <2>3, <2>4, <1>2 DEF Next, Step
<1>. QED  BY <1>1, <1>2, MachineInvariant, PTL DEF Spec

===============================================================================
