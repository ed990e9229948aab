------------------------------- MODULE ContextProofs ------------------------------
(***************************************************************************)
(* Map and Context for all sets of keys, names, values and contexts.       *)
(*                                                                         *)
(* Map: what its operations do, slot by slot.  A map is good if it is      *)
(* within bounds and has no key twice; put and delete keep it good, and    *)
(* then get finds what was put last.                                       *)
(* Context: maps stay good and the chain of contexts valid, a finished     *)
(* scan is complete, and names mean what Scopes says they do.              *)
(***************************************************************************)
EXTENDS Context, TLAPS, WellFoundedInduction

-------------------------------------------------------------------------------
(* Maps.                                                                   *)

Good(m, V) == IsMap(m, V) /\ OnlyOnce(m)

(* A new map is good and empty.                                            *)
LEMMA CreateGood ==
  ASSUME NEW V, NEW equal \in {"ptr", "str"}
  PROVE  /\ Good(MapCreate(equal), V) /\ MapCreate(equal).equal = equal
         /\ Slots(MapCreate(equal)) = {} /\ MapCreate(equal).count = 0
BY MapAssumption DEF Good, IsMap, OnlyOnce, MapCreate, Slots

(* A key is in one slot at most, and SlotOf finds it.                      *)
LEMMA TheSlot ==
  ASSUME NEW V, NEW m, Good(m, V), NEW k, NEW i \in Slots(m), Same(m, m.keys[i], k)
  PROVE  Holding(m, k) = {i} /\ SlotOf(m, k) = i
<1>1. ASSUME NEW j \in Holding(m, k)
      PROVE  j = i
  <2>1. j \in Slots(m) /\ Same(m, m.keys[j], k)
    BY <1>1 DEF Holding
  <2>2. Same(m, m.keys[j], m.keys[i])
    BY <2>1 DEF Same
  <2>. QED  BY <2>1, <2>2 DEF Good, OnlyOnce
<1>2. Holding(m, k) = {i}
  BY <1>1 DEF Holding
<1>3. i <= i
  BY DEF Good, IsMap, Slots
<1>. QED  BY <1>2, <1>3 DEF SlotOf

(* map_get returns what the slot holds, and NULL if there is none.         *)
LEMMA GetSlot ==
  ASSUME NEW V, NEW m, Good(m, V), NEW k \in Keys
  PROVE  /\ \A i \in Slots(m) : Same(m, m.keys[i], k) => MapGet(m, k) = m.vals[i]
         /\ Holding(m, k) = {} => MapGet(m, k) = Null
<1>1. k # Null
  BY MapAssumption
<1>2. ASSUME NEW i \in Slots(m), Same(m, m.keys[i], k)
      PROVE  MapGet(m, k) = m.vals[i]
  BY <1>1, <1>2, TheSlot DEF MapGet
<1>. QED  BY <1>1, <1>2 DEF MapGet

(* increase_map_space changes no slot in use.                              *)
LEMMA IncreaseGood ==
  ASSUME NEW V, NEW m, Good(m, V)
  PROVE  LET g == IncreaseMapSpace(m) IN
         /\ Good(g, V) /\ g.equal = m.equal /\ g.count = m.count /\ g.count < g.space
         /\ \A i \in Slots(m) : g.keys[i] = m.keys[i] /\ g.vals[i] = m.vals[i]
<1>. DEFINE g == IncreaseMapSpace(m)
<1>1. /\ g = [equal |-> m.equal, count |-> m.count, space |-> 2 * m.space,
              keys |-> Longer(m.keys, m.space), vals |-> Longer(m.vals, m.space)]
  BY DEF IncreaseMapSpace
<1>2. m.count \in Nat /\ m.space \in Nat \ {0} /\ m.count <= m.space
  BY DEF Good, IsMap
<1>3. /\ g.keys \in [0 .. g.space - 1 -> Keys \cup {Null}]
      /\ g.vals \in [0 .. g.space - 1 -> V \cup {Null}]
  BY <1>1, <1>2 DEF Longer, Good, IsMap
<1>4. \A i \in Slots(m) : g.keys[i] = m.keys[i] /\ g.vals[i] = m.vals[i]
  BY <1>1, <1>2 DEF Longer, Slots
<1>5. Slots(g) = Slots(m) /\ g.equal = m.equal /\ g.count = m.count
  BY <1>1 DEF Slots
<1>6. IsMap(g, V)
  BY <1>1, <1>2, <1>3, <1>4, <1>5 DEF IsMap, Good
<1>7. OnlyOnce(g)
  BY <1>4, <1>5 DEF OnlyOnce, Same, Good
<1>8. g.count < g.space
  BY <1>1, <1>2
<1>. QED  BY <1>4, <1>5, <1>6, <1>7, <1>8 DEF Good

(* map_put on a key that is there changes the value in its slot.           *)
LEMMA OverwriteGood ==
  ASSUME NEW V, NEW m, Good(m, V), NEW k \in Keys, NEW v \in V,
         NEW i \in Slots(m), Same(m, m.keys[i], k)
  PROVE  LET p == MapPut(m, k, v) IN
         /\ Good(p, V) /\ p.equal = m.equal /\ p.count = m.count
         /\ \A j \in Slots(m) : p.keys[j] = m.keys[j] /\ p.vals[j] = IF j = i THEN v ELSE m.vals[j]
<1>1. PICK g : /\ g = IF m.count = m.space THEN IncreaseMapSpace(m) ELSE m
               /\ Good(g, V) /\ g.equal = m.equal /\ g.count = m.count
               /\ \A j \in Slots(m) : g.keys[j] = m.keys[j] /\ g.vals[j] = m.vals[j]
  <2>1. CASE m.count = m.space
    <3>. DEFINE h == IncreaseMapSpace(m)
    <3>1. /\ Good(h, V) /\ h.equal = m.equal /\ h.count = m.count
          /\ \A j \in Slots(m) : h.keys[j] = m.keys[j] /\ h.vals[j] = m.vals[j]
      <4>1. Good(h, V)
        BY IncreaseGood
      <4>2. h.equal = m.equal /\ h.count = m.count
        BY IncreaseGood
      <4>3. \A j \in Slots(m) : h.keys[j] = m.keys[j] /\ h.vals[j] = m.vals[j]
        BY IncreaseGood
      <4>. QED  BY <4>1, <4>2, <4>3
    <3>. HIDE DEF h
    <3>. QED  BY <2>1, <3>1 DEF h
  <2>2. CASE m.count # m.space
    BY <2>2
  <2>. QED  BY <2>1, <2>2
<1>2. Slots(g) = Slots(m) /\ \A j \in Slots(g) : j \in 0 .. g.space - 1
  BY <1>1 DEF Slots, Good, IsMap
<1>3. SlotOf(g, k) = i /\ Holding(m, k) # {}
  BY <1>1, <1>2, TheSlot DEF Same, Holding
<1>4. PICK p : p = [equal |-> g.equal, count |-> g.count, space |-> g.space, keys |-> g.keys,
                    vals |-> [g.vals EXCEPT ![i] = v]]
  OBVIOUS
<1>5. g = [equal |-> g.equal, count |-> g.count, space |-> g.space, keys |-> g.keys, vals |-> g.vals]
  BY <1>1 DEF Good, IsMap
<1>6. MapPut(m, k, v) = p
  <2>1. MapPut(m, k, v) = [g EXCEPT !.vals = [@ EXCEPT ![i] = v]]
    BY <1>1, <1>3 DEF MapPut, Overwrite
  <2>. QED  BY <2>1, <1>4, <1>5
<1>7. /\ p.equal = g.equal /\ p.count = g.count /\ p.space = g.space /\ p.keys = g.keys
      /\ p = [equal |-> p.equal, count |-> p.count, space |-> p.space, keys |-> p.keys, vals |-> p.vals]
      /\ Slots(p) = Slots(g)
  BY <1>4 DEF Slots
<1>8. /\ p.vals \in [0 .. g.space - 1 -> V \cup {Null}]
      /\ \A j \in Slots(g) : p.vals[j] = IF j = i THEN v ELSE g.vals[j]
  BY <1>1, <1>2, <1>4 DEF Good, IsMap
<1>9. IsMap(p, V)
  BY <1>1, <1>7, <1>8 DEF IsMap, Good
<1>10. OnlyOnce(p)
  BY <1>1, <1>7 DEF OnlyOnce, Same, Good
<1>. QED  BY <1>1, <1>2, <1>6, <1>7, <1>8, <1>9, <1>10 DEF Good

(* map_put on a new key uses the slot after the last.                      *)
LEMMA AddGood ==
  ASSUME NEW V, NEW m, Good(m, V), NEW k \in Keys, NEW v \in V,
         \A i \in Slots(m) : ~Same(m, m.keys[i], k)
  PROVE  LET p == MapPut(m, k, v) IN
         /\ Good(p, V) /\ p.equal = m.equal /\ p.count = m.count + 1
         /\ \A j \in Slots(m) : p.keys[j] = m.keys[j] /\ p.vals[j] = m.vals[j]
         /\ p.keys[m.count] = k /\ p.vals[m.count] = v
<1>0. m.count \in Nat /\ m.space \in Nat \ {0} /\ m.count <= m.space
  BY DEF Good, IsMap
<1>1. PICK g : /\ g = IF m.count = m.space THEN IncreaseMapSpace(m) ELSE m
               /\ Good(g, V) /\ g.equal = m.equal /\ g.count = m.count /\ g.count < g.space
               /\ \A j \in Slots(m) : g.keys[j] = m.keys[j] /\ g.vals[j] = m.vals[j]
  <2>1. CASE m.count = m.space
    BY <2>1, IncreaseGood
  <2>2. CASE m.count # m.space
    BY <2>2, <1>0
  <2>. QED  BY <2>1, <2>2
<1>2. Slots(g) = Slots(m)
  BY <1>1 DEF Slots
<1>3. PICK p : p = [equal |-> g.equal, count |-> g.count + 1, space |-> g.space,
                    keys |-> [g.keys EXCEPT ![g.count] = k], vals |-> [g.vals EXCEPT ![g.count] = v]]
  OBVIOUS
<1>4. MapPut(m, k, v) = p
  <2>1. g = [equal |-> g.equal, count |-> g.count, space |-> g.space, keys |-> g.keys, vals |-> g.vals]
    BY <1>1 DEF Good, IsMap
  <2>2. MapPut(m, k, v) = Add(g, k, v)
    BY <1>1 DEF MapPut, Holding
  <2>. QED  BY <2>1, <2>2, <1>3 DEF Add
<1>5. /\ p.equal = g.equal /\ p.count = g.count + 1 /\ p.space = g.space
      /\ p = [equal |-> p.equal, count |-> p.count, space |-> p.space, keys |-> p.keys, vals |-> p.vals]
  BY <1>3
<1>6. /\ g.count \in 0 .. g.space - 1 /\ g.count \notin Slots(g)
      /\ Slots(p) = Slots(g) \cup {g.count}
      /\ \A j \in Slots(g) : j \in 0 .. g.space - 1 /\ j # g.count
  <2>1. g.count \in Nat /\ g.space \in Nat \ {0} /\ g.count < g.space
    BY <1>0, <1>1 DEF Good, IsMap
  <2>. QED  BY <2>1, <1>5 DEF Slots
<1>7. /\ p.keys \in [0 .. g.space - 1 -> Keys \cup {Null}]
      /\ \A j \in Slots(g) : p.keys[j] = g.keys[j]
      /\ p.keys[g.count] = k
  BY <1>1, <1>3, <1>6 DEF Good, IsMap
<1>8. /\ p.vals \in [0 .. g.space - 1 -> V \cup {Null}]
      /\ \A j \in Slots(g) : p.vals[j] = g.vals[j]
      /\ p.vals[g.count] = v
  BY <1>1, <1>3, <1>6 DEF Good, IsMap
<1>9. IsMap(p, V)
  <2>1. p.count \in Nat /\ p.space \in Nat \ {0} /\ p.count <= p.space
    BY <1>0, <1>1, <1>5 DEF Good, IsMap
  <2>2. \A j \in Slots(p) : p.keys[j] \in Keys /\ p.vals[j] \in V
    BY <1>1, <1>6, <1>7, <1>8 DEF Good, IsMap
  <2>. QED  BY <1>1, <1>5, <1>7, <1>8, <2>1, <2>2 DEF IsMap, Good
<1>10. OnlyOnce(p)
  <2>1. \A i \in Slots(g) : ~Same(p, p.keys[i], k) /\ ~Same(p, k, p.keys[i])
    BY <1>1, <1>2, <1>5, <1>7 DEF Same
  <2>2. \A i, j \in Slots(g) : Same(p, p.keys[i], p.keys[j]) => i = j
    BY <1>1, <1>5, <1>7 DEF OnlyOnce, Same, Good
  <2>. QED  BY <1>6, <1>7, <2>1, <2>2 DEF OnlyOnce
<1>. QED  BY <1>1, <1>2, <1>4, <1>5, <1>7, <1>8, <1>9, <1>10 DEF Good

(* map_delete takes the key's pair out and leaves the others, wherever     *)
(* they are then.                                                          *)
LEMMA DeleteGood ==
  ASSUME NEW V, NEW m, Good(m, V), NEW k \in Keys
  PROVE  LET d == MapDelete(m, k) IN
         /\ Good(d, V) /\ d.equal = m.equal
         /\ \A j \in Slots(d) : /\ ~Same(m, d.keys[j], k)
                               /\ \E i \in Slots(m) : PairAt(d, j) = PairAt(m, i)
         /\ \A i \in Slots(m) : ~Same(m, m.keys[i], k) =>
                                \E j \in Slots(d) : PairAt(d, j) = PairAt(m, i)
<1>1. CASE Holding(m, k) = {}
  BY <1>1 DEF MapDelete, Holding
<1>2. CASE Holding(m, k) # {}
  <2>1. PICK h \in Slots(m) : Same(m, m.keys[h], k)
    BY <1>2 DEF Holding
  <2>2. SlotOf(m, k) = h
    BY <2>1, TheSlot
  <2>3. PICK last : last = m.count - 1
    OBVIOUS
  <2>4. PICK d : d = [equal |-> m.equal, count |-> last, space |-> m.space,
                      keys |-> Filled(m.keys, h, last), vals |-> Filled(m.vals, h, last)]
    OBVIOUS
  <2>5. MapDelete(m, k) = d
    BY <1>2, <2>2, <2>3, <2>4 DEF MapDelete
  <2>6. /\ d.equal = m.equal /\ d.count = last /\ d.space = m.space
        /\ d = [equal |-> d.equal, count |-> d.count, space |-> d.space, keys |-> d.keys, vals |-> d.vals]
    BY <2>4
  <2>7. /\ m.count \in Nat /\ last \in Nat /\ m.space \in Nat \ {0} /\ last < m.space
        /\ h \in 0 .. last /\ Slots(m) = 0 .. last /\ Slots(d) = 0 .. last - 1
    BY <2>1, <2>3, <2>6 DEF Good, IsMap, Slots
  <2>8. /\ d.keys \in [0 .. m.space - 1 -> Keys \cup {Null}]
        /\ \A j \in Slots(d) : d.keys[j] = IF j = h THEN m.keys[last] ELSE m.keys[j]
        /\ d.vals \in [0 .. m.space - 1 -> V \cup {Null}]
        /\ \A j \in Slots(d) : d.vals[j] = IF j = h THEN m.vals[last] ELSE m.vals[j]
    <3>1. m.keys \in [0 .. m.space - 1 -> Keys \cup {Null}] /\ m.vals \in [0 .. m.space - 1 -> V \cup {Null}]
      BY DEF Good, IsMap
    <3>2. m.space \in Nat /\ last \in 0 .. m.space - 1 /\ h \in 0 .. last /\ Slots(d) = 0 .. last - 1
      BY <2>7
    <3>3. d.keys = Filled(m.keys, h, last) /\ d.vals = Filled(m.vals, h, last)
      BY <2>4
    <3>4. ASSUME NEW R, Null \in R, NEW a \in [0 .. m.space - 1 -> R]
          PROVE  /\ Filled(a, h, last) \in [0 .. m.space - 1 -> R]
                 /\ \A j \in 0 .. last - 1 : Filled(a, h, last)[j] = IF j = h THEN a[last] ELSE a[j]
      BY <3>2, <3>4 DEF Filled
    <3>5. /\ Filled(m.keys, h, last) \in [0 .. m.space - 1 -> Keys \cup {Null}]
          /\ \A j \in 0 .. last - 1 : Filled(m.keys, h, last)[j] = IF j = h THEN m.keys[last] ELSE m.keys[j]
      BY <3>1, <3>4, Zenon
    <3>6. /\ Filled(m.vals, h, last) \in [0 .. m.space - 1 -> V \cup {Null}]
          /\ \A j \in 0 .. last - 1 : Filled(m.vals, h, last)[j] = IF j = h THEN m.vals[last] ELSE m.vals[j]
      BY <3>1, <3>4, Zenon
    <3>. QED  BY <3>2, <3>3, <3>5, <3>6
  <2>9. PICK was : \A j \in Slots(d) : was[j] = IF j = h THEN last ELSE j
    <3>. WITNESS [j \in Slots(d) |-> IF j = h THEN last ELSE j]
    <3>. QED  OBVIOUS
  <2>10. \A j \in Slots(d) : /\ was[j] \in Slots(m) /\ was[j] # h
                             /\ d.keys[j] = m.keys[was[j]] /\ d.vals[j] = m.vals[was[j]]
    BY <2>7, <2>8, <2>9
  <2>11. IsMap(d, V)
    <3>1. \A j \in Slots(d) : d.keys[j] \in Keys /\ d.vals[j] \in V
      BY <2>10 DEF Good, IsMap
    <3>2. m.equal \in {"ptr", "str"}
      BY DEF Good, IsMap
    <3>. QED  BY <2>6, <2>7, <2>8, <3>1, <3>2 DEF IsMap
  <2>12. \A i, j \in Slots(d) : was[i] = was[j] => i = j
    BY <2>7, <2>9
  <2>13. OnlyOnce(d)
    BY <2>6, <2>10, <2>12 DEF OnlyOnce, Same, Good
  <2>14. \A i \in Slots(m) : Same(m, m.keys[i], k) => i = h
    BY <2>1 DEF OnlyOnce, Good, Same
  <2>15. \A j \in Slots(d) : ~Same(m, d.keys[j], k) /\ PairAt(d, j) = PairAt(m, was[j])
    BY <2>10, <2>14 DEF PairAt
  <2>16. \A i \in Slots(m) : i # h => \E j \in Slots(d) : was[j] = i
    <3>1. ASSUME NEW i \in Slots(m), i # h, i = last
          PROVE  h \in Slots(d) /\ was[h] = i
      BY <2>7, <2>9, <3>1
    <3>2. ASSUME NEW i \in Slots(m), i # h, i # last
          PROVE  i \in Slots(d) /\ was[i] = i
      BY <2>7, <2>9, <3>2
    <3>. QED  BY <3>1, <3>2
  <2>17. \A i \in Slots(m) : ~Same(m, m.keys[i], k) => \E j \in Slots(d) : PairAt(d, j) = PairAt(m, i)
    BY <2>1, <2>15, <2>16
  <2>. QED  BY <2>5, <2>6, <2>10, <2>11, <2>13, <2>15, <2>17 DEF Good
<1>. QED  BY <1>1, <1>2

(* map_put, whichever of the two it does: the map stays good and keeps its *)
(* keys and the new one.                                                   *)
LEMMA PutGood ==
  ASSUME NEW V, NEW m, Good(m, V), NEW k \in Keys, NEW v \in V
  PROVE  LET p == MapPut(m, k, v) IN
         /\ Good(p, V) /\ p.equal = m.equal /\ p.count # 0
         /\ KeysOf(m) \subseteq KeysOf(p) /\ KeysOf(p) \subseteq KeysOf(m) \cup {k}
<1>. PICK p : p = MapPut(m, k, v)
  OBVIOUS
<1>1. CASE \E i \in Slots(m) : Same(m, m.keys[i], k)
  <2>1. PICK i \in Slots(m) : Same(m, m.keys[i], k)
    BY <1>1
  <2>2. /\ Good(p, V) /\ p.equal = m.equal /\ p.count = m.count
        /\ \A j \in Slots(m) : p.keys[j] = m.keys[j]
    BY <2>1, OverwriteGood
  <2>3. Slots(p) = Slots(m) /\ m.count # 0
    BY <2>2 DEF Slots, Good, IsMap
  <2>. QED  BY <2>2, <2>3 DEF KeysOf
<1>2. CASE \A i \in Slots(m) : ~Same(m, m.keys[i], k)
  <2>1. /\ Good(p, V) /\ p.equal = m.equal /\ p.count = m.count + 1
        /\ \A j \in Slots(m) : p.keys[j] = m.keys[j]
        /\ p.keys[m.count] = k
    BY <1>2, AddGood
  <2>2. Slots(p) = Slots(m) \cup {m.count} /\ p.count # 0
    BY <2>1 DEF Slots, Good, IsMap
  <2>. QED  BY <2>1, <2>2 DEF KeysOf
<1>. QED  BY <1>1, <1>2

(* map_delete loses no other key.                                          *)
LEMMA DeleteKeys ==
  ASSUME NEW V, NEW m, Good(m, V), NEW k \in Keys
  PROVE  KeysOf(MapDelete(m, k)) \subseteq KeysOf(m)
<1>1. \A j \in Slots(MapDelete(m, k)) : \E i \in Slots(m) : PairAt(MapDelete(m, k), j) = PairAt(m, i)
  BY DeleteGood
<1>. QED  BY <1>1 DEF KeysOf, PairAt

-------------------------------------------------------------------------------
(* Contexts.                                                               *)

USE MapAssumption, ContextAssumption

-------------------------------------------------------------------------------
(* The inductive invariant.                                                *)

MapsGood ==
  /\ Good(symbols, Keys) /\ symbols.equal = "str"
  /\ vars = [c \in Contexts |-> vars[c]]
  /\ \A c \in Contexts : Good(vars[c], Values) /\ vars[c].equal = "ptr"
  /\ Good(funcs, Functions) /\ funcs.equal = "ptr"

(* The keys of the contexts are symbols: so two of them that are the same  *)
(* text are the same address.                                              *)
NamesInterned ==
  /\ \A c \in Contexts : KeysOf(vars[c]) \subseteq Interned
  /\ KeysOf(funcs) \subseteq Interned

GlobalBound == vars[Global].count # 0

(* A context that free_context will free is in one place of the chain, so  *)
(* the chain has lost it when it is freed.                                 *)
ChainGood ==
  /\ chain \in Seq(Contexts) /\ chain # << >> /\ chain[1] = Global
  /\ \A i \in DOMAIN chain : chain[i] \in live
  /\ room \in Nat /\ Level <= room
  /\ live \subseteq Contexts /\ scratch \subseteq live /\ Global \in live \ scratch
  /\ \A i, j \in DOMAIN chain : chain[i] = chain[j] /\ chain[i] \in scratch => i = j

(* What a scan has seen: the whole of the levels above its own, and the    *)
(* slots before its own.                                                   *)
Above(level) == UNION {Pairs(vars[chain[i]]) : i \in level + 1 .. Level}
Before(m, off) == {PairAt(m, j) : j \in 0 .. off - 1}
Under(what) == IF what = "fns" THEN funcs ELSE symbols
ScanGood ==
  IF lock # "gc" THEN it = NoIterator
  ELSE /\ it.what \in {"vars", "fns", "symbols"}
       /\ it.done => it = NoneLeft(it.what) /\ seen = Bound(it.what)
       /\ ~it.done => it = Iterator(it.what, it.level, it.off) /\ it.off \in Nat
       /\ ~it.done /\ it.what = "vars" =>
            /\ it.level \in 1 .. Level /\ it.off \in Slots(vars[chain[it.level]])
            /\ seen = Above(it.level) \cup Before(vars[chain[it.level]], it.off)
       /\ ~it.done /\ it.what # "vars" =>
            /\ it.level = 0 /\ it.off \in Slots(Under(it.what))
            /\ seen = Before(Under(it.what), it.off)

Asked == asked \in {Nothing} \cup (Texts \X (Values \cup Functions \cup {Null}))
Locked == lock \in {"vm", "gc", "free"}

Inv == MapsGood /\ NamesInterned /\ GlobalBound /\ ChainGood /\ ScanGood /\ Asked /\ Locked

-------------------------------------------------------------------------------
(* The last of some levels.                                                *)

(* A set of levels that is not empty has a least one.                      *)
LEMMA Least ==
  ASSUME NEW T, T \subseteq Nat, T # {}
  PROVE  \E x \in T : \A y \in T : x <= y
<1>1. PICK R : R = OpToRel(<, Nat)
  OBVIOUS
<1>2. IsWellFoundedOn(R, Nat)
  BY <1>1, NatLessThanWellFounded, Zenon
<1>3. PICK x \in T : \A y \in T : ~ (<<y, x>> \in R)
  BY <1>2, WFMin, Zenon
<1>4. R = {ss \in Nat \X Nat : ss[1] < ss[2]}
  BY <1>1 DEF OpToRel
<1>5. ASSUME NEW y \in T
      PROVE  x <= y
  <2>1. <<y, x>> \in Nat \X Nat
    OBVIOUS
  <2>2. ~(y < x)
    BY <2>1, <1>3, <1>4
  <2>3. x \in Nat /\ y \in Nat
    OBVIOUS
  <2>. QED  BY <2>2, <2>3
<1>. QED  BY <1>5

(* A set of levels that is not empty has a greatest one.                   *)
LEMMA Greatest ==
  ASSUME NEW n \in Nat, NEW S, S \subseteq 1 .. n, S # {}
  PROVE  \E x \in S : \A y \in S : y <= x
<1>1. PICK T : T = {n - i : i \in S}
  OBVIOUS
<1>2. T \subseteq Nat /\ T # {}
  <2>1. \A i \in S : n - i \in Nat
    OBVIOUS
  <2>. QED  BY <1>1, <2>1
<1>3. PICK t \in T : \A y \in T : t <= y
  BY <1>2, Least
<1>4. PICK x \in S : t = n - x
  BY <1>1
<1>5. ASSUME NEW y \in S
      PROVE  y <= x
  <2>1. n - y \in T
    BY <1>1
  <2>2. n - x <= n - y
    BY <1>3, <1>4, <2>1
  <2>3. y \in 1 .. n /\ x \in 1 .. n
    OBVIOUS
  <2>. QED  BY <2>2, <2>3
<1>. QED  BY <1>5

(* iterate_vars stands on the first slot of the innermost level that has   *)
(* one, or says that there is none.                                        *)
LEMMA FromFinds ==
  ASSUME MapsGood, ChainGood, NEW level \in 0 .. Level
  PROVE  \/ /\ From(level) = NoneLeft("vars")
            /\ \A i \in 1 .. level : Slots(vars[chain[i]]) = {}
         \/ \E n \in 1 .. level :
              /\ From(level) = Iterator("vars", n, 0)
              /\ 0 \in Slots(vars[chain[n]])
              /\ \A i \in n + 1 .. level : Slots(vars[chain[i]]) = {}
<1>0. Level \in Nat /\ level \in Nat /\ \A i \in 1 .. level : chain[i] \in Contexts
  BY DEF ChainGood, Level
<1>1. \A i \in 1 .. level : vars[chain[i]].count \in Nat
  BY <1>0 DEF MapsGood, Good, IsMap
<1>2. CASE Nonempty(level) = {}
  BY <1>1, <1>2 DEF From, Nonempty, Slots
<1>3. CASE Nonempty(level) # {}
  <2>1. Nonempty(level) \subseteq 1 .. level
    BY DEF Nonempty
  <2>2. \E n \in Nonempty(level) : \A j \in Nonempty(level) : j <= n
    BY <1>0, <1>3, <2>1, Greatest
  <2>3. PICK n : n = CHOOSE i \in Nonempty(level) : \A j \in Nonempty(level) : j <= i
    OBVIOUS
  <2>4. n \in Nonempty(level) /\ \A j \in Nonempty(level) : j <= n
    BY <2>2, <2>3
  <2>5. From(level) = Iterator("vars", n, 0)
    BY <1>3, <2>3 DEF From
  <2>6. n \in 1 .. level /\ 0 \in Slots(vars[chain[n]])
    BY <1>1, <2>4 DEF Nonempty, Slots
  <2>7. ASSUME NEW i \in n + 1 .. level
        PROVE  Slots(vars[chain[i]]) = {}
    <3>1. i \in 1 .. level /\ ~(i <= n)
      BY <2>6
    <3>2. vars[chain[i]].count = 0
      BY <2>4, <3>1 DEF Nonempty
    <3>. QED  BY <3>2 DEF Slots
  <2>. QED  BY <2>5, <2>6, <2>7
<1>. QED  BY <1>2, <1>3

-------------------------------------------------------------------------------
(* Every action keeps the invariant.                                       *)

(* Writes into maps: the actions that make one, and the others.            *)
LEMMA MapsStep ==
  ASSUME Inv, [Next]_cvars
  PROVE  MapsGood' /\ NamesInterned' /\ GlobalBound'
<1>. USE DEF Inv
<1>1. CASE UNCHANGED maps
  BY <1>1 DEF MapsGood, NamesInterned, GlobalBound, Interned, maps
<1>2. ASSUME NEW s \in Keys, Intern(s)
      PROVE  MapsGood' /\ NamesInterned' /\ GlobalBound'
  <2>1. CASE symbols' = symbols
    BY <2>1, <1>2 DEF Intern, MapsGood, NamesInterned, GlobalBound, Interned
  <2>2. CASE symbols' = MapPut(symbols, s, s)
    <3>1. /\ Good(symbols', Keys) /\ symbols'.equal = "str"
          /\ KeysOf(symbols) \subseteq KeysOf(symbols')
      BY <2>2, PutGood DEF MapsGood
    <3>. QED  BY <3>1, <1>2 DEF Intern, MapsGood, NamesInterned, GlobalBound, Interned
  <2>. QED  BY <1>2, <2>1, <2>2 DEF Intern
<1>3. Top \in Contexts /\ \A i \in DOMAIN chain : chain[i] \in Contexts
  BY DEF ChainGood, Top, Level
<1>4. ASSUME NEW s \in Keys, NEW v \in Values, BindVar(s, v)
      PROVE  MapsGood' /\ NamesInterned' /\ GlobalBound'
  <2>1. /\ s \in Interned /\ vars' = [vars EXCEPT ![Top] = MapPut(vars[Top], s, v)]
        /\ symbols' = symbols /\ funcs' = funcs
    BY <1>4 DEF BindVar
  <2>2. LET p == MapPut(vars[Top], s, v) IN
        /\ Good(p, Values) /\ p.equal = "ptr" /\ p.count # 0
        /\ KeysOf(p) \subseteq KeysOf(vars[Top]) \cup {s}
    BY <1>3, PutGood DEF MapsGood
  <2>3. \A c \in Contexts : vars'[c] = IF c = Top THEN MapPut(vars[Top], s, v) ELSE vars[c]
    BY <2>1 DEF MapsGood
  <2>4. vars' = [c \in Contexts |-> vars'[c]]
    BY <2>1 DEF MapsGood
  <2>. QED  BY <1>3, <2>1, <2>2, <2>3, <2>4 DEF MapsGood, NamesInterned, GlobalBound, Interned
<1>5. ASSUME NEW s \in Keys, NEW f \in Functions, BindFn(s, f)
      PROVE  MapsGood' /\ NamesInterned' /\ GlobalBound'
  <2>1. /\ s \in Interned /\ funcs' = MapPut(funcs, s, f)
        /\ symbols' = symbols /\ vars' = vars
    BY <1>5 DEF BindFn
  <2>2. LET p == MapPut(funcs, s, f) IN
        Good(p, Functions) /\ p.equal = "ptr" /\ KeysOf(p) \subseteq KeysOf(funcs) \cup {s}
    BY PutGood DEF MapsGood
  <2>. QED  BY <2>1, <2>2 DEF MapsGood, NamesInterned, GlobalBound, Interned
<1>6. ASSUME NEW s \in Keys, UnbindFn(s)
      PROVE  MapsGood' /\ NamesInterned' /\ GlobalBound'
  <2>1. funcs' = MapDelete(funcs, s) /\ symbols' = symbols /\ vars' = vars
    BY <1>6 DEF UnbindFn
  <2>2. LET d == MapDelete(funcs, s) IN
        Good(d, Functions) /\ d.equal = "ptr" /\ KeysOf(d) \subseteq KeysOf(funcs)
    BY DeleteGood, DeleteKeys DEF MapsGood
  <2>. QED  BY <2>1, <2>2 DEF MapsGood, NamesInterned, GlobalBound, Interned
<1>7. ASSUME NEW c \in Contexts, NEW inFn \in BOOLEAN, PushContext(c, inFn)
      PROVE  MapsGood' /\ NamesInterned' /\ GlobalBound'
  <2>1. /\ vars' = [vars EXCEPT ![c] = MapCreate("ptr")] /\ symbols' = symbols /\ funcs' = funcs
        /\ c # Global
    BY <1>7 DEF PushContext, ChainGood
  <2>2. /\ Good(MapCreate("ptr"), Values) /\ MapCreate("ptr").equal = "ptr"
        /\ KeysOf(MapCreate("ptr")) = {}
    BY CreateGood DEF KeysOf
  <2>3. \A d \in Contexts : vars'[d] = IF d = c THEN MapCreate("ptr") ELSE vars[d]
    BY <2>1 DEF MapsGood
  <2>4. vars' = [d \in Contexts |-> vars'[d]]
    BY <2>1 DEF MapsGood
  <2>. QED  BY <2>1, <2>2, <2>3, <2>4 DEF MapsGood, NamesInterned, GlobalBound, Interned
<1>8. ASSUME Next
      PROVE  \/ UNCHANGED maps
             \/ \E s \in Keys : Intern(s) \/ UnbindFn(s)
             \/ \E s \in Keys, v \in Values : BindVar(s, v)
             \/ \E s \in Keys, f \in Functions : BindFn(s, f)
             \/ \E c \in Contexts, inFn \in BOOLEAN : PushContext(c, inFn)
  BY <1>8 DEF Next, Machine, Iteration, LookupVar, LookupFn, PushExisting, PopContext, PopToLevel,
     VmUnlock, VmLock, ScanVars, ScanFns, ScanSymbols, Scan, GcLock, GcFns, GcSymbols, GcUnlock, Begin
<1>9. CASE UNCHANGED cvars
  BY <1>1, <1>9 DEF cvars
<1>. QED  BY <1>1, <1>2, <1>4, <1>5, <1>6, <1>7, <1>8, <1>9

(* The chain.                                                              *)
LEMMA ChainStep ==
  ASSUME Inv, [Next]_cvars
  PROVE  ChainGood'
<1>. USE DEF Inv
<1>1. CASE UNCHANGED stacks
  BY <1>1 DEF ChainGood, stacks, Level
<1>2. Level \in Nat \ {0} /\ DOMAIN chain = 1 .. Level /\ chain \in [1 .. Level -> Contexts]
  BY DEF ChainGood, Level
<1>3. ASSUME NEW c \in Contexts, PushOn(c)
      PROVE  /\ chain' \in Seq(Contexts) /\ chain' # << >> /\ chain'[1] = Global
             /\ Level' = Level + 1 /\ DOMAIN chain' = 1 .. Level + 1
             /\ \A i \in 1 .. Level : chain'[i] = chain[i]
             /\ chain'[Level + 1] = c
             /\ room' \in Nat /\ Level' <= room'
  <2>1. chain' = Append(chain, c)
    BY <1>3 DEF PushOn
  <2>2. /\ chain' \in Seq(Contexts) /\ chain' # << >> /\ Len(chain') = Level + 1
        /\ \A i \in 1 .. Level : chain'[i] = chain[i]
        /\ chain'[Level + 1] = c
    BY <2>1, <1>2 DEF ChainGood, Level
  <2>3. room' \in Nat /\ Level + 1 <= room'
    BY <1>2, <1>3 DEF PushOn, ChainGood
  <2>. QED  BY <1>2, <2>2, <2>3 DEF Level, ChainGood
<1>4. ASSUME NEW c \in Contexts, NEW inFn \in BOOLEAN, PushContext(c, inFn)
      PROVE  ChainGood'
  <2>1. /\ c \notin live /\ live' = live \cup {c}
        /\ scratch' \in {scratch, scratch \cup {c}}
    BY <1>4 DEF PushContext
  <2>2. \A i \in DOMAIN chain : chain[i] # c
    BY <2>1 DEF ChainGood
  <2>3. PushOn(c)
    BY <1>4 DEF PushContext
  <2>4. \A i \in DOMAIN chain' : chain'[i] \in live'
    BY <1>2, <1>3, <2>1, <2>3 DEF ChainGood
  <2>5. \A i, j \in DOMAIN chain' : chain'[i] = chain'[j] /\ chain'[i] \in scratch' => i = j
    BY <1>2, <1>3, <2>1, <2>2, <2>3 DEF ChainGood
  <2>6. /\ live' \subseteq Contexts /\ scratch' \subseteq live' /\ Global \in live' \ scratch'
    BY <2>1 DEF ChainGood
  <2>. QED  BY <1>3, <2>3, <2>4, <2>5, <2>6 DEF ChainGood
<1>5. ASSUME NEW c \in Contexts, PushExisting(c)
      PROVE  ChainGood'
  <2>1. c \in live \ scratch /\ live' = live /\ scratch' = scratch /\ PushOn(c)
    BY <1>5 DEF PushExisting
  <2>2. \A i \in DOMAIN chain' : chain'[i] \in live'
    BY <1>2, <1>3, <2>1 DEF ChainGood
  <2>3. \A i, j \in DOMAIN chain' : chain'[i] = chain'[j] /\ chain'[i] \in scratch' => i = j
    BY <1>2, <1>3, <2>1 DEF ChainGood
  <2>. QED  BY <1>3, <2>1, <2>2, <2>3 DEF ChainGood
<1>6. ASSUME NEW n \in 1 .. Level, chain' = SubSeq(chain, 1, n)
      PROVE  /\ chain' \in Seq(Contexts) /\ chain' # << >> /\ chain'[1] = Global
             /\ Level' = n /\ DOMAIN chain' = 1 .. n /\ 1 .. n \subseteq DOMAIN chain
             /\ \A i \in 1 .. n : chain'[i] = chain[i]
  <2>1. /\ chain' \in Seq(Contexts) /\ Len(chain') = n /\ DOMAIN chain' = 1 .. n
        /\ \A i \in 1 .. n : chain'[i] = chain[i]
    BY <1>2, <1>6 DEF ChainGood, Level
  <2>. QED  BY <1>2, <2>1 DEF Level, ChainGood
<1>7. ASSUME PopContext
      PROVE  ChainGood'
  <2>1. /\ Level > 1 /\ chain' = SubSeq(chain, 1, Level - 1) /\ room' = room
        /\ live' = live \ (scratch \cap {Top}) /\ scratch' = scratch \ {Top}
    BY <1>7 DEF PopContext
  <2>2. PICK n : n = Level - 1
    OBVIOUS
  <2>3. n \in 1 .. Level /\ chain' = SubSeq(chain, 1, n) /\ n < Level
    BY <1>2, <2>1, <2>2
  <2>4. /\ chain' \in Seq(Contexts) /\ chain' # << >> /\ chain'[1] = Global
        /\ Level' = n /\ DOMAIN chain' = 1 .. n /\ 1 .. n \subseteq DOMAIN chain
        /\ \A i \in 1 .. n : chain'[i] = chain[i]
    BY <2>3, <1>6
  <2>5. \A i \in 1 .. n : chain[i] # Top \/ chain[i] \notin scratch
    BY <1>2, <2>3 DEF ChainGood, Top
  <2>6. \A i \in DOMAIN chain' : chain'[i] \in live'
    BY <2>1, <2>4, <2>5 DEF ChainGood
  <2>7. \A i, j \in DOMAIN chain' : chain'[i] = chain'[j] /\ chain'[i] \in scratch' => i = j
    BY <2>1, <2>4 DEF ChainGood
  <2>8. room' \in Nat /\ Level' <= room'
    BY <1>2, <2>1, <2>3, <2>4 DEF ChainGood
  <2>9. live' \subseteq Contexts /\ scratch' \subseteq live' /\ Global \in live' \ scratch'
    BY <2>1 DEF ChainGood
  <2>. QED  BY <2>4, <2>6, <2>7, <2>8, <2>9 DEF ChainGood
<1>8. ASSUME NEW n \in 1 .. Level - 1, PopToLevel(n)
      PROVE  ChainGood'
  <2>1. chain' = SubSeq(chain, 1, n) /\ room' = room /\ live' = live /\ scratch' = scratch
    BY <1>8 DEF PopToLevel
  <2>2. n \in 1 .. Level
    BY <1>2
  <2>3. /\ chain' \in Seq(Contexts) /\ chain' # << >> /\ chain'[1] = Global
        /\ Level' = n /\ DOMAIN chain' = 1 .. n /\ 1 .. n \subseteq DOMAIN chain
        /\ \A i \in 1 .. n : chain'[i] = chain[i]
    BY <2>1, <2>2, <1>6
  <2>4. \A i \in DOMAIN chain' : chain'[i] \in live'
    BY <2>1, <2>3 DEF ChainGood
  <2>5. \A i, j \in DOMAIN chain' : chain'[i] = chain'[j] /\ chain'[i] \in scratch' => i = j
    BY <2>1, <2>3 DEF ChainGood
  <2>6. room' \in Nat /\ Level' <= room'
    BY <1>2, <2>1, <2>3 DEF ChainGood
  <2>. QED  BY <2>1, <2>3, <2>4, <2>5, <2>6 DEF ChainGood
<1>9. ASSUME Next
      PROVE  \/ UNCHANGED stacks \/ PopContext
             \/ \E c \in Contexts : PushExisting(c) \/ \E inFn \in BOOLEAN : PushContext(c, inFn)
             \/ \E n \in 1 .. Level - 1 : PopToLevel(n)
  BY <1>9 DEF Next, Machine, Iteration, Intern, BindVar, BindFn, UnbindFn, LookupVar, LookupFn,
     VmUnlock, VmLock, ScanVars, ScanFns, ScanSymbols, Scan, GcLock, GcFns, GcSymbols, GcUnlock, Begin
<1>10. CASE UNCHANGED cvars
  BY <1>1, <1>10 DEF cvars
<1>. QED  BY <1>1, <1>4, <1>5, <1>7, <1>8, <1>9, <1>10


(* One more pair of a map.                                                 *)
LEMMA ScanSlot ==
  ASSUME NEW m, m.count \in Nat, NEW off \in Slots(m)
  PROVE  /\ AtLast(m, off) => Before(m, off) \cup {PairAt(m, off)} = Pairs(m)
         /\ ~AtLast(m, off) => /\ off + 1 \in Slots(m)
                               /\ Before(m, off) \cup {PairAt(m, off)} = Before(m, off + 1)
<1>1. /\ AtLast(m, off) => 0 .. off = Slots(m)
      /\ ~AtLast(m, off) => off + 1 \in Slots(m)
      /\ 0 .. (off + 1) - 1 = 0 .. off /\ 0 .. off = (0 .. off - 1) \cup {off}
  BY DEF AtLast, Slots
<1>2. Before(m, off) \cup {PairAt(m, off)} = {PairAt(m, j) : j \in 0 .. off}
  BY <1>1 DEF Before
<1>. QED  BY <1>1, <1>2 DEF Before, Pairs

(* Moving on from level: everything above it has been seen.                *)
LEMMA ScanFrom ==
  ASSUME MapsGood, ChainGood, NEW level \in 0 .. Level,
         it' = From(level), seen' = Above(level), UNCHANGED maps, UNCHANGED stacks
  PROVE  lock' = "gc" => ScanGood'
<1>0. /\ Level \in Nat /\ chain' = chain /\ vars' = vars /\ Level' = Level
      /\ DOMAIN chain = 1 .. Level
  BY DEF ChainGood, Level, maps, stacks
<1>1. CASE From(level) = NoneLeft("vars") /\ \A i \in 1 .. level : Slots(vars[chain[i]]) = {}
  <2>1. \A i \in 1 .. level : Pairs(vars[chain[i]]) = {}
    BY <1>1 DEF Pairs
  <2>2. Above(level) = UNION {Pairs(vars[chain[i]]) : i \in 1 .. Level}
    <3>1. \A i \in 1 .. Level : i \in 1 .. level \/ i \in level + 1 .. Level
      BY <1>0
    <3>2. \A i \in level + 1 .. Level : i \in 1 .. Level
      BY <1>0
    <3>3. ASSUME NEW e \in UNION {Pairs(vars[chain[i]]) : i \in 1 .. Level}
          PROVE  e \in Above(level)
      <4>1. PICK i \in 1 .. Level : e \in Pairs(vars[chain[i]])
        BY <3>3
      <4>. QED  BY <4>1, <3>1, <2>1 DEF Above
    <3>4. ASSUME NEW e \in Above(level)
          PROVE  e \in UNION {Pairs(vars[chain[i]]) : i \in 1 .. Level}
      BY <3>2, <3>4 DEF Above
    <3>. QED  BY <3>3, <3>4
  <2>3. seen' = Bound("vars")'
    BY <1>0, <2>2 DEF Bound
  <2>. QED  BY <1>1, <2>3 DEF ScanGood, NoneLeft
<1>2. ASSUME NEW n \in 1 .. level, From(level) = Iterator("vars", n, 0),
             0 \in Slots(vars[chain[n]]), \A i \in n + 1 .. level : Slots(vars[chain[i]]) = {}
      PROVE  lock' = "gc" => ScanGood'
  <2>1. \A i \in n + 1 .. level : Pairs(vars[chain[i]]) = {}
    BY <1>2 DEF Pairs
  <2>2. Above(level) = Above(n)
    <3>1. \A i \in n + 1 .. Level : i \in n + 1 .. level \/ i \in level + 1 .. Level
      BY <1>0
    <3>2. \A i \in level + 1 .. Level : i \in n + 1 .. Level
      BY <1>0
    <3>3. ASSUME NEW e \in Above(n)
          PROVE  e \in Above(level)
      <4>1. PICK i \in n + 1 .. Level : e \in Pairs(vars[chain[i]])
        BY <3>3 DEF Above
      <4>. QED  BY <4>1, <3>1, <2>1 DEF Above
    <3>4. ASSUME NEW e \in Above(level)
          PROVE  e \in Above(n)
      BY <3>2, <3>4 DEF Above
    <3>. QED  BY <3>3, <3>4
  <2>3. Before(vars[chain[n]], 0) = {}
    BY DEF Before
  <2>4. /\ it'.what = "vars" /\ it'.level = n /\ it'.off = 0 /\ it'.done = FALSE
        /\ it' = Iterator(it'.what, it'.level, it'.off)
    BY <1>2 DEF Iterator
  <2>5. seen' = Above(n)' \cup Before(vars[chain[n]], 0)'
    <3>1. Above(n)' = Above(n)
      BY <1>0 DEF Above
    <3>2. Before(vars[chain[n]], 0)' = {}
      BY DEF Before
    <3>. QED  BY <1>0, <2>2, <3>1, <3>2
  <2>6. n \in 1 .. Level'
    BY <1>0
  <2>7. it'.off \in Slots(vars'[chain'[it'.level]]) /\ it'.off \in Nat
    BY <1>0, <1>2, <2>4
  <2>8. seen' = (Above(it.level) \cup Before(vars[chain[it.level]], it.off))'
    <3>1. Above(n)' = Above(it.level)'
      BY <2>4 DEF Above
    <3>2. Before(vars[chain[n]], 0)' = Before(vars[chain[it.level]], it.off)'
      BY <2>4 DEF Before
    <3>. QED  BY <2>5, <3>1, <3>2
  <2>9. it'.level \in 1 .. Level'
    BY <2>4, <2>6
  <2>. QED  BY <2>4, <2>7, <2>8, <2>9 DEF ScanGood
<1>. QED  BY <1>1, <1>2, FromFinds


(* The iterator, and who owns the mutex.                                   *)
LEMMA ScanStep ==
  ASSUME Inv, [Next]_cvars
  PROVE  ScanGood' /\ Locked'
<1>. USE DEF Inv
<1>0. /\ Level \in Nat /\ DOMAIN chain = 1 .. Level
      /\ \A i \in DOMAIN chain : vars[chain[i]].count \in Nat
      /\ funcs.count \in Nat /\ symbols.count \in Nat
  <2>1. Level \in Nat /\ DOMAIN chain = 1 .. Level /\ \A i \in DOMAIN chain : chain[i] \in Contexts
    BY DEF ChainGood, Level
  <2>2. ASSUME NEW i \in DOMAIN chain PROVE vars[chain[i]].count \in Nat
    BY <2>1 DEF MapsGood, Good, IsMap
  <2>3. funcs.count \in Nat /\ symbols.count \in Nat
    BY DEF MapsGood, Good, IsMap
  <2>. QED  BY <2>1, <2>2, <2>3
<1>1. CASE lock # "gc" /\ lock' \in {"vm", "free"} /\ UNCHANGED it
  BY <1>1 DEF ScanGood, Locked
<1>2. ASSUME Machine
      PROVE  lock # "gc" /\ lock' \in {"vm", "free"} /\ UNCHANGED it
  BY <1>2 DEF Machine, Working, scan, Intern, BindVar, BindFn, UnbindFn, LookupVar, LookupFn,
     PushContext, PushExisting, PopContext, PopToLevel, VmUnlock, VmLock
<1>3. ASSUME GcLock
      PROVE  ScanGood' /\ Locked'
  <2>1. it' = From(Level) /\ seen' = {} /\ UNCHANGED maps /\ UNCHANGED stacks /\ lock' = "gc"
    BY <1>3 DEF GcLock, Begin
  <2>2. Above(Level) = {} /\ Level \in 0 .. Level
    BY <1>0 DEF Above
  <2>. QED  BY <2>1, <2>2, ScanFrom DEF Locked
<1>4. ASSUME ScanVars
      PROVE  ScanGood' /\ Locked'
  <2>. DEFINE m == vars[chain[it.level]]
  <2>1. /\ it.what = "vars" /\ ~it.done /\ seen' = seen \cup {PairAt(m, it.off)}
        /\ it' = IF AtLast(m, it.off) THEN From(it.level - 1) ELSE Iterator("vars", it.level, it.off + 1)
        /\ UNCHANGED maps /\ UNCHANGED stacks /\ UNCHANGED lock
    BY <1>4 DEF ScanVars, Scan
  <2>2. lock = "gc" /\ lock' = "gc"
    BY <2>1 DEF ScanGood, NoIterator, NoneLeft
  <2>3. /\ it.level \in 1 .. Level /\ it.off \in Slots(m) /\ it.off \in Nat
        /\ seen = Above(it.level) \cup Before(m, it.off)
        /\ it = Iterator("vars", it.level, it.off)
    BY <2>1, <2>2 DEF ScanGood
  <2>4. m.count \in Nat
    BY <1>0, <2>3
  <2>5. CASE AtLast(m, it.off)
    <3>1. seen' = Above(it.level) \cup Pairs(m)
      BY <2>1, <2>3, <2>4, <2>5, ScanSlot
    <3>2. Above(it.level) \cup Pairs(m) = Above(it.level - 1)
      <4>1. \A i \in (it.level - 1) + 1 .. Level : i = it.level \/ i \in it.level + 1 .. Level
        BY <1>0, <2>3
      <4>2. \A i \in it.level + 1 .. Level : i \in (it.level - 1) + 1 .. Level
        BY <1>0, <2>3
      <4>3. it.level \in (it.level - 1) + 1 .. Level
        BY <1>0, <2>3
      <4>4. ASSUME NEW e \in Above(it.level - 1)
            PROVE  e \in Above(it.level) \cup Pairs(m)
        <5>1. PICK i \in (it.level - 1) + 1 .. Level : e \in Pairs(vars[chain[i]])
          BY <4>4 DEF Above
        <5>. QED  BY <5>1, <4>1 DEF Above
      <4>5. ASSUME NEW e \in Above(it.level) \cup Pairs(m)
            PROVE  e \in Above(it.level - 1)
        BY <4>2, <4>3, <4>5 DEF Above
      <4>. QED  BY <4>4, <4>5
    <3>3. it.level - 1 \in 0 .. Level
      BY <1>0, <2>3
    <3>. QED  BY <2>1, <2>2, <2>5, <3>1, <3>2, <3>3, ScanFrom DEF Locked
  <2>6. CASE ~AtLast(m, it.off)
    <3>1. it' = Iterator("vars", it.level, it.off + 1)
      BY <2>1, <2>3, <2>6 DEF Iterator
    <3>2. /\ it.off + 1 \in Slots(m) /\ it.off + 1 \in Nat
          /\ seen' = Above(it.level) \cup Before(m, it.off + 1)
      <4>1. /\ it.off + 1 \in Slots(m)
            /\ Before(m, it.off) \cup {PairAt(m, it.off)} = Before(m, it.off + 1)
        BY <2>3, <2>4, <2>6, ScanSlot
      <4>2. it.off + 1 \in Nat
        BY <2>3
      <4>. QED  BY <2>1, <2>3, <4>1, <4>2
    <3>3. /\ it'.what = "vars" /\ it'.level = it.level /\ it'.off = it.off + 1 /\ it'.done = FALSE
          /\ it' = Iterator(it'.what, it'.level, it'.off)
      BY <3>1 DEF Iterator
    <3>4. chain' = chain /\ vars' = vars /\ Level' = Level
      BY <2>1 DEF maps, stacks, Level
    <3>5. /\ it'.level \in 1 .. Level' /\ it'.off \in Slots(vars'[chain'[it'.level]]) /\ it'.off \in Nat
      BY <2>3, <3>2, <3>3, <3>4
    <3>6. seen' = (Above(it.level) \cup Before(vars[chain[it.level]], it.off))'
      BY <3>2, <3>3, <3>4 DEF Above
    <3>. QED  BY <2>2, <3>3, <3>5, <3>6 DEF ScanGood, Locked
  <2>. QED  BY <2>5, <2>6
<1>5. ASSUME NEW what \in {"fns", "symbols"}, Scan(what, Under(what), NoneLeft(what))
      PROVE  ScanGood' /\ Locked'
  <2>. DEFINE m == Under(what)
  <2>1. /\ it.what = what /\ ~it.done /\ seen' = seen \cup {PairAt(m, it.off)}
        /\ it' = IF AtLast(m, it.off) THEN NoneLeft(what) ELSE Iterator(what, it.level, it.off + 1)
        /\ UNCHANGED maps /\ UNCHANGED stacks /\ UNCHANGED lock
    BY <1>5 DEF Scan
  <2>2. lock = "gc" /\ lock' = "gc"
    BY <2>1 DEF ScanGood, NoIterator, NoneLeft
  <2>3. /\ it.level = 0 /\ it.off \in Slots(m) /\ it.off \in Nat /\ seen = Before(m, it.off)
        /\ it = Iterator(what, it.level, it.off)
    BY <2>1, <2>2 DEF ScanGood
  <2>4. m.count \in Nat /\ m' = m
    BY <1>0, <2>1 DEF Under, maps
  <2>5. CASE AtLast(m, it.off)
    <3>1. seen' = Pairs(m)
      BY <2>1, <2>3, <2>4, <2>5, ScanSlot
    <3>2. seen' = Bound(what)'
      BY <2>4, <3>1 DEF Bound, Under
    <3>3. it' = NoneLeft(what) /\ it'.what = what /\ it'.done
      BY <2>1, <2>5 DEF NoneLeft
    <3>4. (seen = Bound(it.what))'
      BY <3>2, <3>3 DEF Bound
    <3>. QED  BY <2>2, <3>3, <3>4 DEF ScanGood, Locked
  <2>6. CASE ~AtLast(m, it.off)
    <3>1. it' = Iterator(what, it.level, it.off + 1)
      BY <2>1, <2>3, <2>6 DEF Iterator
    <3>2. /\ it.off + 1 \in Slots(m) /\ it.off + 1 \in Nat /\ seen' = Before(m, it.off + 1)
      <4>1. /\ it.off + 1 \in Slots(m)
            /\ Before(m, it.off) \cup {PairAt(m, it.off)} = Before(m, it.off + 1)
        BY <2>3, <2>4, <2>6, ScanSlot
      <4>2. it.off + 1 \in Nat
        BY <2>3
      <4>. QED  BY <2>1, <2>3, <4>1, <4>2
    <3>3. /\ it'.what = what /\ it'.level = 0 /\ it'.off = it.off + 1 /\ it'.done = FALSE
          /\ it' = Iterator(it'.what, it'.level, it'.off)
      BY <2>3, <3>1 DEF Iterator
    <3>4. /\ (it.off \in Slots(Under(it.what)))' /\ it'.off \in Nat
          /\ (seen = Before(Under(it.what), it.off))'
      BY <2>4, <3>2, <3>3 DEF Under
    <3>. QED  BY <2>2, <3>3, <3>4 DEF ScanGood, Locked
  <2>. QED  BY <2>5, <2>6
<1>6. ASSUME NEW what \in {"fns", "symbols"}, lock = "gc", lock' = lock, Begin(Over(what, Under(what)))
      PROVE  ScanGood' /\ Locked'
  <2>. DEFINE m == Under(what)
  <2>1. it' = Over(what, m) /\ seen' = {} /\ UNCHANGED maps /\ m.count \in Nat /\ m' = m
    BY <1>0, <1>6 DEF Begin, Under, maps
  <2>2. CASE m.count = 0
    <3>1. it' = NoneLeft(what) /\ it'.what = what /\ it'.done
      BY <2>1, <2>2 DEF Over, NoneLeft
    <3>2. Pairs(m) = {}
      BY <2>2 DEF Pairs, Slots
    <3>3. (seen = Bound(it.what))'
      BY <2>1, <3>1, <3>2 DEF Bound, Under
    <3>. QED  BY <1>6, <3>1, <3>3 DEF ScanGood, Locked
  <2>3. CASE m.count # 0
    <3>1. it' = Iterator(what, 0, 0)
      BY <2>1, <2>3 DEF Over
    <3>2. /\ it'.what = what /\ it'.level = 0 /\ it'.off = 0 /\ it'.done = FALSE
          /\ it' = Iterator(it'.what, it'.level, it'.off)
      BY <3>1 DEF Iterator
    <3>3. 0 \in Slots(m) /\ Before(m, 0) = {}
      BY <2>1, <2>3 DEF Slots, Before
    <3>4. (it.off \in Slots(Under(it.what)))' /\ it'.off \in Nat
      BY <2>1, <3>2, <3>3 DEF Under
    <3>5. (seen = Before(Under(it.what), it.off))'
      BY <2>1, <3>2, <3>3 DEF Under, Before
    <3>. QED  BY <1>6, <3>2, <3>4, <3>5 DEF ScanGood, Locked
  <2>. QED  BY <2>2, <2>3
<1>7. ASSUME GcFns \/ GcSymbols
      PROVE  ScanGood' /\ Locked'
  <2>1. lock = "gc" /\ lock' = lock
    BY <1>7 DEF GcFns, GcSymbols, ScanGood, NoIterator, NoneLeft
  <2>2. Begin(Over("fns", Under("fns"))) \/ Begin(Over("symbols", Under("symbols")))
    BY <1>7 DEF GcFns, GcSymbols, Under
  <2>. QED  BY <1>6, <2>1, <2>2
<1>8. ASSUME GcUnlock
      PROVE  ScanGood' /\ Locked'
  BY <1>8 DEF GcUnlock, Begin, ScanGood, Locked
<1>9. ASSUME ScanFns \/ ScanSymbols
      PROVE  ScanGood' /\ Locked'
  <2>1. Scan("fns", Under("fns"), NoneLeft("fns")) \/ Scan("symbols", Under("symbols"), NoneLeft("symbols"))
    BY <1>9 DEF ScanFns, ScanSymbols, Under
  <2>. QED  BY <1>5, <2>1
<1>10. CASE UNCHANGED cvars
  BY <1>10 DEF cvars, maps, stacks, scan, ScanGood, Locked, Above, Bound, Under, Level
<1>. QED  BY <1>1, <1>2, <1>3, <1>4, <1>7, <1>8, <1>9, <1>10 DEF Next, Iteration


(* What a lookup finds is a value, a function or nothing.                  *)
LEMMA AskedStep ==
  ASSUME Inv, [Next]_cvars
  PROVE  Asked'
<1>. USE DEF Inv
<1>1. ASSUME NEW V, NEW m, Good(m, V), NEW k \in Keys
      PROVE  MapGet(m, k) \in V \cup {Null}
  <2>1. CASE \E i \in Slots(m) : Same(m, m.keys[i], k)
    BY <1>1, <2>1, GetSlot DEF Good, IsMap
  <2>2. CASE \A i \in Slots(m) : ~Same(m, m.keys[i], k)
    BY <1>1, <2>2, GetSlot DEF Holding
  <2>. QED  BY <2>1, <2>2
<1>2. \A s \in Keys : Text[s] \in Texts
  BY DEF Texts
<1>3. CASE asked' \in {asked, Nothing}
  BY <1>3 DEF Asked
<1>4. ASSUME NEW s \in Keys, LookupVar(s)
      PROVE  Asked'
  <2>1. \A i \in DOMAIN chain : MapGet(vars[chain[i]], s) \in Values \cup {Null}
    BY <1>1 DEF ChainGood, MapsGood
  <2>. QED  BY <1>2, <1>4, <2>1 DEF LookupVar, Asked
<1>5. ASSUME NEW s \in Keys, LookupFn(s)
      PROVE  Asked'
  BY <1>1, <1>2, <1>5 DEF LookupFn, Asked, MapsGood
<1>6. ASSUME NEW s \in Keys, UnbindFn(s)
      PROVE  Asked'
  BY <1>2, <1>6 DEF UnbindFn, Asked
<1>7. ASSUME NEW s \in Keys, NEW v \in Values, BindVar(s, v)
      PROVE  Asked'
  BY <1>2, <1>7 DEF BindVar, Asked
<1>8. ASSUME NEW s \in Keys, NEW f \in Functions, BindFn(s, f)
      PROVE  Asked'
  BY <1>2, <1>8 DEF BindFn, Asked
<1>9. ASSUME Next
      PROVE  \/ asked' = Nothing
             \/ \E s \in Keys : LookupVar(s) \/ LookupFn(s) \/ UnbindFn(s)
             \/ \E s \in Keys, v \in Values : BindVar(s, v)
             \/ \E s \in Keys, f \in Functions : BindFn(s, f)
  BY <1>9 DEF Next, Machine, Iteration, Intern, PushContext, PushExisting, PopContext, PopToLevel,
     VmUnlock, VmLock, ScanVars, ScanFns, ScanSymbols, Scan, GcLock, GcFns, GcSymbols, GcUnlock, Begin
<1>10. CASE UNCHANGED cvars
  BY <1>3, <1>10 DEF cvars
<1>. QED  BY <1>3, <1>4, <1>5, <1>6, <1>7, <1>8, <1>9, <1>10

(* One empty context satisfies the invariant.                              *)
LEMMA InvInit == Init => Inv
<1>. SUFFICES ASSUME Init PROVE Inv
  OBVIOUS
<1>1. PICK s \in Keys, v \in Values, f \in Functions :
        /\ symbols = MapPut(MapCreate("str"), s, s)
        /\ vars = [c \in Contexts |-> IF c = Global THEN MapPut(MapCreate("ptr"), s, v)
                                      ELSE MapCreate("ptr")]
        /\ funcs = MapPut(MapCreate("ptr"), s, f)
  BY DEF Init
<1>2. \A V : /\ Good(MapCreate("ptr"), V) /\ MapCreate("ptr").equal = "ptr"
             /\ Good(MapCreate("str"), V) /\ MapCreate("str").equal = "str"
             /\ KeysOf(MapCreate("ptr")) = {}
  BY CreateGood DEF KeysOf
<1>3. /\ Good(symbols, Keys) /\ symbols.equal = "str" /\ symbols.count # 0
      /\ Interned \subseteq {s}
  <2>1. KeysOf(MapCreate("str")) = {}
    BY CreateGood DEF KeysOf
  <2>2. Good(MapCreate("str"), Keys) /\ MapCreate("str").equal = "str"
    BY <1>2
  <2>3. PICK m : m = MapCreate("str")
    OBVIOUS
  <2>4. LET p == MapPut(m, s, s) IN
        Good(p, Keys) /\ p.equal = m.equal /\ p.count # 0 /\ KeysOf(p) \subseteq KeysOf(m) \cup {s}
    BY <2>2, <2>3, PutGood
  <2>. QED  BY <1>1, <2>1, <2>2, <2>3, <2>4 DEF Interned
<1>4. Interned = {s}
  <2>1. symbols.count \in Nat
    BY <1>3 DEF Good, IsMap
  <2>2. symbols.keys[0] \in Interned
    BY <1>3, <2>1 DEF Interned, KeysOf, Slots
  <2>. QED  BY <1>3, <2>2
<1>put. ASSUME NEW V, NEW w \in V
       PROVE  LET p == MapPut(MapCreate("ptr"), s, w) IN
              Good(p, V) /\ p.equal = "ptr" /\ p.count # 0 /\ KeysOf(p) \subseteq {s}
  <2>1. PICK m : m = MapCreate("ptr")
    OBVIOUS
  <2>2. Good(m, V) /\ m.equal = "ptr" /\ KeysOf(m) = {}
    BY <1>2, <2>1
  <2>3. LET p == MapPut(m, s, w) IN
        Good(p, V) /\ p.equal = m.equal /\ p.count # 0 /\ KeysOf(p) \subseteq KeysOf(m) \cup {s}
    BY <1>put, <2>2, PutGood
  <2>. QED  BY <2>1, <2>2, <2>3
<1>5. LET m == MapPut(MapCreate("ptr"), s, v) IN
      Good(m, Values) /\ m.equal = "ptr" /\ m.count # 0 /\ KeysOf(m) \subseteq {s}
  BY <1>put
<1>6. Good(funcs, Functions) /\ funcs.equal = "ptr" /\ KeysOf(funcs) \subseteq {s}
  BY <1>1, <1>put
<1>7. MapsGood /\ NamesInterned /\ GlobalBound
  BY <1>1, <1>2, <1>3, <1>4, <1>5, <1>6 DEF MapsGood, NamesInterned, GlobalBound
<1>8. ChainGood
  BY DEF Init, ChainGood, Level
<1>9. ScanGood /\ Asked /\ Locked
  BY DEF Init, ScanGood, Asked, Locked
<1>. QED  BY <1>7, <1>8, <1>9 DEF Inv

(* Every step keeps the invariant.                                         *)
LEMMA InvStep == Inv /\ [Next]_cvars => Inv'
BY MapsStep, ChainStep, ScanStep, AskedStep DEF Inv

(* context.c: the chain, its maps and the collector's iterators stay well  *)
(* formed through every bind, push, pop and scan.                          *)
THEOREM Invariant == Spec => []Inv
BY InvInit, InvStep, PTL DEF Spec

-------------------------------------------------------------------------------
(* What the runs check.                                                    *)

(* No map is written outside its arrays, and every variable has its type.  *)
THEOREM TypeCorrect == Spec => []TypeOK
<1>1. Inv => TypeOK
  <2>. SUFFICES ASSUME Inv PROVE TypeOK
    OBVIOUS
  <2>1. it \in [what : {"nothing", "vars", "fns", "symbols"}, level : Nat, off : Nat, done : BOOLEAN]
    <3>0. \A what \in {"nothing", "vars", "fns", "symbols"}, level \in Nat, off \in Nat :
            /\ Iterator(what, level, off) \in [what : {"nothing", "vars", "fns", "symbols"},
                                              level : Nat, off : Nat, done : BOOLEAN]
            /\ NoneLeft(what) \in [what : {"nothing", "vars", "fns", "symbols"},
                                   level : Nat, off : Nat, done : BOOLEAN]
      BY DEF Iterator, NoneLeft
    <3>. HIDE DEF NoneLeft, Iterator
    <3>1. CASE lock # "gc"
      BY <3>0, <3>1 DEF Inv, ScanGood, NoIterator
    <3>2. CASE lock = "gc" /\ it.done
      <4>1. it.what \in {"vars", "fns", "symbols"} /\ it = NoneLeft(it.what)
        BY <3>2 DEF Inv, ScanGood
      <4>2. PICK what \in {"vars", "fns", "symbols"} : it = NoneLeft(what)
        BY <4>1
      <4>. QED  BY <3>0, <4>2
    <3>3. CASE lock = "gc" /\ ~it.done
      <4>1. /\ it.what \in {"vars", "fns", "symbols"} /\ it.level \in Nat /\ it.off \in Nat
            /\ it = Iterator(it.what, it.level, it.off)
        BY <3>3 DEF Inv, ScanGood, ChainGood, Level
      <4>2. PICK what \in {"vars", "fns", "symbols"}, level \in Nat, off \in Nat :
              it = Iterator(what, level, off)
        BY <4>1
      <4>. QED  BY <3>0, <4>2
    <3>. QED  BY <3>1, <3>2, <3>3
  <2>. QED  BY <2>1 DEF Inv, TypeOK, MapsGood, Good, ChainGood, Asked, Locked
<1>. QED  BY <1>1, Invariant, PTL

(* No name has two entries in a map.                                       *)
THEOREM Once == Spec => []NamesOnce
<1>1. Inv => NamesOnce
  BY DEF Inv, MapsGood, Good, NamesOnce
<1>. QED  BY <1>1, Invariant, PTL

(* The chain holds no context that was freed, and fits its array.          *)
THEOREM ChainIsValid == Spec => []ChainValid
<1>1. Inv => ChainValid
  BY DEF Inv, ChainGood, ChainValid
<1>. QED  BY <1>1, Invariant, PTL

(* The collector sees every binding of the chain, and at least one.        *)
THEOREM ScansAreComplete == Spec => []ScanComplete
<1>1. Inv => ScanComplete
  <2>. SUFFICES ASSUME Inv, it.done, it.what # "nothing"
                PROVE  seen = Bound(it.what) /\ (it.what = "vars" => seen # {})
    BY DEF ScanComplete
  <2>1. lock = "gc" /\ seen = Bound(it.what)
    BY DEF Inv, ScanGood, NoIterator, NoneLeft
  <2>2. ASSUME it.what = "vars"
        PROVE  seen # {}
    <3>1. 0 \in Slots(vars[Global])
      BY DEF Inv, GlobalBound, MapsGood, ChainGood, Good, IsMap, Slots
    <3>2. PairAt(vars[Global], 0) \in Pairs(vars[chain[1]]) /\ 1 \in DOMAIN chain
      BY <3>1 DEF Pairs, Inv, ChainGood
    <3>. QED  BY <2>1, <2>2, <3>2 DEF Bound
  <2>. QED  BY <2>1, <2>2
<1>. QED  BY <1>1, Invariant, PTL


-------------------------------------------------------------------------------
(* Names by text.  Among the keys of a context a text is one address, so   *)
(* what the map says of the address is what Scopes says of the text.       *)

Distinct(S) == \A j, k \in S : Text[j] = Text[k] => j = k
Mapped(m, V) == Good(m, V) /\ m.equal = "ptr" /\ Distinct(KeysOf(m))

(* The value of a text, where the map has it and where not.                *)
LEMMA Valued ==
  ASSUME NEW V, NEW m, Mapped(m, V)
  PROVE  /\ \A i \in Slots(m) : ValueOf(m, Text[m.keys[i]]) = m.vals[i]
         /\ \A t : (\A i \in Slots(m) : Text[m.keys[i]] # t) => ValueOf(m, t) = Null
<1>1. ASSUME NEW i \in Slots(m), NEW j \in Named(m, Text[m.keys[i]])
      PROVE  j = i
  <2>1. j \in Slots(m) /\ Text[m.keys[j]] = Text[m.keys[i]]
    BY <1>1 DEF Named
  <2>2. m.keys[j] = m.keys[i]
    BY <2>1 DEF Mapped, Distinct, KeysOf
  <2>. QED  BY <2>1, <2>2 DEF Mapped, Good, OnlyOnce, Same
<1>2. \A i \in Slots(m) : Named(m, Text[m.keys[i]]) = {i}
  BY <1>1 DEF Named
<1>. QED  BY <1>2 DEF ValueOf, Named

(* map_get finds the value of a text.                                      *)
LEMMA GetValue ==
  ASSUME NEW V, NEW m, Mapped(m, V), NEW k \in Keys, Distinct(KeysOf(m) \cup {k})
  PROVE  MapGet(m, k) = ValueOf(m, Text[k])
<1>1. ASSUME NEW i \in Slots(m), Same(m, m.keys[i], k)
      PROVE  MapGet(m, k) = ValueOf(m, Text[k])
  BY <1>1, GetSlot, Valued DEF Mapped, Same
<1>2. ASSUME \A i \in Slots(m) : ~Same(m, m.keys[i], k)
      PROVE  MapGet(m, k) = ValueOf(m, Text[k])
  <2>1. \A i \in Slots(m) : Text[m.keys[i]] # Text[k]
    BY <1>2 DEF Distinct, KeysOf, Same, Mapped
  <2>. QED  BY <1>2, <2>1, GetSlot, Valued DEF Mapped, Holding
<1>. QED  BY <1>1, <1>2

(* map_put changes the value of one text.                                  *)
LEMMA PutValue ==
  ASSUME NEW V, NEW m, Mapped(m, V), NEW k \in Keys, Distinct(KeysOf(m) \cup {k}), NEW v \in V
  PROVE  \A t : ValueOf(MapPut(m, k, v), t) = IF t = Text[k] THEN v ELSE ValueOf(m, t)
<1>1. PICK p : p = MapPut(m, k, v)
  OBVIOUS
<1>2. Mapped(p, V)
  <2>1. /\ Good(p, V) /\ p.equal = m.equal /\ KeysOf(p) \subseteq KeysOf(m) \cup {k}
    BY <1>1, PutGood DEF Mapped
  <2>. QED  BY <2>1 DEF Mapped, Distinct
<1>3. ASSUME NEW i \in Slots(m), Same(m, m.keys[i], k)
      PROVE  \A t : ValueOf(p, t) = IF t = Text[k] THEN v ELSE ValueOf(m, t)
  <2>1. /\ p.count = m.count
        /\ \A j \in Slots(m) : p.keys[j] = m.keys[j] /\ p.vals[j] = IF j = i THEN v ELSE m.vals[j]
    BY <1>1, <1>3, OverwriteGood DEF Mapped
  <2>2. Slots(p) = Slots(m) /\ m.keys[i] = k
    BY <1>3, <2>1 DEF Slots, Same, Mapped
  <2>3. ValueOf(p, Text[k]) = v
    BY <1>2, <2>1, <2>2, Valued
  <2>4. ASSUME NEW t, t # Text[k], NEW j \in Slots(m), Text[m.keys[j]] = t
        PROVE  ValueOf(p, t) = ValueOf(m, t)
    <3>1. j # i /\ p.keys[j] = m.keys[j] /\ p.vals[j] = m.vals[j] /\ j \in Slots(p)
      BY <2>1, <2>2, <2>4
    <3>. QED  BY <1>2, <2>4, <3>1, Valued
  <2>5. ASSUME NEW t, \A j \in Slots(m) : Text[m.keys[j]] # t
        PROVE  ValueOf(p, t) = ValueOf(m, t)
    BY <1>2, <2>1, <2>2, <2>5, Valued
  <2>. QED  BY <2>3, <2>4, <2>5
<1>4. ASSUME \A i \in Slots(m) : ~Same(m, m.keys[i], k)
      PROVE  \A t : ValueOf(p, t) = IF t = Text[k] THEN v ELSE ValueOf(m, t)
  <2>1. /\ p.count = m.count + 1
        /\ \A j \in Slots(m) : p.keys[j] = m.keys[j] /\ p.vals[j] = m.vals[j]
        /\ p.keys[m.count] = k /\ p.vals[m.count] = v
    BY <1>1, <1>4, AddGood DEF Mapped
  <2>2. Slots(p) = Slots(m) \cup {m.count}
    BY <2>1 DEF Slots, Mapped, Good, IsMap
  <2>3. ValueOf(p, Text[k]) = v
    BY <1>2, <2>1, <2>2, Valued
  <2>4. ASSUME NEW t, NEW j \in Slots(m), Text[m.keys[j]] = t
        PROVE  ValueOf(p, t) = ValueOf(m, t)
    BY <1>2, <2>1, <2>2, <2>4, Valued
  <2>5. ASSUME NEW t, t # Text[k], \A j \in Slots(m) : Text[m.keys[j]] # t
        PROVE  ValueOf(p, t) = ValueOf(m, t)
    <3>1. \A j \in Slots(p) : Text[p.keys[j]] # t
      BY <2>1, <2>2, <2>5
    <3>. QED  BY <1>2, <2>5, <3>1, Valued
  <2>. QED  BY <2>3, <2>4, <2>5
<1>. QED  BY <1>1, <1>3, <1>4

(* map_delete forgets the value of one text.                               *)
LEMMA DeleteValue ==
  ASSUME NEW V, NEW m, Mapped(m, V), NEW k \in Keys, Distinct(KeysOf(m) \cup {k})
  PROVE  \A t : ValueOf(MapDelete(m, k), t) = IF t = Text[k] THEN Null ELSE ValueOf(m, t)
<1>1. PICK d : d = MapDelete(m, k)
  OBVIOUS
<1>2. /\ Good(d, V) /\ d.equal = m.equal /\ KeysOf(d) \subseteq KeysOf(m)
      /\ \A j \in Slots(d) : /\ ~Same(m, d.keys[j], k)
                            /\ \E i \in Slots(m) : PairAt(d, j) = PairAt(m, i)
      /\ \A i \in Slots(m) : ~Same(m, m.keys[i], k) =>
                             \E j \in Slots(d) : PairAt(d, j) = PairAt(m, i)
  BY <1>1, DeleteGood, DeleteKeys DEF Mapped
<1>3. Mapped(d, V)
  BY <1>2 DEF Mapped, Distinct
<1>4. \A j \in Slots(d) : Text[d.keys[j]] # Text[k]
  BY <1>2 DEF Same, Mapped, Distinct, KeysOf
<1>5. ASSUME NEW t, t # Text[k], NEW i \in Slots(m), Text[m.keys[i]] = t
      PROVE  ValueOf(d, t) = ValueOf(m, t)
  <2>1. ~Same(m, m.keys[i], k)
    BY <1>5 DEF Same, Mapped
  <2>2. PICK j \in Slots(d) : PairAt(d, j) = PairAt(m, i)
    BY <1>2, <2>1
  <2>3. d.keys[j] = m.keys[i] /\ d.vals[j] = m.vals[i]
    BY <2>2 DEF PairAt
  <2>. QED  BY <1>3, <1>5, <2>3, Valued
<1>6. ASSUME NEW t, \A i \in Slots(m) : Text[m.keys[i]] # t
      PROVE  ValueOf(d, t) = ValueOf(m, t)
  <2>1. \A j \in Slots(d) : Text[d.keys[j]] # t
    BY <1>2, <1>6 DEF PairAt
  <2>. QED  BY <1>3, <1>6, <2>1, Valued
<1>. QED  BY <1>1, <1>3, <1>4, <1>5, <1>6, Valued

(* No two keys of a context are one text, whatever interned symbol joins.  *)
LEMMA InternedOnce ==
  ASSUME Inv
  PROVE  /\ \A c \in Contexts : Mapped(vars[c], Values)
         /\ Mapped(funcs, Functions)
         /\ \A s \in Interned : /\ \A c \in Contexts : Distinct(KeysOf(vars[c]) \cup {s})
                                /\ Distinct(KeysOf(funcs) \cup {s})
<1>1. Distinct(Interned)
  BY DEF Inv, MapsGood, Good, OnlyOnce, Same, Distinct, Interned, KeysOf
<1>2. \A S : S \subseteq Interned => Distinct(S)
  BY <1>1 DEF Distinct
<1>. QED  BY <1>2 DEF Inv, MapsGood, NamesInterned, Mapped

-------------------------------------------------------------------------------
(* The refinement.                                                         *)

VarsOf == [c \in Contexts |-> [t \in Texts |-> ValueOf(vars[c], t)]]
FnsOf == [t \in Texts |-> ValueOf(funcs, t)]
Seen == <<VarsOf, FnsOf, chain, asked>>

(* A new map has no value for any text.                                    *)
LEMMA EmptyValue == \A t : ValueOf(MapCreate("ptr"), t) = Null
BY DEF ValueOf, Named, MapCreate, Slots

(* The first context is the first of Scopes.                               *)
LEMMA RefinesInit == Init => ScopesOf!Init
<1>. SUFFICES ASSUME Init PROVE ScopesOf!Init
  OBVIOUS
<1>1. PICK s \in Keys, v \in Values, f \in Functions :
        /\ vars = [c \in Contexts |-> IF c = Global THEN MapPut(MapCreate("ptr"), s, v)
                                      ELSE MapCreate("ptr")]
        /\ funcs = MapPut(MapCreate("ptr"), s, f)
  BY DEF Init
<1>2. ASSUME NEW V, NEW w \in V, NEW t
      PROVE  ValueOf(MapPut(MapCreate("ptr"), s, w), t) = IF t = Text[s] THEN w ELSE Null
  <2>1. PICK m : m = MapCreate("ptr")
    OBVIOUS
  <2>2. Mapped(m, V) /\ Distinct(KeysOf(m) \cup {s})
    BY <2>1, CreateGood DEF Mapped, Distinct, KeysOf
  <2>3. \A u : ValueOf(MapPut(m, s, w), u) = IF u = Text[s] THEN w ELSE ValueOf(m, u)
    BY <1>2, <2>2, PutValue
  <2>. QED  BY <2>1, <2>3, EmptyValue
<1>3. Text[s] \in Texts
  BY DEF Texts
<1>4. VarsOf = [c \in Contexts |-> IF c = Global THEN [[t \in Texts |-> Null] EXCEPT ![Text[s]] = v]
                                   ELSE [t \in Texts |-> Null]]
  <2>1. ASSUME NEW c \in Contexts, c = Global
        PROVE  [t \in Texts |-> ValueOf(vars[c], t)] = [[t \in Texts |-> Null] EXCEPT ![Text[s]] = v]
    <3>1. \A t \in Texts : ValueOf(vars[c], t) = IF t = Text[s] THEN v ELSE Null
      BY <1>1, <1>2, <2>1
    <3>. QED  BY <1>3, <3>1
  <2>2. ASSUME NEW c \in Contexts, c # Global
        PROVE  [t \in Texts |-> ValueOf(vars[c], t)] = [t \in Texts |-> Null]
    BY <1>1, <2>2, EmptyValue
  <2>. QED  BY <2>1, <2>2 DEF VarsOf
<1>5. FnsOf = [[t \in Texts |-> Null] EXCEPT ![Text[s]] = f]
  <2>1. \A t \in Texts : ValueOf(funcs, t) = IF t = Text[s] THEN f ELSE Null
    BY <1>1, <1>2
  <2>. QED  BY <1>3, <2>1 DEF FnsOf
<1>6. chain = <<Global>> /\ asked = << >>
  BY DEF Init, Nothing
<1>7. [c \in Contexts |-> [t \in Texts |-> ValueOf(vars[c], t)]] =
      [c \in Contexts |-> IF c = Global THEN [ScopesOf!Empty EXCEPT ![Text[s]] = v] ELSE ScopesOf!Empty]
  BY <1>4 DEF VarsOf, ScopesOf!Empty
<1>8. [t \in Texts |-> ValueOf(funcs, t)] = [ScopesOf!Empty EXCEPT ![Text[s]] = f]
  BY <1>5 DEF FnsOf, ScopesOf!Empty
<1>9. \E u \in Texts, w \in Values, g \in Functions :
        /\ [c \in Contexts |-> [t \in Texts |-> ValueOf(vars[c], t)]] =
           [c \in Contexts |-> IF c = Global THEN [ScopesOf!Empty EXCEPT ![u] = w] ELSE ScopesOf!Empty]
        /\ [t \in Texts |-> ValueOf(funcs, t)] = [ScopesOf!Empty EXCEPT ![u] = g]
  <2>. DEFINE a == [c \in Contexts |-> [t \in Texts |-> ValueOf(vars[c], t)]]
              b == [t \in Texts |-> ValueOf(funcs, t)]
              P(u, w) == [c \in Contexts |-> IF c = Global THEN [ScopesOf!Empty EXCEPT ![u] = w]
                                              ELSE ScopesOf!Empty]
              R(u, g) == [ScopesOf!Empty EXCEPT ![u] = g]
  <2>1. a = P(Text[s], v) /\ b = R(Text[s], f)
    BY <1>7, <1>8, Zenon
  <2>. HIDE DEF a, b, P, R
  <2>2. \E u \in Texts, w \in Values, g \in Functions : a = P(u, w) /\ b = R(u, g)
    BY <1>3, <2>1
  <2>. QED  BY <2>2, Zenon DEF a, b, P, R
<1>. QED  BY <1>6, <1>9, Zenon DEF ScopesOf!Init

(* What each action does to the names.                                     *)
LEMMA RefinesStep == Inv /\ [Next]_cvars => [ScopesOf!Next]_Seen
<1>. SUFFICES ASSUME Inv, [Next]_cvars PROVE ScopesOf!Next \/ UNCHANGED Seen
  OBVIOUS
<1>0. /\ \A s \in Keys : Text[s] \in Texts
      /\ \A i \in DOMAIN chain : chain[i] \in Contexts
      /\ Top \in Contexts /\ Level = Len(chain) /\ DOMAIN chain = 1 .. Level /\ Level \in Nat \ {0}
      /\ Interned \subseteq Keys
  <2>1. Interned \subseteq Keys
    BY DEF Inv, MapsGood, Good, IsMap, Interned, KeysOf
  <2>. QED  BY <2>1 DEF Texts, Inv, ChainGood, Top, Level
<1>1. UNCHANGED <<vars, funcs>> => VarsOf' = VarsOf /\ FnsOf' = FnsOf
  BY DEF VarsOf, FnsOf
<1>3. ASSUME NEW s \in Keys, NEW v \in Values, BindVar(s, v)
      PROVE  ScopesOf!Next
  <2>1. /\ s \in Interned /\ vars' = [vars EXCEPT ![Top] = MapPut(vars[Top], s, v)]
        /\ asked' = <<Text[s], v>> /\ funcs' = funcs /\ chain' = chain
    BY <1>3 DEF BindVar, stacks
  <2>2. \A t : ValueOf(MapPut(vars[Top], s, v), t) = IF t = Text[s] THEN v ELSE ValueOf(vars[Top], t)
    <3>1. Mapped(vars[Top], Values) /\ Distinct(KeysOf(vars[Top]) \cup {s})
      BY <1>0, <2>1, InternedOnce
    <3>. QED  BY <3>1, PutValue
  <2>3. \A c \in Contexts : vars'[c] = IF c = Top THEN MapPut(vars[Top], s, v) ELSE vars[c]
    BY <2>1 DEF Inv, MapsGood
  <2>4. VarsOf' = [VarsOf EXCEPT ![Top][Text[s]] = v]
    <3>1. ASSUME NEW c \in Contexts, c = Top
          PROVE  [t \in Texts |-> ValueOf(vars'[c], t)] = [VarsOf[c] EXCEPT ![Text[s]] = v]
      <4>1. \A t \in Texts : ValueOf(vars'[c], t) = IF t = Text[s] THEN v ELSE VarsOf[c][t]
        BY <2>2, <2>3, <3>1 DEF VarsOf
      <4>2. VarsOf[c] = [t \in Texts |-> VarsOf[c][t]]
        BY DEF VarsOf
      <4>. QED  BY <1>0, <4>1, <4>2
    <3>2. ASSUME NEW c \in Contexts, c # Top
          PROVE  [t \in Texts |-> ValueOf(vars'[c], t)] = VarsOf[c]
      BY <2>3, <3>2 DEF VarsOf
    <3>3. VarsOf' = [c \in Contexts |-> [t \in Texts |-> ValueOf(vars'[c], t)]]
      BY DEF VarsOf, Texts
    <3>4. VarsOf = [c \in Contexts |-> VarsOf[c]]
      BY DEF VarsOf
    <3>. QED  BY <1>0, <3>1, <3>2, <3>3, <3>4
  <2>5. FnsOf' = FnsOf
    BY <2>1 DEF FnsOf
  <2>6. ScopesOf!Bind(Text[s], v)
    BY <1>0, <2>1, <2>4, <2>5 DEF ScopesOf!Bind, VarsOf, FnsOf, Top
  <2>. QED  BY <1>0, <2>6 DEF ScopesOf!Next
<1>4. ASSUME NEW s \in Keys, LookupVar(s)
      PROVE  ScopesOf!Next
  <2>1. s \in Interned /\ UNCHANGED <<vars, funcs, chain>>
    BY <1>4 DEF LookupVar, maps, stacks
  <2>2. \A i \in DOMAIN chain : MapGet(vars[chain[i]], s) = VarsOf[chain[i]][Text[s]]
    BY <1>0, <2>1, InternedOnce, GetValue DEF VarsOf
  <2>3. VarsOf' = VarsOf /\ FnsOf' = FnsOf
    BY <1>1, <2>1
  <2>4. \/ \E i \in DOMAIN chain :
             /\ asked' = <<Text[s], VarsOf[chain[i]][Text[s]]>> /\ VarsOf[chain[i]][Text[s]] # Null
             /\ \A j \in DOMAIN chain : j > i => VarsOf[chain[j]][Text[s]] = Null
        \/ asked' = <<Text[s], Null>> /\ \A i \in DOMAIN chain : VarsOf[chain[i]][Text[s]] = Null
    BY <1>4, <2>2 DEF LookupVar, Finds
  <2>5. ScopesOf!Lookup(Text[s])
    BY <2>1, <2>3, <2>4 DEF ScopesOf!Lookup, VarsOf, FnsOf
  <2>. QED  BY <1>0, <2>5 DEF ScopesOf!Next
<1>5. ASSUME NEW s \in Keys, NEW f \in Functions, BindFn(s, f)
      PROVE  ScopesOf!Next
  <2>1. /\ s \in Interned /\ funcs' = MapPut(funcs, s, f)
        /\ asked' = <<Text[s], f>> /\ vars' = vars /\ chain' = chain
    BY <1>5 DEF BindFn, stacks
  <2>2. \A t : ValueOf(funcs', t) = IF t = Text[s] THEN f ELSE ValueOf(funcs, t)
    <3>1. Mapped(funcs, Functions) /\ Distinct(KeysOf(funcs) \cup {s})
      BY <1>0, <2>1, InternedOnce
    <3>. QED  BY <2>1, <3>1, PutValue
  <2>3. FnsOf' = [FnsOf EXCEPT ![Text[s]] = f]
    BY <1>0, <2>2 DEF FnsOf
  <2>4. VarsOf' = VarsOf
    BY <2>1 DEF VarsOf
  <2>5. ScopesOf!BindFn(Text[s], f)
    BY <2>1, <2>3, <2>4 DEF ScopesOf!BindFn, VarsOf, FnsOf
  <2>. QED  BY <1>0, <2>5 DEF ScopesOf!Next
<1>6. ASSUME NEW s \in Keys, UnbindFn(s)
      PROVE  ScopesOf!Next
  <2>1. /\ s \in Interned /\ funcs' = MapDelete(funcs, s)
        /\ asked' = <<Text[s], Null>> /\ vars' = vars /\ chain' = chain
    BY <1>6 DEF UnbindFn, stacks
  <2>2. \A t : ValueOf(funcs', t) = IF t = Text[s] THEN Null ELSE ValueOf(funcs, t)
    BY <1>0, <2>1, InternedOnce, DeleteValue
  <2>3. FnsOf' = [FnsOf EXCEPT ![Text[s]] = Null]
    BY <1>0, <2>2 DEF FnsOf
  <2>4. VarsOf' = VarsOf
    BY <2>1 DEF VarsOf
  <2>5. ScopesOf!UnbindFn(Text[s])
    BY <2>1, <2>3, <2>4 DEF ScopesOf!UnbindFn, VarsOf, FnsOf
  <2>. QED  BY <1>0, <2>5 DEF ScopesOf!Next
<1>7. ASSUME NEW s \in Keys, LookupFn(s)
      PROVE  ScopesOf!Next
  <2>1. s \in Interned /\ asked' = <<Text[s], MapGet(funcs, s)>> /\ UNCHANGED <<vars, funcs, chain>>
    BY <1>7 DEF LookupFn, maps, stacks
  <2>2. MapGet(funcs, s) = FnsOf[Text[s]]
    BY <1>0, <2>1, InternedOnce, GetValue DEF FnsOf
  <2>3. ScopesOf!LookupFn(Text[s])
    BY <1>1, <2>1, <2>2 DEF ScopesOf!LookupFn, VarsOf, FnsOf
  <2>. QED  BY <1>0, <2>3 DEF ScopesOf!Next
<1>8. ASSUME NEW c \in Contexts, NEW inFn \in BOOLEAN, PushContext(c, inFn)
      PROVE  ScopesOf!Next
  <2>1. /\ c \notin live /\ chain' = Append(chain, c) /\ vars' = [vars EXCEPT ![c] = MapCreate("ptr")]
        /\ asked' = Nothing /\ funcs' = funcs
    BY <1>8 DEF PushContext, PushOn
  <2>2. \A i \in DOMAIN chain : chain[i] # c
    BY <2>1 DEF Inv, ChainGood
  <2>3. \A d \in Contexts : vars'[d] = IF d = c THEN MapCreate("ptr") ELSE vars[d]
    BY <2>1 DEF Inv, MapsGood
  <2>4. VarsOf' = [VarsOf EXCEPT ![c] = [t \in Texts |-> Null]]
    <3>1. \A d \in Contexts : [t \in Texts |-> ValueOf(vars'[d], t)] =
                              IF d = c THEN [t \in Texts |-> Null] ELSE VarsOf[d]
      BY <2>3, EmptyValue DEF VarsOf
    <3>2. VarsOf' = [d \in Contexts |-> [t \in Texts |-> ValueOf(vars'[d], t)]]
      BY DEF VarsOf, Texts
    <3>3. VarsOf = [d \in Contexts |-> VarsOf[d]]
      BY DEF VarsOf
    <3>. QED  BY <3>1, <3>2, <3>3
  <2>5. FnsOf' = FnsOf
    BY <2>1 DEF FnsOf
  <2>6. ScopesOf!EnterNew(c)
    BY <2>1, <2>2, <2>4, <2>5 DEF ScopesOf!EnterNew, ScopesOf!Empty, VarsOf, FnsOf, Nothing
  <2>. QED  BY <2>6 DEF ScopesOf!Next
<1>9. ASSUME NEW c \in Contexts, PushExisting(c)
      PROVE  ScopesOf!Next
  <2>1. chain' = Append(chain, c) /\ asked' = Nothing /\ UNCHANGED <<vars, funcs>>
    BY <1>9 DEF PushExisting, PushOn, maps
  <2>2. ScopesOf!Enter(c)
    BY <1>1, <2>1 DEF ScopesOf!Enter, VarsOf, FnsOf, Nothing
  <2>. QED  BY <2>2 DEF ScopesOf!Next
<1>10. ASSUME NEW n \in 1 .. Level, chain' = SubSeq(chain, 1, n), asked' = Nothing, UNCHANGED <<vars, funcs>>
       PROVE  ScopesOf!Next
  <2>1. ScopesOf!Leave(n)
    BY <1>1, <1>10 DEF ScopesOf!Leave, VarsOf, FnsOf, Nothing
  <2>. QED  BY <1>0, <2>1 DEF ScopesOf!Next
<1>11. ASSUME PopContext \/ \E n \in 1 .. Level - 1 : PopToLevel(n)
       PROVE  ScopesOf!Next
  <2>1. PICK n \in 1 .. Level : chain' = SubSeq(chain, 1, n)
    BY <1>0, <1>11 DEF PopContext, PopToLevel
  <2>2. asked' = Nothing /\ UNCHANGED <<vars, funcs>>
    BY <1>11 DEF PopContext, PopToLevel, maps
  <2>. QED  BY <1>10, <2>1, <2>2
<1>12. ASSUME \/ \E s \in Keys : Intern(s)
              \/ VmUnlock \/ VmLock \/ Iteration
       PROVE  ScopesOf!Next
  <2>1. UNCHANGED <<vars, funcs, chain>> /\ asked' = Nothing
    BY <1>12 DEF Iteration, Intern, VmUnlock, VmLock, ScanVars, ScanFns, ScanSymbols, Scan,
       GcLock, GcFns, GcSymbols, GcUnlock, Begin, maps, stacks
  <2>2. ScopesOf!Other
    BY <1>1, <2>1 DEF ScopesOf!Other, VarsOf, FnsOf, Nothing
  <2>. QED  BY <2>2 DEF ScopesOf!Next
<1>13. CASE UNCHANGED cvars
  BY <1>1, <1>13 DEF cvars, maps, stacks, Seen
<1>. QED
  BY <1>3, <1>4, <1>5, <1>6, <1>7, <1>8, <1>9, <1>11, <1>12, <1>13 DEF Next, Machine

(* Whatever the maps do with their slots, and although they compare        *)
(* addresses, names behave as Scopes says.                                 *)
THEOREM Refinement == Spec => Implements
<1>1. Init => ScopesOf!Init
  BY RefinesInit
<1>2. Inv /\ [Next]_cvars => [ScopesOf!Next]_ScopesOf!scopes
  BY RefinesStep DEF ScopesOf!scopes, Seen, VarsOf, FnsOf
<1>. QED  BY <1>1, <1>2, Invariant, PTL DEF Spec, Implements, ScopesOf!Spec


===============================================================================
