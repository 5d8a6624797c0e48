------------------------------ MODULE VmProofs ------------------------------
(***************************************************************************)
(* Proofs about Vm: every physical page has one use at every moment, and   *)
(* page tables with lazy allocation implement AddressSpaces, for any       *)
(* memory, any size of pages and tables and any number of processes.       *)
(***************************************************************************)
EXTENDS Vm, FiniteSetTheorems, WellFoundedInduction, TLAPS

-----------------------------------------------------------------------------
(* Division with remainder, and the least member of a set.                 *)

\* Division with remainder.
LEMMA ModSplit ==
  ASSUME NEW m \in Nat \ {0}, NEW x \in Int
  PROVE  /\ x % m \in 0 .. m - 1
         /\ x \div m \in Int
         /\ x = (x \div m) * m + (x % m)
  OBVIOUS

\* Induction, as the existence of a least element.
NatLess == {ss \in Nat \X Nat : ss[1] < ss[2]}

LEMMA SmallestOf ==
  ASSUME NEW S \in SUBSET Nat, S # {}
  PROVE  \E low \in S : \A j \in S : low <= j
<1>1. IsWellFoundedOn(NatLess, Nat)
  BY NatLessThanWellFounded DEF OpToRel, NatLess
<1>2. \E low \in S : \A j \in S : <<j, low>> \notin NatLess
  BY <1>1, WFMin
<1>3. PICK low \in S : \A j \in S : <<j, low>> \notin NatLess
  BY <1>2
<1>4. \A j \in S : <<j, low>> \in Nat \X Nat /\ <<j, low>>[1] = j /\ <<j, low>>[2] = low
  OBVIOUS
<1>5. \A j \in S : ~(j < low)
  BY <1>3, <1>4 DEF NatLess
<1>6. QED
  BY <1>5

-----------------------------------------------------------------------------

LEMMA Sizes ==
  /\ NPages \in Nat /\ MaxPages \in Nat /\ Fanout \in Nat \ {0} /\ PGSIZE \in Nat \ {0}
  /\ NPages >= 3 /\ MaxPages >= 3 /\ SbrkSizes \subseteq Int /\ InitProc \in Procs
  BY VmAssumption

\* Products, which the provers do not order by themselves.
LEMMA TimesMono ==
  ASSUME NEW a \in Int, NEW b \in Int, NEW m \in Nat \ {0}
  PROVE  a <= b <=> a * m <= b * m
  OBVIOUS

\* n units fit in k pages if and only if they fit in k * PGSIZE units.
LEMMA RoundUp ==
  ASSUME NEW n \in Nat
  PROVE  /\ PGROUNDUP(n) \in Nat
         /\ \A k \in Nat : PGROUNDUP(n) <= k <=> n <= k * PGSIZE
<1> DEFINE q == (n + PGSIZE - 1) \div PGSIZE
           r == (n + PGSIZE - 1) % PGSIZE
<1>0. PGSIZE \in Nat \ {0}
  BY Sizes
<1>1. q \in Int /\ r \in 0 .. PGSIZE - 1 /\ n + PGSIZE - 1 = q * PGSIZE + r
  BY <1>0, ModSplit
<1>2. PGROUNDUP(n) = q
  BY DEF PGROUNDUP
<1> HIDE DEF q, r
<1>3. n <= q * PGSIZE /\ n > q * PGSIZE - PGSIZE
  BY <1>0, <1>1
<1>4. (q - 1) * PGSIZE = q * PGSIZE - PGSIZE
  BY <1>0, <1>1
<1>5. ASSUME NEW k \in Int, q <= k PROVE n <= k * PGSIZE
  <2>1. q * PGSIZE <= k * PGSIZE
    BY <1>0, <1>1, <1>5, TimesMono
  <2>2. q * PGSIZE \in Int /\ k * PGSIZE \in Int
    BY <1>0, <1>1
  <2>3. QED
    BY <1>3, <2>1, <2>2
<1>6. ASSUME NEW k \in Int, n <= k * PGSIZE PROVE q <= k
  <2>1. q * PGSIZE \in Int /\ k * PGSIZE \in Int /\ PGSIZE \in Int
    BY <1>0, <1>1
  <2>2. (q - 1) * PGSIZE < k * PGSIZE
    BY <1>3, <1>4, <1>6, <2>1
  <2>3. ~(k <= q - 1)
    BY <1>0, <1>1, <2>1, <2>2, TimesMono
  <2>4. QED
    BY <1>1, <2>3
<1>7. q \in Nat
  <2>1. CASE q <= -1
    <3>1. n <= (-1) * PGSIZE
      BY <1>5, <2>1
    <3>2. QED
      BY <1>0, <3>1
  <2>2. QED
    BY <1>1, <2>1
<1>8. QED
  BY <1>2, <1>5, <1>6, <1>7

LEMMA RoundUpFacts ==
  /\ PGROUNDUP(0) = 0
  /\ \A k \in Nat : PGROUNDUP(k * PGSIZE) = k /\ k * PGSIZE \in Nat
  /\ \A m, n \in Nat : m <= n => PGROUNDUP(m) <= PGROUNDUP(n)
<1>0. PGSIZE \in Nat \ {0}
  BY Sizes
<1>1. ASSUME NEW k \in Nat PROVE PGROUNDUP(k * PGSIZE) = k /\ k * PGSIZE \in Nat
  <2>1. k * PGSIZE \in Nat
    BY <1>0
  <2>2. PGROUNDUP(k * PGSIZE) <= k
    BY <2>1, RoundUp
  <2>3. CASE PGROUNDUP(k * PGSIZE) <= k - 1 /\ k - 1 \in Nat
    <3>1. k * PGSIZE <= (k - 1) * PGSIZE
      BY <2>1, <2>3, RoundUp
    <3>2. QED
      BY <1>0, <3>1, TimesMono
  <2>4. PGROUNDUP(k * PGSIZE) \in Nat
    BY <2>1, RoundUp
  <2>5. QED
    BY <2>1, <2>2, <2>3, <2>4
<1>2. ASSUME NEW m \in Nat, NEW n \in Nat, m <= n PROVE PGROUNDUP(m) <= PGROUNDUP(n)
  <2>1. PGROUNDUP(n) \in Nat /\ PGROUNDUP(n) * PGSIZE \in Nat
    BY <1>0, RoundUp
  <2>2. n <= PGROUNDUP(n) * PGSIZE
    BY <2>1, RoundUp
  <2>3. m <= PGROUNDUP(n) * PGSIZE
    BY <1>2, <2>1, <2>2
  <2>4. QED
    BY <2>1, <2>3, RoundUp
<1>3. 0 * PGSIZE = 0
  BY <1>0
<1>4. QED
  BY <1>1, <1>2, <1>3

\* Every user page has a table.
LEMMA TableOfType ==
  ASSUME NEW v \in UserPages
  PROVE  TableOf(v) \in Tables
<1> DEFINE a == (v - 1) \div Fanout
           b == (MaxPages + Fanout - 1) \div Fanout
           r == (v - 1) % Fanout
           s == (MaxPages + Fanout - 1) % Fanout
<1>0. Fanout \in Nat \ {0} /\ MaxPages \in Nat /\ v \in Nat /\ 1 <= v /\ v <= MaxPages
  BY Sizes DEF UserPages
<1>1. a \in Int /\ r \in 0 .. Fanout - 1 /\ v - 1 = a * Fanout + r
  BY <1>0, ModSplit
<1>2. b \in Int /\ s \in 0 .. Fanout - 1 /\ MaxPages + Fanout - 1 = b * Fanout + s
  <2>1. MaxPages + Fanout - 1 \in Int
    BY <1>0
  <2>2. QED
    BY <1>0, <2>1, ModSplit
<1> HIDE DEF a, b, r, s
<1>3. a * Fanout \in Int /\ b * Fanout \in Int /\ (a + 1) * Fanout = a * Fanout + Fanout /\ (-1) * Fanout = -Fanout
  BY <1>0, <1>1, <1>2
<1>4. (-1) * Fanout < a * Fanout
  BY <1>0, <1>1, <1>3
<1>5. ~(a <= -1)
  BY <1>0, <1>1, <1>3, <1>4, TimesMono
<1>6. (a + 1) * Fanout < b * Fanout + Fanout
  BY <1>0, <1>1, <1>2, <1>3
<1>7. (b + 1) * Fanout = b * Fanout + Fanout
  BY <1>0, <1>2
<1>8. ~(b + 1 <= a + 1)
  BY <1>0, <1>1, <1>2, <1>3, <1>6, <1>7, TimesMono
<1>9. QED
  BY <1>1, <1>2, <1>5, <1>8 DEF TableOf, Tables, a, b

-----------------------------------------------------------------------------
(* kalloc(): the first pages of the free list.                             *)

\* g is the k-th smallest page of F.
IsNth(F, k, g) == g \in F /\ Cardinality({h \in F : h < g}) = k - 1

LEMMA FreeFinite ==
  ASSUME NEW F \in SUBSET Pages
  PROVE  /\ IsFiniteSet(F) /\ Cardinality(F) \in Nat
         /\ \A g \in Pages : g \in Nat
<1>1. IsFiniteSet(Pages)
  BY Sizes, FS_Interval DEF Pages
<1>2. IsFiniteSet(F)
  BY <1>1, FS_Subset
<1>3. \A g \in Pages : g \in Nat
  BY Sizes DEF Pages
<1>4. QED
  BY <1>2, <1>3, FS_CardinalityType

LEMMA FirstThree ==
  ASSUME NEW F \in SUBSET Pages
  PROVE  /\ Cardinality(F) >= 1 => \E g \in F : IsNth(F, 1, g)
         /\ Cardinality(F) >= 2 => \E g \in F : IsNth(F, 2, g)
         /\ Cardinality(F) >= 3 => \E g \in F : IsNth(F, 3, g)
<1>0. IsFiniteSet(F) /\ Cardinality(F) \in Nat /\ F \in SUBSET Nat /\ \A h \in F : h \in Nat
  BY FreeFinite
<1>1. ASSUME Cardinality(F) >= 1
      PROVE  \E a \in F : \A h \in F : a <= h
  BY <1>0, <1>1, FS_EmptySet, SmallestOf
<1>2. ASSUME NEW a \in F, \A h \in F : a <= h PROVE IsNth(F, 1, a)
  <2>0. \A h \in F : ~(h < a)
    BY <1>0, <1>2
  <2>1. {h \in F : h < a} = {}
    BY <2>0
  <2>2. QED
    BY <2>1, FS_EmptySet DEF IsNth
<1>3. ASSUME NEW a \in F, \A h \in F : a <= h, Cardinality(F) >= 2
      PROVE  \E b \in F \ {a} : (\A h \in F \ {a} : b <= h) /\ IsNth(F, 2, b)
  <2>1. Cardinality(F \ {a}) = Cardinality(F) - 1 /\ IsFiniteSet(F \ {a})
    BY <1>0, FS_RemoveElement
  <2>2. F \ {a} # {}
    BY <1>0, <1>3, <2>1, FS_EmptySet
  <2>3. PICK b \in F \ {a} : \A h \in F \ {a} : b <= h
    BY <1>0, <2>2, SmallestOf
  <2>4. \A h \in F : h < b <=> h = a
    BY <1>0, <1>3, <2>3
  <2>5. {h \in F : h < b} = {a}
    BY <2>4
  <2>6. Cardinality({h \in F : h < b}) = 2 - 1
    BY <2>5, FS_Singleton
  <2>7. QED
    BY <2>3, <2>6 DEF IsNth
<1>4. ASSUME NEW a \in F, \A h \in F : a <= h, NEW b \in F \ {a}, \A h \in F \ {a} : b <= h, Cardinality(F) >= 3
      PROVE  \E c \in F : IsNth(F, 3, c)
  <2> DEFINE G == (F \ {a}) \ {b}
  <2>1. Cardinality(F \ {a}) = Cardinality(F) - 1 /\ IsFiniteSet(F \ {a})
    BY <1>0, FS_RemoveElement
  <2>2. Cardinality(G) = Cardinality(F \ {a}) - 1
    BY <2>1, FS_RemoveElement
  <2>3. G # {}
    BY <1>0, <1>4, <2>1, <2>2, FS_EmptySet
  <2>4. PICK c \in G : \A h \in G : c <= h
    BY <1>0, <2>3, SmallestOf
  <2>5. \A h \in F : h < c <=> h = a \/ h = b
    BY <1>0, <1>4, <2>4
  <2>6. {h \in F : h < c} = {a} \cup {b}
    BY <1>4, <2>5
  <2>7. IsFiniteSet({a}) /\ Cardinality({a}) = 1 /\ b \notin {a}
    BY <1>4, FS_Singleton
  <2>8. Cardinality({a} \cup {b}) = 1 + 1
    BY <2>7, FS_AddElement
  <2>9. Cardinality({h \in F : h < c}) = 3 - 1
    BY <2>6, <2>8
  <2>10. QED
    BY <2>4, <2>9 DEF IsNth
<1>5. QED
  BY <1>0, <1>1, <1>2, <1>3, <1>4

\* kalloc() gives out free pages, and a step that takes several takes different ones.
LEMMA NthFree ==
  ASSUME TypeOK
  PROVE  /\ Cardinality(free) >= 1 => Nth(1) \in free
         /\ Cardinality(free) >= 2 => Nth(2) \in free /\ Nth(2) # Nth(1)
         /\ Cardinality(free) >= 3 => Nth(3) \in free /\ Nth(3) # Nth(1) /\ Nth(3) # Nth(2)
<1>1. free \in SUBSET Pages /\ Cardinality(free) \in Nat
  BY FreeFinite DEF TypeOK
<1>2. \A k : (\E g \in free : IsNth(free, k, g)) => IsNth(free, k, Nth(k))
  BY DEF Nth, IsNth
<1>3. /\ Cardinality(free) >= 1 => IsNth(free, 1, Nth(1))
      /\ Cardinality(free) >= 2 => IsNth(free, 2, Nth(2))
      /\ Cardinality(free) >= 3 => IsNth(free, 3, Nth(3))
  BY <1>1, <1>2, FirstThree
<1>4. QED
  BY <1>1, <1>3 DEF IsNth

-----------------------------------------------------------------------------
(* Page tables.                                                            *)

LEMMA NoTableFacts ==
  /\ NoTable \in Table /\ Tree(NoTable) /\ Held(NoTable) = {} /\ Mapped(NoTable) = {}
<1>1. NoTable \in Table
  BY DEF NoTable, Table, UserPages
<1>2. /\ NoTable.root = NoPage /\ NoTable.top = NoPage
      /\ \A a \in Tables : NoTable.tab[a] = NoPage
      /\ \A v \in UserPages : NoTable.pte[v] = NoPage
      /\ DOMAIN NoTable.tab = Tables
  BY DEF NoTable, UserPages
<1>3. Leaves(NoTable, UserPages) = {} /\ freewalk(NoTable) = {}
  BY <1>2 DEF Leaves, freewalk, Range
<1>4. QED
  BY <1>1, <1>2, <1>3 DEF Tree, Held, Mapped

\* The parts of a table.
LEMMA TableFacts ==
  ASSUME NEW t \in Table
  PROVE  /\ t.root \in Pages \cup {NoPage} /\ t.top \in Pages \cup {NoPage}
         /\ t.tab \in [Tables -> Pages \cup {NoPage}]
         /\ t.pte \in [UserPages -> Pages \cup {NoPage}]
         /\ t.flags \in [UserPages -> SUBSET {"u", "w"}]
         /\ NoPage \notin Pages
         /\ \A V : Leaves(t, V) = {t.pte[v] : v \in V} \ {NoPage}
         /\ Leaves(t, UserPages) = {t.pte[v] : v \in Mapped(t)}
         /\ freewalk(t) = ({t.root, t.top} \cup {t.tab[a] : a \in Tables}) \ {NoPage}
         /\ Held(t) \subseteq Pages /\ Leaves(t, UserPages) \subseteq Held(t)
<1>1. /\ t.root \in Pages \cup {NoPage} /\ t.top \in Pages \cup {NoPage}
      /\ t.tab \in [Tables -> Pages \cup {NoPage}]
      /\ t.pte \in [UserPages -> Pages \cup {NoPage}]
      /\ t.flags \in [UserPages -> SUBSET {"u", "w"}]
  BY DEF Table
<1>2. NoPage \notin Pages
  BY Sizes DEF Pages, NoPage
<1>3. freewalk(t) = ({t.root, t.top} \cup {t.tab[a] : a \in Tables}) \ {NoPage}
  BY <1>1 DEF freewalk, Range
<1>4. Leaves(t, UserPages) = {t.pte[v] : v \in Mapped(t)}
  BY <1>1 DEF Leaves, Mapped
<1>5. Held(t) \subseteq Pages /\ Leaves(t, UserPages) \subseteq Held(t)
  BY <1>1, <1>2, <1>3, <1>4 DEF Held, Mapped
<1>6. QED
  BY <1>1, <1>2, <1>3, <1>4, <1>5 DEF Leaves

\* mappages() takes one or two free pages into the table and keeps it a tree.
LEMMA MapPage ==
  ASSUME TypeOK, NEW t \in Table, Tree(t), Held(t) \cap free = {}, NEW v \in UserPages, t.pte[v] = NoPage,
         Cardinality(free) >= Needs(t, v), NEW f \in SUBSET {"u", "w"}
  PROVE  LET m == mappages(t, v, f) IN
         /\ m \in Table /\ Tree(m)
         /\ Taken(t, v) \subseteq free /\ Held(m) = Held(t) \cup Taken(t, v)
         /\ Nth(1) \in Taken(t, v) /\ m.pte = [t.pte EXCEPT ![v] = Nth(1)]
         /\ Mapped(m) = Mapped(t) \cup {v}
<1> DEFINE m == mappages(t, v, f)
           a == TableOf(v)
<1>1. a \in Tables
  BY TableOfType
<1>2. Needs(t, v) = (IF t.tab[a] = NoPage THEN 2 ELSE 1) /\ Cardinality(free) \in Nat
  BY FreeFinite DEF Needs, TypeOK
<1>3. Nth(1) \in free /\ Nth(1) \in Pages
  BY <1>2, NthFree DEF TypeOK
<1>4. t.tab[a] = NoPage => Nth(2) \in free /\ Nth(2) \in Pages /\ Nth(2) # Nth(1)
  BY <1>2, NthFree DEF TypeOK
<1>5. Taken(t, v) = IF t.tab[a] = NoPage THEN {Nth(1), Nth(2)} ELSE {Nth(1)}
  <2>1. CASE t.tab[a] = NoPage
    <3>1. 1 .. Needs(t, v) = {1, 2}
      BY <1>2, <2>1
    <3>2. QED
      BY <2>1, <3>1 DEF Taken
  <2>2. CASE t.tab[a] # NoPage
    <3>1. 1 .. Needs(t, v) = {1}
      BY <1>2, <2>2
    <3>2. QED
      BY <2>2, <3>1 DEF Taken
  <2>3. QED
    BY <2>1, <2>2
<1>6. /\ m.root = t.root /\ m.top = t.top
      /\ m.pte = [t.pte EXCEPT ![v] = Nth(1)]
      /\ m.tab = [t.tab EXCEPT ![a] = IF t.tab[a] = NoPage THEN Nth(2) ELSE t.tab[a]]
      /\ m.flags = [t.flags EXCEPT ![v] = f]
      /\ m = [root |-> m.root, top |-> m.top, tab |-> m.tab, pte |-> m.pte, flags |-> m.flags]
  BY DEF mappages
<1>7. m \in Table
  <2>1. m.tab \in [Tables -> Pages \cup {NoPage}]
    BY <1>1, <1>4, <1>6, TableFacts
  <2>2. m.pte \in [UserPages -> Pages \cup {NoPage}]
    BY <1>3, <1>6, TableFacts
  <2>3. m.flags \in [UserPages -> SUBSET {"u", "w"}]
    BY <1>6, TableFacts
  <2>4. m.root \in Pages \cup {NoPage} /\ m.top \in Pages \cup {NoPage}
    BY <1>6, TableFacts
  <2> HIDE DEF m
  <2>5. QED
    BY <1>6, <2>1, <2>2, <2>3, <2>4 DEF Table
<1> HIDE DEF m, a
<1>8. Mapped(m) = Mapped(t) \cup {v}
  BY <1>3, <1>6, TableFacts DEF Mapped
<1>9. Leaves(m, UserPages) = Leaves(t, UserPages) \cup {Nth(1)}
  <2>1. Leaves(m, UserPages) = {m.pte[w] : w \in Mapped(m)} /\ Leaves(t, UserPages) = {t.pte[w] : w \in Mapped(t)}
    BY <1>7, TableFacts
  <2>2. m.pte[v] = Nth(1) /\ v \notin Mapped(t) /\ \A w \in Mapped(t) : m.pte[w] = t.pte[w]
    BY <1>6, TableFacts DEF Mapped
  <2>3. QED
    BY <1>8, <2>1, <2>2
<1>10. freewalk(m) = freewalk(t) \cup (IF t.tab[a] = NoPage THEN {Nth(2)} ELSE {})
  <2>1. m.tab[a] = (IF t.tab[a] = NoPage THEN Nth(2) ELSE t.tab[a]) /\ \A b \in Tables \ {a} : m.tab[b] = t.tab[b]
    BY <1>1, <1>6, TableFacts
  <2>2. freewalk(m) = ({t.root, t.top} \cup {m.tab[b] : b \in Tables}) \ {NoPage}
    BY <1>6, <1>7, TableFacts
  <2>3. t.tab[a] = NoPage => Nth(2) # NoPage
    BY <1>4, TableFacts
  <2>4. QED
    BY <1>1, <2>1, <2>2, <2>3, TableFacts
<1>11. Held(m) = Held(t) \cup Taken(t, v)
  BY <1>5, <1>9, <1>10 DEF Held
<1>12. Tree(m)
  <2>1. \A g \in free : g \notin Leaves(t, UserPages) /\ g \notin freewalk(t) /\ g # NoPage
    BY TableFacts DEF Held, TypeOK
  <2>2. m.root # NoPage => m.root # m.top
    BY <1>6 DEF Tree
  <2>3. \A b \in Tables \ {a} : m.tab[b] = t.tab[b]
    BY <1>1, <1>6, TableFacts
  <2>4. m.tab[a] = (IF t.tab[a] = NoPage THEN Nth(2) ELSE t.tab[a]) /\ m.tab[a] # NoPage
    BY <1>1, <1>4, <1>6, <2>1, TableFacts
  <2>5. \A b \in Tables : t.tab[b] # NoPage => t.tab[b] \in freewalk(t)
    BY TableFacts
  <2>6. t.root \in freewalk(t) \cup {NoPage} /\ t.top \in freewalk(t) \cup {NoPage}
    BY TableFacts
  <2>7. \A b, c \in Tables : m.tab[b] # NoPage /\ m.tab[b] = m.tab[c] => b = c
    BY <1>1, <1>4, <2>1, <2>3, <2>4, <2>5 DEF Tree
  <2>8. \A b \in Tables : m.tab[b] # NoPage => m.tab[b] # m.root /\ m.tab[b] # m.top
    BY <1>1, <1>4, <1>6, <2>1, <2>3, <2>4, <2>6 DEF Tree
  <2>9. \A w \in UserPages : t.pte[w] # NoPage => t.pte[w] \in Leaves(t, UserPages)
    BY TableFacts DEF Mapped
  <2>10. \A w \in UserPages : m.pte[w] = IF w = v THEN Nth(1) ELSE t.pte[w]
    BY <1>6, TableFacts
  <2>11. \A w, x \in UserPages : m.pte[w] # NoPage /\ m.pte[w] = m.pte[x] => w = x
    BY <1>3, <2>1, <2>9, <2>10 DEF Tree
  <2>12. Leaves(m, UserPages) \cap freewalk(m) = {}
    BY <1>3, <1>4, <1>9, <1>10, <2>1 DEF Tree
  <2>13. \A w \in UserPages : m.pte[w] # NoPage => m.tab[TableOf(w)] # NoPage
    <3>1. \A w \in UserPages : TableOf(w) \in Tables
      BY TableOfType
    <3>2. QED
      BY <2>3, <2>4, <2>10, <3>1 DEF Tree, a
  <2>14. QED
    BY <2>2, <2>7, <2>8, <2>11, <2>12, <2>13 DEF Tree
<1>13. Taken(t, v) \subseteq free /\ Nth(1) \in Taken(t, v)
  BY <1>3, <1>4, <1>5
<1>14. QED
  BY <1>6, <1>7, <1>8, <1>11, <1>12, <1>13 DEF m

\* uvmunmap() gives up exactly the leaves it frees.
LEMMA Unmap ==
  ASSUME NEW t \in Table, Tree(t), NEW V \in SUBSET UserPages
  PROVE  LET u == uvmunmap(t, V) IN
         /\ u \in Table /\ Tree(u) /\ Held(u) = Held(t) \ Leaves(t, V) /\ Leaves(t, V) \subseteq Held(t)
         /\ Mapped(u) = Mapped(t) \ V /\ \A v \in UserPages \ V : u.pte[v] = t.pte[v]
         /\ freewalk(u) = freewalk(t)
<1> DEFINE u == uvmunmap(t, V)
<1>1. /\ u.root = t.root /\ u.top = t.top /\ u.tab = t.tab
      /\ u.pte = [v \in UserPages |-> IF v \in V THEN NoPage ELSE t.pte[v]]
      /\ u.flags = [v \in UserPages |-> IF v \in V THEN {} ELSE t.flags[v]]
      /\ u = [root |-> u.root, top |-> u.top, tab |-> u.tab, pte |-> u.pte, flags |-> u.flags]
  BY DEF uvmunmap, UserPages
<1>2. u \in Table
  <2>1. u.pte \in [UserPages -> Pages \cup {NoPage}] /\ u.flags \in [UserPages -> SUBSET {"u", "w"}]
    BY <1>1, TableFacts
  <2> HIDE DEF u
  <2>2. QED
    BY <1>1, <2>1, TableFacts DEF Table
<1> HIDE DEF u
<1>3. Mapped(u) = Mapped(t) \ V
  BY <1>1 DEF Mapped
<1>4. freewalk(u) = freewalk(t)
  BY <1>1 DEF freewalk
<1>5. Leaves(u, UserPages) = Leaves(t, UserPages) \ Leaves(t, V) /\ Leaves(t, V) \subseteq Leaves(t, UserPages)
  <2>1. Leaves(u, UserPages) = {t.pte[v] : v \in UserPages \ V} \ {NoPage}
    BY <1>1, <1>2, TableFacts
  <2>2. \A v, w \in UserPages : t.pte[v] # NoPage /\ t.pte[v] = t.pte[w] => v = w
    BY DEF Tree
  <2>3. QED
    BY <2>1, <2>2, TableFacts
<1>6. Held(u) = Held(t) \ Leaves(t, V) /\ Leaves(t, V) \subseteq Held(t)
  BY <1>4, <1>5 DEF Held, Tree
<1>7. Tree(u)
  BY <1>1, <1>4, <1>5 DEF Tree
<1>8. QED
  BY <1>1, <1>2, <1>3, <1>4, <1>6, <1>7 DEF u

\* proc_freepagetable() frees all of a table that maps nothing at or above n.
LEMMA FreeAll ==
  ASSUME NEW t \in Table, NEW n \in Nat, Mapped(t) \subseteq 1 .. n
  PROVE  proc_freepagetable(t, n) = Held(t) \/ ~(n <= MaxPages)
<1>1. n <= MaxPages => Leaves(t, 1 .. n) = Leaves(t, UserPages)
  <2> SUFFICES ASSUME n <= MaxPages PROVE Leaves(t, 1 .. n) = Leaves(t, UserPages)
    OBVIOUS
  <2>1. 1 .. n \subseteq UserPages
    BY Sizes DEF UserPages
  <2>2. \A v \in UserPages : t.pte[v] # NoPage => v \in 1 .. n
    BY DEF Mapped
  <2>3. Leaves(t, 1 .. n) \subseteq Leaves(t, UserPages)
    BY <2>1 DEF Leaves
  <2>4. Leaves(t, UserPages) \subseteq Leaves(t, 1 .. n)
    BY <2>2 DEF Leaves
  <2>5. QED
    BY <2>3, <2>4
<1>2. QED
  BY <1>1 DEF proc_freepagetable, uvmfree, Held

\* proc_pagetable(): a table of two pages that maps nothing.
LEMMA EmptyTable ==
  ASSUME NEW a \in Pages, NEW b \in Pages, a # b, NEW t,
         t = [root |-> a, top |-> b, tab |-> NoTable.tab, pte |-> NoTable.pte, flags |-> NoTable.flags]
  PROVE  t \in Table /\ Tree(t) /\ Held(t) = {a, b} /\ Mapped(t) = {}
<1>0. NoPage \notin Pages
  BY Sizes DEF Pages, NoPage
<1>1. t \in Table
  BY NoTableFacts DEF Table
<1>2. /\ t.root = a /\ t.top = b
      /\ \A c \in Tables : t.tab[c] = NoPage
      /\ \A v \in UserPages : t.pte[v] = NoPage
  BY DEF NoTable, UserPages
<1>3. Leaves(t, UserPages) = {}
  BY <1>2 DEF Leaves
<1>4. freewalk(t) = {a, b}
  BY <1>0, <1>1, <1>2, TableFacts
<1>5. QED
  BY <1>0, <1>1, <1>2, <1>3, <1>4 DEF Tree, Held, Mapped

LEMMA NewTable ==
  ASSUME TypeOK, Cardinality(free) >= 2
  PROVE  /\ proc_pagetable \in Table /\ Tree(proc_pagetable)
         /\ Held(proc_pagetable) = {Nth(1), Nth(2)} /\ Mapped(proc_pagetable) = {}
<1>1. Nth(1) \in Pages /\ Nth(2) \in Pages /\ Nth(1) # Nth(2)
  BY NthFree, FreeFinite DEF TypeOK
<1>2. uvmcreate = [root |-> Nth(1), top |-> NoPage, tab |-> NoTable.tab, pte |-> NoTable.pte, flags |-> NoTable.flags]
  <2>1. NoTable = [root |-> NoPage, top |-> NoPage, tab |-> NoTable.tab, pte |-> NoTable.pte, flags |-> NoTable.flags]
    BY DEF NoTable
  <2>2. QED
    BY <2>1 DEF uvmcreate
<1>3. proc_pagetable = [root |-> Nth(1), top |-> Nth(2), tab |-> NoTable.tab, pte |-> NoTable.pte, flags |-> NoTable.flags]
  BY <1>2 DEF proc_pagetable
<1>4. QED
  BY <1>1, <1>3, EmptyTable

-----------------------------------------------------------------------------
(* What a step leaves alone.                                               *)

Local(p) == OwnInv(p) /\ StateInv(p) /\ GrowInv(p) /\ LoadInv(p)

\* The space of one process.
PageOf(p, v) == IF pt[p].pte[v] = NoPage THEN Zero ELSE data[pt[p].pte[v]]
SpaceOf(p) == IF pc[p] \in {"unused", "embryo", "zombie"} THEN <<"none">>
              ELSE [v \in 1 .. PGROUNDUP(sz[p]) |-> PageOf(p, v)]

Same(r) ==
  /\ pt'[r] = pt[r] /\ new'[r] = new[r] /\ sz'[r] = sz[r]
  /\ trapframe'[r] = trapframe[r] /\ argv'[r] = argv[r]
  /\ pc'[r] = pc[r] /\ arg'[r] = arg[r] /\ i'[r] = i[r]

LEMMA SizeFacts ==
  ASSUME TypeOK, NEW p \in Procs
  PROVE  /\ pt[p] \in Table /\ new[p] \in Table
         /\ sz[p] \in Nat /\ PGROUNDUP(sz[p]) \in Nat /\ PGROUNDUP(sz[p]) <= MaxPages
         /\ i[p] \in Nat /\ 1 <= i[p] /\ i[p] <= MaxPages + 1
         /\ MaxPages * PGSIZE \in Nat /\ MaxPages \in Nat
<1>1. MaxPages * PGSIZE \in Nat /\ MaxPages \in Nat
  BY Sizes
<1>2. sz[p] \in Nat /\ sz[p] <= MaxPages * PGSIZE
  BY <1>1 DEF TypeOK
<1>3. PGROUNDUP(sz[p]) \in Nat /\ PGROUNDUP(sz[p]) <= MaxPages
  BY <1>1, <1>2, RoundUp
<1>4. i[p] \in Nat /\ 1 <= i[p] /\ i[p] <= MaxPages + 1
  BY <1>1 DEF TypeOK
<1>5. QED
  BY <1>1, <1>2, <1>3, <1>4 DEF TypeOK

\* A mapped page belongs to the process.
LEMMA MappedOwned ==
  ASSUME TypeOK, NEW p \in Procs
  PROVE  /\ \A v \in UserPages : pt[p].pte[v] # NoPage => pt[p].pte[v] \in Own(p)
         /\ \A v \in UserPages : new[p].pte[v] # NoPage => new[p].pte[v] \in Own(p)
         /\ Own(p) \subseteq Pages
<1>1. pt[p] \in Table /\ new[p] \in Table
  BY SizeFacts
<1>2. Held(pt[p]) \subseteq Pages /\ Held(new[p]) \subseteq Pages
  BY <1>1, TableFacts
<1>3. Frames(p) \subseteq Pages
  BY DEF Frames, TypeOK
<1>4. QED
  BY <1>1, <1>2, <1>3, TableFacts DEF Own, Mapped

LEMMA KeptLocal ==
  ASSUME TypeOK, NEW r \in Procs, Local(r), Same(r), \A g \in Own(r) : data'[g] = data[g]
  PROVE  Local(r)' /\ Own(r)' = Own(r) /\ SpaceOf(r)' = SpaceOf(r)
<1>0. /\ PGROUNDUP(sz[r]) \in Nat /\ PGROUNDUP(sz[r]) <= MaxPages
      /\ i[r] \in Nat /\ i[r] <= MaxPages + 1 /\ MaxPages \in Nat /\ 1 .. PGROUNDUP(sz[r]) \subseteq UserPages
      /\ 1 .. i[r] - 1 \subseteq UserPages
  BY SizeFacts DEF UserPages
<1>1. Own(r)' = Own(r)
  BY DEF Same, Own, Frames
<1>2. OwnInv(r)'
  BY DEF Local, Same, OwnInv, Frames
<1>3. StateInv(r)'
  BY DEF Local, Same, StateInv
<1>4. \A v \in UserPages : pt[r].pte[v] # NoPage => data'[pt[r].pte[v]] = data[pt[r].pte[v]]
  BY MappedOwned
<1>5. \A v \in UserPages : new[r].pte[v] # NoPage => data'[new[r].pte[v]] = data[new[r].pte[v]]
  BY MappedOwned
<1>6. GrowInv(r)'
  <2>1. (PGROUNDUP(sz[r]) + 1) .. (i[r] - 1) \subseteq UserPages
    BY <1>0
  <2>2. QED
    BY <1>4, <2>1 DEF Local, Same, GrowInv
<1>7. LoadInv(r)'
  <2>1. pc[r] = "load" => \A v \in 1 .. i[r] - 1 : new[r].pte[v] # NoPage
    BY DEF Local, LoadInv, Mapped
  <2>2. QED
    BY <1>0, <1>5, <2>1 DEF Local, Same, LoadInv
<1>8. SpaceOf(r)' = SpaceOf(r)
  BY <1>0, <1>4 DEF Same, SpaceOf, PageOf
<1>9. QED
  BY <1>1, <1>2, <1>3, <1>6, <1>7, <1>8 DEF Local

\* A step of the processes in S that moves pages only between the free list and
\* process o leaves every other process as it was.
LEMMA Frame ==
  ASSUME TypeOK, IInv, NEW S \in SUBSET Procs, NEW o \in S,
         \A r \in Procs \ S : Same(r) /\ (pc[r] = "fork" => Child(r) \notin S),
         \A g \in Pages \ (Own(o) \cup free) : data'[g] = data[g],
         \A r \in S \ {o} : Own(r)' = Own(r),
         Own(o)' \cup free' = Own(o) \cup free, Own(o)' \cap free' = {},
         \A r \in S : Local(r)' /\ CopyInv(r)'
  PROVE  IInv' /\ \A r \in Procs \ S : SpaceOf(r)' = SpaceOf(r)
<1>1. \A r \in Procs \ {o} : \A g \in Own(r) : data'[g] = data[g]
  <2> SUFFICES ASSUME NEW r \in Procs \ {o}, NEW g \in Own(r) PROVE data'[g] = data[g]
    OBVIOUS
  <2>1. g \in Pages
    BY MappedOwned
  <2>2. g \notin Own(o) /\ g \notin free
    BY DEF IInv, MemoryInv
  <2>3. QED
    BY <2>1, <2>2
<1>2. ASSUME NEW r \in Procs \ S
      PROVE  Local(r)' /\ Own(r)' = Own(r) /\ SpaceOf(r)' = SpaceOf(r)
  BY <1>1, KeptLocal DEF IInv, Local
<1>3. \A r \in Procs \ {o} : Own(r)' = Own(r)
  BY <1>2
<1>4. MemoryInv'
  <2>1. \A r \in Procs \ {o} : Own(r) \cap (Own(o) \cup free) = {}
    BY DEF IInv, MemoryInv
  <2>2. \A p, q \in Procs : p # q => Own(p)' \cap Own(q)' = {}
    BY <1>3, <2>1 DEF IInv, MemoryInv
  <2>3. \A p \in Procs : Own(p)' \cap free' = {}
    BY <1>3, <2>1
  <2>4. \A g \in Pages : g \in free' \/ \E p \in Procs : g \in Own(p)'
    <3> SUFFICES ASSUME NEW g \in Pages PROVE g \in free' \/ \E p \in Procs : g \in Own(p)'
      OBVIOUS
    <3>1. g \in Own(o) \cup free \/ \E p \in Procs \ {o} : g \in Own(p)
      BY DEF IInv, MemoryInv
    <3>2. QED
      BY <1>3, <3>1
  <2>5. QED
    BY <2>2, <2>3, <2>4 DEF MemoryInv
<1>5. ASSUME NEW r \in Procs \ S PROVE CopyInv(r)'
  <2> SUFFICES ASSUME pc'[r] = "fork" PROVE CopyInv(r)'
    BY DEF CopyInv
  <2> DEFINE c == Child(r)
  <2>1. pc[r] = "fork" /\ Child(r)' = c /\ Same(r)
    BY DEF Same, Child
  <2>2. c \in Procs \ S /\ Same(c) /\ pc[c] = "embryo" /\ r # o /\ c # o
    BY <2>1 DEF IInv, CopyInv
  <2>3. ASSUME NEW q \in Procs, pc'[q] = "fork", Child(q)' = c PROVE q = r
    <3>1. CASE q \in S
      BY <2>1, <2>3, <3>1 DEF CopyInv
    <3>2. CASE q \notin S
      <4>1. pc[q] = "fork" /\ Child(q) = c
        BY <2>3, <3>2 DEF Same, Child
      <4>2. QED
        BY <2>1, <4>1 DEF IInv, CopyInv
    <3>3. QED
      BY <3>1, <3>2
  <2>4. /\ i[r] <= PGROUNDUP(sz[r]) + 1
        /\ Mapped(pt[c]) = {v \in Mapped(pt[r]) : v < i[r]}
        /\ \A v \in Mapped(pt[c]) : data[pt[c].pte[v]] = data[pt[r].pte[v]]
    BY <2>1 DEF IInv, CopyInv
  <2>5. \A v \in Mapped(pt[c]) : data'[pt[c].pte[v]] = data'[pt[r].pte[v]]
    <3> SUFFICES ASSUME NEW v \in Mapped(pt[c]) PROVE data'[pt[c].pte[v]] = data'[pt[r].pte[v]]
      OBVIOUS
    <3>1. v \in Mapped(pt[r])
      BY <2>4
    <3>2. pt[c].pte[v] \in Own(c) /\ pt[r].pte[v] \in Own(r)
      BY <2>2, <3>1, MappedOwned DEF Mapped
    <3>3. QED
      BY <1>1, <2>2, <2>4, <3>2
  <2> HIDE DEF c
  <2>6. pt'[c] = pt[c] /\ pt'[r] = pt[r] /\ i'[r] = i[r] /\ sz'[r] = sz[r] /\ pc'[c] = "embryo"
    BY <2>1, <2>2 DEF Same
  <2>7. QED
    BY <2>1, <2>2, <2>3, <2>4, <2>5, <2>6 DEF CopyInv
<1>6. QED
  BY <1>2, <1>4, <1>5 DEF IInv, Local

LEMMA SoloStep ==
  ASSUME TypeOK, IInv, NEW p \in Procs, \A r \in Procs \ {p} : Same(r),
         \A g \in Pages \ (Own(p) \cup free) : data'[g] = data[g],
         Own(p)' \cup free' = Own(p) \cup free, Own(p)' \cap free' = {},
         Local(p)', pc[p] # "embryo", pc'[p] # "fork"
  PROVE  IInv' /\ \A r \in Procs \ {p} : SpaceOf(r)' = SpaceOf(r)
<1>1. \A r \in Procs \ {p} : pc[r] = "fork" => Child(r) # p
  BY DEF IInv, CopyInv
<1>2. CopyInv(p)'
  BY DEF CopyInv
<1> DEFINE S == {p}
<1>3. /\ S \in SUBSET Procs /\ p \in S
      /\ \A r \in Procs \ S : Same(r) /\ (pc[r] = "fork" => Child(r) \notin S)
      /\ \A r \in S \ {p} : Own(r)' = Own(r)
      /\ \A r \in S : Local(r)' /\ CopyInv(r)'
  BY <1>1, <1>2
<1>4. Procs \ S = Procs \ {p}
  OBVIOUS
<1> HIDE DEF S
<1>5. IInv' /\ \A r \in Procs \ S : SpaceOf(r)' = SpaceOf(r)
  BY <1>3, Frame
<1>6. QED
  BY <1>4, <1>5

-----------------------------------------------------------------------------
(* The abstract steps.                                                     *)

Dead == {"unused", "embryo", "zombie"}

LEMMA SpaceIs ==
  Space = [p \in Procs |-> SpaceOf(p)]
  BY DEF Space, SpaceOf, PageOf

LEMMA PagesOf ==
  ASSUME NEW n \in 0 .. (MaxPages * PGSIZE)
  PROVE  PGROUNDUP(n) \in Nat /\ PGROUNDUP(n) <= MaxPages /\ 1 .. PGROUNDUP(n) \subseteq UserPages
<1>1. MaxPages \in Nat /\ MaxPages * PGSIZE \in Nat
  BY Sizes
<1>2. PGROUNDUP(n) \in Nat /\ PGROUNDUP(n) <= MaxPages
  BY <1>1, RoundUp
<1>3. QED
  BY <1>1, <1>2 DEF UserPages

\* The space of a live process is a sequence of pages, never that of no process.
LEMMA LiveSpace ==
  ASSUME TypeOK, NEW p \in Procs, pc[p] \notin Dead
  PROVE  /\ SpaceOf(p) = [v \in 1 .. PGROUNDUP(sz[p]) |-> PageOf(p, v)]
         /\ Len(SpaceOf(p)) = PGROUNDUP(sz[p]) /\ SpaceOf(p) # <<"none">>
<1>1. SpaceOf(p) = [v \in 1 .. PGROUNDUP(sz[p]) |-> PageOf(p, v)]
  BY DEF SpaceOf, Dead
<1>2. PGROUNDUP(sz[p]) \in Nat /\ 1 .. PGROUNDUP(sz[p]) \subseteq UserPages
  BY PagesOf DEF TypeOK
<1>3. Len(SpaceOf(p)) = PGROUNDUP(sz[p])
  BY <1>1, <1>2
<1>4. \A v \in UserPages : PageOf(p, v) \in Contents
  <2>1. pt[p].pte \in [UserPages -> Pages \cup {NoPage}]
    BY TableFacts DEF TypeOK
  <2>2. QED
    BY <2>1 DEF PageOf, TypeOK, Contents
<1>5. "none" \notin Contents
  BY VmAssumption DEF Contents, Zero, Junk, Text
<1>6. ASSUME SpaceOf(p) = <<"none">> PROVE FALSE
  <2>1. SpaceOf(p)[1] = "none" /\ DOMAIN SpaceOf(p) = 1 .. 1
    BY <1>6
  <2>2. 1 \in 1 .. PGROUNDUP(sz[p])
    BY <1>1, <2>1
  <2>3. QED
    BY <1>1, <1>2, <1>4, <1>5, <2>1, <2>2
<1>7. QED
  BY <1>1, <1>3, <1>6

LEMMA AbsSame ==
  ASSUME \A r \in Procs : SpaceOf(r)' = SpaceOf(r)
  PROVE  UNCHANGED Space
  BY DEF Space, SpaceOf, PageOf

\* What one process may do to its own space.
LEMMA AbsStep ==
  ASSUME NEW p \in Procs, NEW e, \A r \in Procs \ {p} : SpaceOf(r)' = SpaceOf(r), SpaceOf(p)' = e,
         SpaceOf(p) # <<"none">>,
         \/ e = <<"none">> \/ e = Image
         \/ \E n \in 0 .. MaxPages : e = [v \in 1 .. n |-> IF v <= Len(SpaceOf(p)) THEN SpaceOf(p)[v] ELSE Zero]
         \/ \E v \in 1 .. MaxPages, d \in Data : v \in 1 .. Len(SpaceOf(p)) /\ e = [SpaceOf(p) EXCEPT ![v] = d]
  PROVE  [Abstract!Next]_Space
<1>1. Space' = [Space EXCEPT ![p] = e]
  <2>1. Space' = [r \in Procs |-> SpaceOf(r)']
    BY DEF Space, SpaceOf, PageOf
  <2>2. QED
    BY <2>1, SpaceIs
<1>2. Space[p] = SpaceOf(p)
  BY SpaceIs
<1>3. CASE e = <<"none">>
  <2>1. Abstract!exit(p)
    BY <1>1, <1>2, <1>3 DEF Abstract!exit, Abstract!None
  <2>2. QED
    BY <2>1 DEF Abstract!Next
<1>4. CASE e = Image
  <2>1. Abstract!exec(p)
    BY <1>1, <1>2, <1>4 DEF Abstract!exec, Abstract!None
  <2>2. QED
    BY <2>1 DEF Abstract!Next
<1>5. ASSUME NEW n \in 0 .. MaxPages, e = [v \in 1 .. n |-> IF v <= Len(SpaceOf(p)) THEN SpaceOf(p)[v] ELSE Zero]
      PROVE  Abstract!Next
  <2>1. e = [v \in 1 .. n |-> IF v <= Len(Space[p]) THEN Space[p][v] ELSE Zero]
    BY <1>2, <1>5
  <2>2. Abstract!sbrk(p, n)
    BY <1>1, <1>2, <2>1 DEF Abstract!sbrk, Abstract!None
  <2>3. QED
    BY <2>2 DEF Abstract!Next
<1>6. ASSUME NEW v \in 1 .. MaxPages, NEW d \in Data, v \in 1 .. Len(SpaceOf(p)), e = [SpaceOf(p) EXCEPT ![v] = d]
      PROVE  Abstract!Next
  <2>1. e = [Space[p] EXCEPT ![v] = d] /\ v \in 1 .. Len(Space[p]) /\ Space[p] # <<"none">>
    BY <1>2, <1>6
  <2>2. Space' = [Space EXCEPT ![p][v] = d]
    BY <1>1, <2>1, Zenon
  <2>3. Abstract!store(p, v, d)
    BY <2>1, <2>2 DEF Abstract!store, Abstract!None
  <2>4. QED
    BY <2>3 DEF Abstract!Next
<1>7. QED
  BY <1>3, <1>4, <1>5, <1>6

\* sbrk(), exec() and a fault change the length of a space and keep its pages.
LEMMA AbsResize ==
  ASSUME TypeOK, TypeOK', NEW p \in Procs, \A r \in Procs \ {p} : SpaceOf(r)' = SpaceOf(r),
         pc[p] \notin Dead, pc'[p] \notin Dead,
         \A v \in 1 .. PGROUNDUP(sz'[p]) : PageOf(p, v)' = IF v <= PGROUNDUP(sz[p]) THEN PageOf(p, v) ELSE Zero
  PROVE  [Abstract!Next]_Space
<1> DEFINE n == PGROUNDUP(sz'[p])
<1>1. n \in Nat /\ n <= MaxPages /\ MaxPages \in Nat /\ PGROUNDUP(sz[p]) \in Nat
  BY PagesOf, Sizes DEF TypeOK
<1>2. SpaceOf(p)' = [v \in 1 .. n |-> PageOf(p, v)']
  BY DEF SpaceOf, Dead
<1> HIDE DEF n
<1>3. [v \in 1 .. n |-> PageOf(p, v)'] = [v \in 1 .. n |-> IF v <= PGROUNDUP(sz[p]) THEN PageOf(p, v) ELSE Zero]
  BY DEF n
<1>4. \A v \in 1 .. PGROUNDUP(sz[p]) : SpaceOf(p)[v] = PageOf(p, v)
  BY LiveSpace
<1>5. [v \in 1 .. n |-> IF v <= PGROUNDUP(sz[p]) THEN PageOf(p, v) ELSE Zero]
      = [v \in 1 .. n |-> IF v <= Len(SpaceOf(p)) THEN SpaceOf(p)[v] ELSE Zero]
  BY <1>1, <1>4, LiveSpace
<1>6. SpaceOf(p)' = [v \in 1 .. n |-> IF v <= Len(SpaceOf(p)) THEN SpaceOf(p)[v] ELSE Zero]
  BY <1>2, <1>3, <1>5
<1>7. n \in 0 .. MaxPages /\ SpaceOf(p) # <<"none">>
  BY <1>1, LiveSpace
<1>8. QED
  BY <1>6, <1>7, AbsStep

-----------------------------------------------------------------------------
(* sbrk(), faults and stores.                                              *)

LEMMA StepLazy ==
  ASSUME TypeOK, IInv, NEW p \in Procs, NEW n \in SbrkSizes, sbrk_lazy(p, n)
  PROVE  TypeOK' /\ IInv' /\ [Abstract!Next]_Space
<1> DEFINE m == sz[p] + n
<1>0. n \in Nat /\ sz[p] \in Nat /\ m \in Nat /\ MaxPages \in Nat
  BY Sizes, SizeFacts DEF sbrk_lazy
<1>1. m \in 0 .. (MaxPages * PGSIZE)
  <2>1. m <= MaxPages * PGSIZE
    BY <1>0, RoundUp DEF sbrk_lazy, Fits
  <2>2. QED
    BY <1>0, <2>1, SizeFacts
<1>2. PGROUNDUP(sz[p]) <= PGROUNDUP(m) /\ PGROUNDUP(sz[p]) \in Nat /\ PGROUNDUP(m) \in Nat /\ 1 .. PGROUNDUP(m) \subseteq UserPages
  BY <1>0, <1>1, RoundUpFacts, RoundUp, PagesOf
<1> HIDE DEF m
<1>3. /\ sz' = [sz EXCEPT ![p] = m] /\ UNCHANGED <<free, data, pt, trapframe, new, argv, pc, i, arg>>
      /\ pc[p] = "user"
  BY DEF sbrk_lazy, m, User
<1>4. TypeOK'
  BY <1>1, <1>3 DEF TypeOK
<1>5. sz'[p] = m /\ \A r \in Procs \ {p} : Same(r)
  BY <1>3 DEF TypeOK, Same
<1>6. Local(p)'
  <2>1. Local(p)
    BY DEF IInv, Local
  <2>2. OwnInv(p)'
    BY <1>3, <2>1 DEF Local, OwnInv, Frames
  <2>3. StateInv(p)'
    BY <1>2, <1>3, <1>5, <2>1 DEF Local, StateInv
  <2>4. QED
    BY <1>3, <2>2, <2>3 DEF Local, GrowInv, LoadInv
<1>7. Own(p)' = Own(p) /\ Own(p) \cap free = {}
  BY <1>3 DEF Own, Frames, IInv, MemoryInv
<1>8. IInv' /\ \A r \in Procs \ {p} : SpaceOf(r)' = SpaceOf(r)
  BY <1>3, <1>5, <1>6, <1>7, SoloStep
<1>9. ASSUME NEW v \in 1 .. PGROUNDUP(m)
      PROVE  PageOf(p, v)' = IF v <= PGROUNDUP(sz[p]) THEN PageOf(p, v) ELSE Zero
  <2>1. PageOf(p, v)' = PageOf(p, v)
    BY <1>3 DEF PageOf
  <2>2. v \in UserPages /\ Mapped(pt[p]) \subseteq 1 .. PGROUNDUP(sz[p])
    BY <1>2, <1>3 DEF IInv, StateInv
  <2>3. QED
    BY <2>1, <2>2 DEF PageOf, Mapped
<1>10. [Abstract!Next]_Space
  BY <1>3, <1>4, <1>5, <1>8, <1>9, AbsResize DEF Dead
<1>11. QED
  BY <1>4, <1>8, <1>10

LEMMA StepEager ==
  ASSUME TypeOK, IInv, NEW p \in Procs, NEW n \in SbrkSizes, sbrk_eager(p, n)
  PROVE  TypeOK' /\ IInv' /\ [Abstract!Next]_Space
<1> DEFINE m == sz[p] + n
           k == PGROUNDUP(sz[p]) + 1
<1>0. n \in Nat /\ sz[p] \in Nat /\ m \in Nat /\ MaxPages \in Nat /\ sz[p] <= m
  BY Sizes, SizeFacts DEF sbrk_eager
<1>1. m \in 0 .. (MaxPages * PGSIZE)
  <2>1. m <= MaxPages * PGSIZE
    BY <1>0, RoundUp DEF sbrk_eager, Fits
  <2>2. QED
    BY <1>0, <2>1, SizeFacts
<1>2. PGROUNDUP(sz[p]) <= PGROUNDUP(m) /\ PGROUNDUP(m) \in Nat /\ PGROUNDUP(sz[p]) \in Nat /\ PGROUNDUP(sz[p]) <= MaxPages
  BY <1>0, RoundUpFacts, RoundUp, SizeFacts
<1> HIDE DEF m
<1>3. /\ pc' = [pc EXCEPT ![p] = "grow"] /\ arg' = [arg EXCEPT ![p] = m] /\ i' = [i EXCEPT ![p] = k]
      /\ UNCHANGED <<free, data, pt, sz, trapframe, new, argv>> /\ pc[p] = "user"
  BY DEF sbrk_eager, m, User, Goto
<1> k \in 1 .. MaxPages + 1
  BY <1>0, <1>2
<1> HIDE DEF k
<1>4. TypeOK'
  BY <1>1, <1>3 DEF TypeOK, PC
<1>5. pc'[p] = "grow" /\ arg'[p] = m /\ i'[p] = k /\ \A r \in Procs \ {p} : Same(r)
  BY <1>3 DEF TypeOK, Same
<1>6. Local(p)'
  <2>1. Local(p)
    BY DEF IInv, Local
  <2>2. OwnInv(p)'
    BY <1>3, <2>1 DEF Local, OwnInv, Frames
  <2>3. StateInv(p)'
    BY <1>3, <1>5, <2>1 DEF Local, StateInv
  <2>4. GrowInv(p)'
    <3>1. m \in sz[p] .. (MaxPages * PGSIZE)
      BY <1>0, <1>1
    <3>2. k \in (PGROUNDUP(sz[p]) + 1) .. (PGROUNDUP(m) + 1) /\ k - 1 = PGROUNDUP(sz[p])
      BY <1>2 DEF k
    <3>3. Mapped(pt[p]) \subseteq 1 .. k - 1
      BY <1>3, <2>1, <3>2 DEF Local, StateInv
    <3>4. (PGROUNDUP(sz[p]) + 1) .. (k - 1) = {}
      BY <1>2, <3>2
    <3>5. QED
      BY <1>3, <1>5, <3>1, <3>2, <3>3, <3>4 DEF GrowInv
  <2>5. QED
    BY <1>5, <2>2, <2>3, <2>4 DEF Local, LoadInv
<1>7. Own(p)' = Own(p) /\ Own(p) \cap free = {}
  BY <1>3 DEF Own, Frames, IInv, MemoryInv
<1>8. IInv' /\ \A r \in Procs \ {p} : SpaceOf(r)' = SpaceOf(r)
  BY <1>3, <1>5, <1>6, <1>7, SoloStep
<1>9. SpaceOf(p)' = SpaceOf(p)
  BY <1>3, <1>5 DEF SpaceOf, PageOf
<1>10. QED
  BY <1>4, <1>8, <1>9, AbsSame

LEMMA StepGrown ==
  ASSUME TypeOK, IInv, NEW p \in Procs, growproc(p)
  PROVE  TypeOK' /\ IInv' /\ [Abstract!Next]_Space
<1> DEFINE m == arg[p]
<1>1. /\ pc' = [pc EXCEPT ![p] = "user"] /\ arg' = [arg EXCEPT ![p] = 0] /\ i' = [i EXCEPT ![p] = 1]
      /\ sz' = [sz EXCEPT ![p] = m] /\ UNCHANGED <<free, data, pt, trapframe, new, argv>> /\ pc[p] = "grow"
      /\ i[p] > PGROUNDUP(m)
  BY DEF growproc, Goto
<1>2. Local(p)
  BY DEF IInv, Local
<1>3. m \in sz[p] .. (MaxPages * PGSIZE) /\ i[p] \in (PGROUNDUP(sz[p]) + 1) .. (PGROUNDUP(m) + 1)
  BY <1>1, <1>2 DEF Local, GrowInv
<1> HIDE DEF m
<1>4. sz[p] \in Nat /\ m \in Nat /\ MaxPages * PGSIZE \in Nat /\ MaxPages \in Nat
  BY <1>3, SizeFacts
<1>5. m \in 0 .. (MaxPages * PGSIZE) /\ PGROUNDUP(m) \in Nat /\ 1 .. PGROUNDUP(m) \subseteq UserPages /\ PGROUNDUP(sz[p]) \in Nat
  BY <1>3, <1>4, PagesOf, RoundUp
<1>6. i[p] - 1 = PGROUNDUP(m)
  BY <1>1, <1>3, <1>5
<1>7. TypeOK'
  <2>1. 1 \in 1 .. MaxPages + 1 /\ 0 \in 0 .. (MaxPages * PGSIZE)
    BY <1>4
  <2>2. QED
    BY <1>1, <1>5, <2>1 DEF TypeOK, PC
<1>8. pc'[p] = "user" /\ sz'[p] = m /\ \A r \in Procs \ {p} : Same(r)
  BY <1>1 DEF TypeOK, Same
<1>9. Mapped(pt[p]) \subseteq 1 .. PGROUNDUP(m)
     /\ \A v \in (PGROUNDUP(sz[p]) + 1) .. PGROUNDUP(m) : pt[p].pte[v] # NoPage /\ data[pt[p].pte[v]] = Zero
  BY <1>1, <1>2, <1>6 DEF Local, GrowInv
<1>10. Local(p)'
  <2>1. OwnInv(p)'
    BY <1>1, <1>2 DEF Local, OwnInv, Frames
  <2>2. StateInv(p)'
    BY <1>1, <1>2, <1>8, <1>9 DEF Local, StateInv
  <2>3. QED
    BY <1>8, <2>1, <2>2 DEF Local, GrowInv, LoadInv
<1>11. Own(p)' = Own(p) /\ Own(p) \cap free = {}
  BY <1>1 DEF Own, Frames, IInv, MemoryInv
<1>12. IInv' /\ \A r \in Procs \ {p} : SpaceOf(r)' = SpaceOf(r)
  BY <1>1, <1>8, <1>10, <1>11, SoloStep
<1>13. ASSUME NEW v \in 1 .. PGROUNDUP(m)
      PROVE  PageOf(p, v)' = IF v <= PGROUNDUP(sz[p]) THEN PageOf(p, v) ELSE Zero
  <2>1. PageOf(p, v)' = PageOf(p, v)
    BY <1>1 DEF PageOf
  <2>2. ~(v <= PGROUNDUP(sz[p])) => v \in (PGROUNDUP(sz[p]) + 1) .. PGROUNDUP(m)
    BY <1>5
  <2>3. QED
    BY <1>9, <2>1, <2>2 DEF PageOf
<1>14. [Abstract!Next]_Space
  BY <1>1, <1>7, <1>8, <1>12, <1>13, AbsResize DEF Dead
<1>15. QED
  BY <1>7, <1>12, <1>14

LEMMA StepExit ==
  ASSUME TypeOK, IInv, NEW p \in Procs, exit(p)
  PROVE  TypeOK' /\ IInv' /\ [Abstract!Next]_Space
<1>1. /\ pc' = [pc EXCEPT ![p] = "zombie"] /\ UNCHANGED <<free, data, pt, sz, trapframe, new, argv, i, arg>>
      /\ pc[p] = "user"
  BY DEF exit, User, Goto
<1>2. TypeOK'
  BY <1>1 DEF TypeOK, PC
<1>3. pc'[p] = "zombie" /\ \A r \in Procs \ {p} : Same(r)
  BY <1>1 DEF TypeOK, Same
<1>4. Local(p)'
  BY <1>1, <1>3 DEF IInv, Local, OwnInv, StateInv, GrowInv, LoadInv, Frames
<1>5. Own(p)' = Own(p) /\ Own(p) \cap free = {}
  BY <1>1 DEF Own, Frames, IInv, MemoryInv
<1>6. IInv' /\ \A r \in Procs \ {p} : SpaceOf(r)' = SpaceOf(r)
  BY <1>1, <1>3, <1>4, <1>5, SoloStep
<1>7. SpaceOf(p)' = <<"none">> /\ SpaceOf(p) # <<"none">>
  BY <1>1, <1>3, LiveSpace DEF SpaceOf, Dead
<1>8. QED
  BY <1>2, <1>6, <1>7, AbsStep

-----------------------------------------------------------------------------
(* Pages that move between the free list and the table of a process.       *)

LEMMA OwnParts ==
  ASSUME TypeOK, IInv, NEW p \in Procs
  PROVE  /\ pt[p] \in Table /\ new[p] \in Table /\ Tree(pt[p]) /\ Tree(new[p])
         /\ Own(p) = Held(pt[p]) \cup Held(new[p]) \cup Frames(p)
         /\ Held(pt[p]) \cap Held(new[p]) = {} /\ Held(pt[p]) \cap Frames(p) = {} /\ Held(new[p]) \cap Frames(p) = {}
         /\ Own(p) \cap free = {} /\ Own(p) \subseteq Pages /\ free \subseteq Pages
         /\ Local(p)
<1>1. pt[p] \in Table /\ new[p] \in Table /\ Own(p) \subseteq Pages /\ free \subseteq Pages
  BY SizeFacts, MappedOwned DEF TypeOK
<1>2. OwnInv(p) /\ Local(p) /\ Own(p) \cap free = {}
  BY DEF IInv, MemoryInv, Local
<1>3. QED
  BY <1>1, <1>2 DEF OwnInv, Own

\* mappages() in the table of process p.
LEMMA MapOwn ==
  ASSUME TypeOK, IInv, NEW p \in Procs, NEW v \in UserPages, pt[p].pte[v] = NoPage,
         Cardinality(free) >= Needs(pt[p], v), NEW f \in SUBSET {"u", "w"}, NEW d \in Contents,
         pt' = [pt EXCEPT ![p] = mappages(@, v, f)], free' = free \ Taken(pt[p], v),
         data' = [data EXCEPT ![Nth(1)] = d], trapframe'[p] = trapframe[p], new'[p] = new[p], argv'[p] = argv[p]
  PROVE  /\ free' \subseteq Pages /\ data' \in [Pages -> Contents] /\ pt' \in [Procs -> Table]
         /\ OwnInv(p)' /\ Own(p)' \cup free' = Own(p) \cup free /\ Own(p)' \cap free' = {}
         /\ \A g \in Pages \ (Own(p) \cup free) : data'[g] = data[g]
         /\ \A g \in Own(p) : data'[g] = data[g]
         /\ Mapped(pt'[p]) = Mapped(pt[p]) \cup {v}
         /\ \A w \in UserPages : pt'[p].pte[w] = IF w = v THEN Nth(1) ELSE pt[p].pte[w]
         /\ Nth(1) \in Pages /\ Nth(1) # NoPage /\ data'[Nth(1)] = d
<1> DEFINE t == pt[p]
           m == mappages(t, v, f)
           T == Taken(t, v)
<1>1. /\ t \in Table /\ Tree(t) /\ Held(t) \cap free = {} /\ t.pte[v] = NoPage /\ Cardinality(free) >= Needs(t, v)
      /\ Own(p) = Held(t) \cup Held(new[p]) \cup Frames(p) /\ Own(p) \cap free = {}
      /\ Held(t) \cap Held(new[p]) = {} /\ Held(t) \cap Frames(p) = {} /\ Held(new[p]) \cap Frames(p) = {}
      /\ Own(p) \subseteq Pages /\ free \subseteq Pages /\ OwnInv(p)
  BY OwnParts DEF Local
<1>2. pt' = [pt EXCEPT ![p] = m]
  OBVIOUS
<1> HIDE DEF t
<1>3. /\ m \in Table /\ Tree(m) /\ T \subseteq free /\ Held(m) = Held(t) \cup T
      /\ Nth(1) \in T /\ m.pte = [t.pte EXCEPT ![v] = Nth(1)] /\ Mapped(m) = Mapped(t) \cup {v}
  BY <1>1, MapPage
<1> HIDE DEF m
<1>4. pt'[p] = m /\ pt' \in [Procs -> Table]
  BY <1>2, <1>3 DEF TypeOK
<1>5. free' = free \ T
  BY DEF t
<1> HIDE DEF T
<1>6. Nth(1) \in free /\ Nth(1) \in Pages
  BY <1>1, <1>3
<1>7. data' \in [Pages -> Contents] /\ data'[Nth(1)] = d /\ \A g \in Pages \ {Nth(1)} : data'[g] = data[g]
  BY <1>6 DEF TypeOK
<1>8. Frames(p)' = Frames(p)
  BY DEF Frames
<1>9. Own(p)' = Own(p) \cup T
  BY <1>1, <1>3, <1>4, <1>8 DEF Own
<1>10. OwnInv(p)'
  <2>1. Tree(pt'[p]) /\ Tree(new'[p])
    BY <1>1, <1>3, <1>4 DEF OwnInv
  <2>2. Held(pt'[p]) \cap Held(new'[p]) = {} /\ Frames(p)' \cap (Held(pt'[p]) \cup Held(new'[p])) = {}
    BY <1>1, <1>3, <1>4, <1>8
  <2>3. QED
    BY <1>1, <2>1, <2>2 DEF OwnInv
<1>11. \A w \in UserPages : m.pte[w] = IF w = v THEN Nth(1) ELSE t.pte[w]
  BY <1>1, <1>3, TableFacts
<1>12. Own(p)' \cup free' = Own(p) \cup free /\ Own(p)' \cap free' = {} /\ free' \subseteq Pages
  BY <1>1, <1>3, <1>5, <1>9
<1>13. /\ \A g \in Pages \ (Own(p) \cup free) : data'[g] = data[g]
       /\ \A g \in Own(p) : data'[g] = data[g]
  BY <1>1, <1>6, <1>7
<1>14. Nth(1) # NoPage
  BY <1>1, <1>6, TableFacts
<1>15. Mapped(pt'[p]) = Mapped(pt[p]) \cup {v} /\ \A w \in UserPages : pt'[p].pte[w] = IF w = v THEN Nth(1) ELSE pt[p].pte[w]
  BY <1>3, <1>4, <1>11 DEF t
<1>16. QED
  BY <1>4, <1>6, <1>7, <1>10, <1>12, <1>13, <1>14, <1>15

\* uvmunmap() and kfree() of pages of process p.
LEMMA UnmapOwn ==
  ASSUME TypeOK, IInv, NEW p \in Procs, NEW V \in SUBSET UserPages,
         pt' = [pt EXCEPT ![p] = uvmunmap(@, V)], kfree(Leaves(pt[p], V)),
         trapframe'[p] = trapframe[p], new'[p] = new[p], argv'[p] = argv[p]
  PROVE  /\ free' \subseteq Pages /\ data' \in [Pages -> Contents] /\ pt' \in [Procs -> Table]
         /\ OwnInv(p)' /\ Own(p)' \cup free' = Own(p) \cup free /\ Own(p)' \cap free' = {}
         /\ \A g \in Pages \ (Own(p) \cup free) : data'[g] = data[g]
         /\ Mapped(pt'[p]) = Mapped(pt[p]) \ V
         /\ \A w \in UserPages \ V : PageOf(p, w)' = PageOf(p, w)
<1> DEFINE t == pt[p]
           u == uvmunmap(t, V)
           L == Leaves(t, V)
<1>1. /\ t \in Table /\ Tree(t)
      /\ Own(p) = Held(t) \cup Held(new[p]) \cup Frames(p) /\ Own(p) \cap free = {}
      /\ Held(t) \cap Held(new[p]) = {} /\ Held(t) \cap Frames(p) = {} /\ Held(new[p]) \cap Frames(p) = {}
      /\ Own(p) \subseteq Pages /\ free \subseteq Pages /\ OwnInv(p)
  BY OwnParts DEF Local
<1>2. pt' = [pt EXCEPT ![p] = u]
  OBVIOUS
<1>3. free' = free \cup L /\ data' = [g \in Pages |-> IF g \in L THEN Junk ELSE data[g]]
  BY DEF kfree
<1> HIDE DEF t
<1>4. /\ u \in Table /\ Tree(u) /\ Held(u) = Held(t) \ L /\ L \subseteq Held(t)
      /\ Mapped(u) = Mapped(t) \ V /\ \A v \in UserPages \ V : u.pte[v] = t.pte[v]
  BY <1>1, Unmap
<1> HIDE DEF u
<1>5. pt'[p] = u /\ pt' \in [Procs -> Table]
  BY <1>2, <1>4 DEF TypeOK
<1>6. ASSUME NEW w \in UserPages \ V PROVE PageOf(p, w)' = PageOf(p, w)
  <2>1. pt'[p].pte[w] = pt[p].pte[w]
    BY <1>4, <1>5 DEF t
  <2>2. CASE pt[p].pte[w] = NoPage
    BY <2>1, <2>2 DEF PageOf
  <2>3. CASE pt[p].pte[w] # NoPage
    <3>1. t.pte[w] \notin L
      BY <1>1, <2>3 DEF Tree, Leaves, L, t
    <3>2. t.pte[w] \in Pages
      BY <1>1, <2>3, TableFacts DEF t
    <3>3. QED
      BY <1>3, <2>1, <3>1, <3>2 DEF PageOf, t
  <2>4. QED
    BY <2>2, <2>3
<1> HIDE DEF L
<1>7. data' \in [Pages -> Contents] /\ \A g \in Pages \ (Own(p) \cup free) : data'[g] = data[g]
  BY <1>1, <1>3, <1>4 DEF TypeOK, Contents
<1>8. Frames(p)' = Frames(p)
  BY DEF Frames
<1>9. Own(p)' = Own(p) \ L
  BY <1>1, <1>4, <1>5, <1>8 DEF Own
<1>10. OwnInv(p)'
  <2>1. Tree(pt'[p]) /\ Tree(new'[p])
    BY <1>1, <1>4, <1>5 DEF OwnInv
  <2>2. Held(pt'[p]) \cap Held(new'[p]) = {} /\ Frames(p)' \cap (Held(pt'[p]) \cup Held(new'[p])) = {}
    BY <1>1, <1>4, <1>5, <1>8
  <2>3. QED
    BY <1>1, <2>1, <2>2 DEF OwnInv
<1>11. Own(p)' \cup free' = Own(p) \cup free /\ Own(p)' \cap free' = {} /\ free' \subseteq Pages
  BY <1>1, <1>3, <1>4, <1>9
<1>12. Mapped(pt'[p]) = Mapped(pt[p]) \ V
  BY <1>4, <1>5 DEF t
<1>13. QED
  BY <1>5, <1>6, <1>7, <1>10, <1>11, <1>12

LEMMA StepShrink ==
  ASSUME TypeOK, IInv, NEW p \in Procs, NEW n \in SbrkSizes, shrink(p, n)
  PROVE  TypeOK' /\ IInv' /\ [Abstract!Next]_Space
<1> DEFINE m == sz[p] + n
           V == Unmapped(sz[p], m)
<1>0. sz[p] \in Nat /\ m \in Nat /\ m <= sz[p] /\ MaxPages \in Nat /\ sz[p] <= MaxPages * PGSIZE /\ MaxPages * PGSIZE \in Nat
  <2>1. n \in Int /\ n < 0 /\ sz[p] + n >= 0
    BY Sizes DEF shrink
  <2>2. QED
    BY <2>1, SizeFacts DEF TypeOK
<1>1. /\ sz' = [sz EXCEPT ![p] = m] /\ pt' = [pt EXCEPT ![p] = uvmunmap(@, V)] /\ kfree(Leaves(pt[p], V))
      /\ UNCHANGED <<trapframe, new, argv, pc, i, arg>> /\ pc[p] = "user"
  BY DEF shrink, User
<1> HIDE DEF m
<1>2. m \in 0 .. (MaxPages * PGSIZE)
  BY <1>0
<1>3. /\ PGROUNDUP(sz[p]) \in Nat /\ PGROUNDUP(m) \in Nat /\ PGROUNDUP(m) <= PGROUNDUP(sz[p])
      /\ 1 .. PGROUNDUP(sz[p]) \subseteq UserPages
  BY <1>0, <1>2, RoundUpFacts, RoundUp, PagesOf
<1>4. V \in SUBSET UserPages /\ (1 .. PGROUNDUP(m)) \cap V = {} /\ (1 .. PGROUNDUP(sz[p])) \ V \subseteq 1 .. PGROUNDUP(m)
      /\ 1 .. PGROUNDUP(m) \subseteq UserPages
  BY <1>3 DEF Unmapped
<1> HIDE DEF V
<1>5. /\ free' \subseteq Pages /\ data' \in [Pages -> Contents] /\ pt' \in [Procs -> Table]
      /\ OwnInv(p)' /\ Own(p)' \cup free' = Own(p) \cup free /\ Own(p)' \cap free' = {}
      /\ \A g \in Pages \ (Own(p) \cup free) : data'[g] = data[g]
      /\ Mapped(pt'[p]) = Mapped(pt[p]) \ V
      /\ \A w \in UserPages \ V : PageOf(p, w)' = PageOf(p, w)
  BY <1>1, <1>4, UnmapOwn
<1>6. TypeOK'
  BY <1>1, <1>2, <1>5 DEF TypeOK
<1>7. sz'[p] = m /\ pc'[p] = "user" /\ \A r \in Procs \ {p} : Same(r)
  BY <1>1 DEF TypeOK, Same
<1>8. Mapped(pt[p]) \subseteq 1 .. PGROUNDUP(sz[p]) /\ StateInv(p)
  BY <1>1 DEF IInv, StateInv
<1>9. Mapped(pt'[p]) \subseteq 1 .. PGROUNDUP(m)
  BY <1>4, <1>5, <1>8
<1>10. Local(p)'
  BY <1>1, <1>5, <1>7, <1>8, <1>9 DEF Local, StateInv, GrowInv, LoadInv
<1>11. IInv' /\ \A r \in Procs \ {p} : SpaceOf(r)' = SpaceOf(r)
  BY <1>1, <1>5, <1>7, <1>10, SoloStep
<1>12. ASSUME NEW v \in 1 .. PGROUNDUP(m)
       PROVE  PageOf(p, v)' = IF v <= PGROUNDUP(sz[p]) THEN PageOf(p, v) ELSE Zero
  <2>1. v <= PGROUNDUP(sz[p]) /\ v \in UserPages \ V
    BY <1>3, <1>4
  <2>2. QED
    BY <1>5, <2>1
<1>13. [Abstract!Next]_Space
  BY <1>1, <1>6, <1>7, <1>11, <1>12, AbsResize DEF Dead
<1>14. QED
  BY <1>6, <1>11, <1>13

LEMMA StepAlloc ==
  ASSUME TypeOK, IInv, NEW p \in Procs, uvmalloc(p)
  PROVE  TypeOK' /\ IInv' /\ [Abstract!Next]_Space
<1> DEFINE v == i[p]
<1>1. /\ pc[p] = "grow" /\ v <= PGROUNDUP(arg[p]) /\ Cardinality(free) >= Needs(pt[p], v)
      /\ pt' = [pt EXCEPT ![p] = mappages(@, v, {"u", "w"})] /\ free' = free \ Taken(pt[p], v)
      /\ data' = [data EXCEPT ![Nth(1)] = Zero] /\ i' = [i EXCEPT ![p] = v + 1]
      /\ UNCHANGED <<sz, trapframe, new, argv, pc, arg>>
  BY DEF uvmalloc
<1>2. Local(p)
  BY OwnParts
<1>3. /\ arg[p] \in sz[p] .. (MaxPages * PGSIZE) /\ v \in (PGROUNDUP(sz[p]) + 1) .. (PGROUNDUP(arg[p]) + 1)
      /\ Mapped(pt[p]) \subseteq 1 .. v - 1
      /\ \A w \in (PGROUNDUP(sz[p]) + 1) .. v - 1 : pt[p].pte[w] # NoPage /\ data[pt[p].pte[w]] = Zero
  BY <1>1, <1>2 DEF Local, GrowInv
<1>4. /\ PGROUNDUP(sz[p]) \in Nat /\ PGROUNDUP(sz[p]) <= MaxPages /\ v \in Nat /\ 1 <= v
      /\ sz[p] \in Nat /\ MaxPages * PGSIZE \in Nat /\ MaxPages \in Nat
  BY SizeFacts
<1>5. arg[p] \in 0 .. (MaxPages * PGSIZE)
  BY <1>3, <1>4
<1>6. PGROUNDUP(arg[p]) \in Nat /\ PGROUNDUP(arg[p]) <= MaxPages
  BY <1>5, PagesOf
<1>7. v \in UserPages /\ pt[p].pte[v] = NoPage /\ v + 1 \in 1 .. MaxPages + 1
  BY <1>1, <1>3, <1>4, <1>6 DEF UserPages, Mapped
<1> HIDE DEF v
<1>8. {"u", "w"} \in SUBSET {"u", "w"} /\ Zero \in Contents
  BY DEF Contents
<1>9. /\ free' \subseteq Pages /\ data' \in [Pages -> Contents] /\ pt' \in [Procs -> Table]
      /\ OwnInv(p)' /\ Own(p)' \cup free' = Own(p) \cup free /\ Own(p)' \cap free' = {}
      /\ \A g \in Pages \ (Own(p) \cup free) : data'[g] = data[g]
      /\ \A g \in Own(p) : data'[g] = data[g]
      /\ Mapped(pt'[p]) = Mapped(pt[p]) \cup {v}
      /\ \A w \in UserPages : pt'[p].pte[w] = IF w = v THEN Nth(1) ELSE pt[p].pte[w]
      /\ Nth(1) \in Pages /\ Nth(1) # NoPage /\ data'[Nth(1)] = Zero
  BY <1>1, <1>7, <1>8, MapOwn
<1>10. TypeOK'
  BY <1>1, <1>7, <1>9 DEF TypeOK
<1>11. pc'[p] = "grow" /\ sz'[p] = sz[p] /\ arg'[p] = arg[p] /\ i'[p] = v + 1 /\ \A r \in Procs \ {p} : Same(r)
  BY <1>1 DEF TypeOK, Same
<1>12. \A w \in UserPages \ {v} : PageOf(p, w)' = PageOf(p, w)
  BY <1>9, MappedOwned DEF PageOf
<1>13. Local(p)'
  <2>1. StateInv(p)'
    BY <1>1, <1>2, <1>11 DEF Local, StateInv
  <2>2. v + 1 \in (PGROUNDUP(sz[p]) + 1) .. (PGROUNDUP(arg[p]) + 1)
    BY <1>1, <1>3, <1>4, <1>6
  <2>3. Mapped(pt'[p]) \subseteq 1 .. (v + 1) - 1
    BY <1>3, <1>4, <1>9 DEF v
  <2>4. \A w \in (PGROUNDUP(sz[p]) + 1) .. (v + 1) - 1 : pt'[p].pte[w] # NoPage /\ data'[pt'[p].pte[w]] = Zero
    <3> SUFFICES ASSUME NEW w \in (PGROUNDUP(sz[p]) + 1) .. (v + 1) - 1
                 PROVE  pt'[p].pte[w] # NoPage /\ data'[pt'[p].pte[w]] = Zero
      OBVIOUS
    <3>1. CASE w = v
      BY <1>7, <1>9, <3>1
    <3>2. CASE w # v
      <4>1. w \in (PGROUNDUP(sz[p]) + 1) .. v - 1 /\ w \in UserPages
        BY <1>4, <1>7, <3>2 DEF v, UserPages
      <4>2. QED
        BY <1>3, <1>9, <3>2, <4>1, MappedOwned
    <3>3. QED
      BY <3>1, <3>2
  <2>5. GrowInv(p)'
    BY <1>3, <1>11, <2>2, <2>3, <2>4 DEF GrowInv
  <2>6. QED
    BY <1>9, <1>11, <2>1, <2>5 DEF Local, LoadInv
<1>14. IInv' /\ \A r \in Procs \ {p} : SpaceOf(r)' = SpaceOf(r)
  BY <1>1, <1>9, <1>11, <1>13, SoloStep
<1>15. SpaceOf(p)' = SpaceOf(p)
  <2>1. \A w \in 1 .. PGROUNDUP(sz[p]) : w \in UserPages \ {v}
    BY <1>3, <1>4 DEF UserPages, v
  <2>2. QED
    BY <1>1, <1>11, <1>12, <2>1 DEF SpaceOf
<1>16. QED
  BY <1>10, <1>14, <1>15, AbsSame

LEMMA StepAllocFails ==
  ASSUME TypeOK, IInv, NEW p \in Procs, uvmalloc_fails(p)
  PROVE  TypeOK' /\ IInv' /\ [Abstract!Next]_Space
<1> DEFINE V == (PGROUNDUP(sz[p]) + 1) .. (i[p] - 1)
<1>1. /\ pc[p] = "grow" /\ pt' = [pt EXCEPT ![p] = uvmunmap(@, V)] /\ kfree(Leaves(pt[p], V))
      /\ pc' = [pc EXCEPT ![p] = "user"] /\ arg' = [arg EXCEPT ![p] = 0] /\ i' = [i EXCEPT ![p] = 1]
      /\ UNCHANGED <<sz, trapframe, new, argv>>
  BY DEF uvmalloc_fails, Goto
<1>2. Local(p)
  BY OwnParts
<1>3. /\ PGROUNDUP(sz[p]) \in Nat /\ PGROUNDUP(sz[p]) <= MaxPages /\ i[p] \in Nat /\ i[p] <= MaxPages + 1
      /\ MaxPages * PGSIZE \in Nat /\ MaxPages \in Nat
  BY SizeFacts
<1>4. Mapped(pt[p]) \subseteq 1 .. i[p] - 1
  BY <1>1, <1>2 DEF Local, GrowInv
<1>5. V \in SUBSET UserPages /\ (1 .. i[p] - 1) \ V \subseteq 1 .. PGROUNDUP(sz[p])
      /\ 1 .. PGROUNDUP(sz[p]) \subseteq UserPages \ V
  BY <1>3 DEF UserPages
<1> HIDE DEF V
<1>6. /\ free' \subseteq Pages /\ data' \in [Pages -> Contents] /\ pt' \in [Procs -> Table]
      /\ OwnInv(p)' /\ Own(p)' \cup free' = Own(p) \cup free /\ Own(p)' \cap free' = {}
      /\ \A g \in Pages \ (Own(p) \cup free) : data'[g] = data[g]
      /\ Mapped(pt'[p]) = Mapped(pt[p]) \ V
      /\ \A w \in UserPages \ V : PageOf(p, w)' = PageOf(p, w)
  BY <1>1, <1>5, UnmapOwn
<1>7. TypeOK'
  <2>1. 1 \in 1 .. MaxPages + 1 /\ 0 \in 0 .. (MaxPages * PGSIZE)
    BY <1>3
  <2>2. QED
    BY <1>1, <1>6, <2>1 DEF TypeOK, PC
<1>8. sz'[p] = sz[p] /\ pc'[p] = "user" /\ \A r \in Procs \ {p} : Same(r)
  BY <1>1 DEF TypeOK, Same
<1>9. Mapped(pt'[p]) \subseteq 1 .. PGROUNDUP(sz[p])
  BY <1>4, <1>5, <1>6
<1>10. Local(p)'
  BY <1>1, <1>2, <1>6, <1>8, <1>9 DEF Local, StateInv, GrowInv, LoadInv
<1>11. IInv' /\ \A r \in Procs \ {p} : SpaceOf(r)' = SpaceOf(r)
  BY <1>1, <1>6, <1>8, <1>10, SoloStep
<1>12. SpaceOf(p)' = SpaceOf(p)
  BY <1>1, <1>5, <1>6, <1>8 DEF SpaceOf
<1>13. QED
  BY <1>7, <1>11, <1>12, AbsSame

LEMMA StepFault ==
  ASSUME TypeOK, IInv, NEW p \in Procs, NEW v \in 1 .. MaxPages, vmfault(p, v)
  PROVE  TypeOK' /\ IInv' /\ [Abstract!Next]_Space
<1>1. /\ pc[p] = "user" /\ pt[p].pte[v] = NoPage /\ Cardinality(free) >= Needs(pt[p], v) /\ v <= PGROUNDUP(sz[p])
      /\ pt' = [pt EXCEPT ![p] = mappages(@, v, {"u", "w"})] /\ free' = free \ Taken(pt[p], v)
      /\ data' = [data EXCEPT ![Nth(1)] = Zero] /\ UNCHANGED <<sz, trapframe, new, argv, pc, i, arg>>
  BY DEF vmfault, InSpace, User
<1>2. Local(p) /\ PGROUNDUP(sz[p]) \in Nat /\ 1 .. PGROUNDUP(sz[p]) \subseteq UserPages
  BY OwnParts, PagesOf DEF TypeOK
<1>3. {"u", "w"} \in SUBSET {"u", "w"} /\ Zero \in Contents /\ v \in UserPages /\ v \in 1 .. PGROUNDUP(sz[p])
  BY <1>1, <1>2 DEF Contents, UserPages
<1>4. /\ free' \subseteq Pages /\ data' \in [Pages -> Contents] /\ pt' \in [Procs -> Table]
      /\ OwnInv(p)' /\ Own(p)' \cup free' = Own(p) \cup free /\ Own(p)' \cap free' = {}
      /\ \A g \in Pages \ (Own(p) \cup free) : data'[g] = data[g]
      /\ \A g \in Own(p) : data'[g] = data[g]
      /\ Mapped(pt'[p]) = Mapped(pt[p]) \cup {v}
      /\ \A w \in UserPages : pt'[p].pte[w] = IF w = v THEN Nth(1) ELSE pt[p].pte[w]
      /\ Nth(1) \in Pages /\ Nth(1) # NoPage /\ data'[Nth(1)] = Zero
  BY <1>1, <1>3, MapOwn
<1>5. TypeOK'
  BY <1>1, <1>4 DEF TypeOK
<1>6. \A r \in Procs \ {p} : Same(r)
  BY <1>1 DEF TypeOK, Same
<1>7. Local(p)'
  <2>1. Mapped(pt'[p]) \subseteq 1 .. PGROUNDUP(sz[p])
    BY <1>1, <1>2, <1>3, <1>4 DEF Local, StateInv
  <2>2. QED
    BY <1>1, <1>2, <1>4, <2>1 DEF Local, StateInv, GrowInv, LoadInv
<1>8. IInv' /\ \A r \in Procs \ {p} : SpaceOf(r)' = SpaceOf(r)
  BY <1>1, <1>4, <1>6, <1>7, SoloStep
<1>9. SpaceOf(p)' = SpaceOf(p)
  <2>1. \A w \in UserPages : PageOf(p, w)' = PageOf(p, w)
    BY <1>1, <1>4, MappedOwned DEF PageOf
  <2>2. QED
    BY <1>1, <1>2, <2>1 DEF SpaceOf
<1>10. QED
  BY <1>5, <1>8, <1>9, AbsSame

LEMMA StepStore ==
  ASSUME TypeOK, IInv, NEW p \in Procs, NEW v \in 1 .. MaxPages, NEW d \in Data, store(p, v, d)
  PROVE  TypeOK' /\ IInv' /\ [Abstract!Next]_Space
<1> DEFINE g == pt[p].pte[v]
<1>1. /\ pc[p] = "user" /\ v <= PGROUNDUP(sz[p]) /\ g # NoPage /\ data' = [data EXCEPT ![g] = d]
      /\ UNCHANGED <<free, pt, sz, trapframe, new, argv, pc, i, arg>>
  BY DEF store, InSpace, User, walkaddr
<1>2. /\ v \in UserPages /\ PGROUNDUP(sz[p]) \in Nat /\ 1 .. PGROUNDUP(sz[p]) \subseteq UserPages
      /\ v \in 1 .. PGROUNDUP(sz[p])
  BY <1>1, PagesOf DEF TypeOK, UserPages
<1>3. Local(p) /\ Tree(pt[p]) /\ Own(p) \cap free = {}
  BY OwnParts
<1>4. g \in Own(p) /\ g \in Pages
  BY <1>1, <1>2, MappedOwned
<1>5. \A w \in UserPages \ {v} : pt[p].pte[w] # g
  BY <1>1, <1>2, <1>3 DEF Tree
<1>6. PageOf(p, v)' = d /\ \A w \in UserPages \ {v} : PageOf(p, w)' = PageOf(p, w)
  <2>1. data'[g] = d /\ \A h \in Pages \ {g} : data'[h] = data[h]
    BY <1>1, <1>4 DEF TypeOK
  <2>2. \A w \in UserPages : pt[p].pte[w] # NoPage => pt[p].pte[w] \in Pages
    BY MappedOwned
  <2>3. QED
    BY <1>1, <1>2, <1>5, <2>1, <2>2 DEF PageOf
<1> HIDE DEF g
<1>7. TypeOK'
  BY <1>1, <1>4 DEF TypeOK, Contents
<1>8. \A r \in Procs \ {p} : Same(r)
  BY <1>1 DEF Same
<1>9. Local(p)'
  BY <1>1, <1>3 DEF Local, OwnInv, StateInv, GrowInv, LoadInv, Frames
<1>10. Own(p)' = Own(p) /\ \A h \in Pages \ (Own(p) \cup free) : data'[h] = data[h]
  BY <1>1, <1>4 DEF Own, Frames, TypeOK
<1>11. IInv' /\ \A r \in Procs \ {p} : SpaceOf(r)' = SpaceOf(r)
  BY <1>1, <1>3, <1>8, <1>9, <1>10, SoloStep
<1>12. SpaceOf(p)' = [SpaceOf(p) EXCEPT ![v] = d]
  <2>1. SpaceOf(p)' = [w \in 1 .. PGROUNDUP(sz[p]) |-> PageOf(p, w)']
    BY <1>1 DEF SpaceOf
  <2>2. SpaceOf(p) = [w \in 1 .. PGROUNDUP(sz[p]) |-> PageOf(p, w)]
    BY <1>1 DEF SpaceOf
  <2>3. \A w \in 1 .. PGROUNDUP(sz[p]) : PageOf(p, w)' = IF w = v THEN d ELSE PageOf(p, w)
    BY <1>2, <1>6
  <2>4. QED
    BY <1>2, <2>1, <2>2, <2>3
<1>13. SpaceOf(p) # <<"none">> /\ v \in 1 .. Len(SpaceOf(p))
  BY <1>1, <1>2, LiveSpace DEF Dead
<1>14. QED
  BY <1>7, <1>11, <1>12, <1>13, AbsStep

-----------------------------------------------------------------------------
(* exec() and the freeproc() of a zombie.                                  *)

LEMMA FreeAllOf ==
  ASSUME TypeOK, IInv, NEW p \in Procs
  PROVE  /\ pc[p] \notin {"grow", "embryo"} => proc_freepagetable(pt[p], PGROUNDUP(sz[p])) = Held(pt[p])
         /\ pc[p] # "load" => new[p] = NoTable /\ Held(new[p]) = {}
         /\ proc_freepagetable(new[p], i[p] - 1) = Held(new[p])
<1>1. /\ pt[p] \in Table /\ new[p] \in Table /\ PGROUNDUP(sz[p]) \in Nat /\ PGROUNDUP(sz[p]) <= MaxPages
      /\ i[p] - 1 \in Nat /\ i[p] - 1 <= MaxPages
  BY SizeFacts
<1>2. Local(p)
  BY OwnParts
<1>3. pc[p] \notin {"grow", "embryo"} => proc_freepagetable(pt[p], PGROUNDUP(sz[p])) = Held(pt[p])
  BY <1>1, <1>2, FreeAll DEF Local, StateInv
<1>4. pc[p] # "load" => new[p] = NoTable /\ Held(new[p]) = {}
  BY <1>2, NoTableFacts DEF Local, StateInv
<1>5. Mapped(new[p]) \subseteq 1 .. i[p] - 1
  BY <1>2, <1>4, NoTableFacts DEF Local, LoadInv
<1>6. proc_freepagetable(new[p], i[p] - 1) = Held(new[p])
  BY <1>1, <1>5, FreeAll
<1>7. QED
  BY <1>3, <1>4, <1>6

\* kfree() of pages of process p.
LEMMA Freed ==
  ASSUME TypeOK, IInv, NEW p \in Procs, NEW G \in SUBSET Own(p), kfree(G)
  PROVE  /\ free' = free \cup G /\ free' \subseteq Pages /\ data' \in [Pages -> Contents]
         /\ \A g \in Pages \ (Own(p) \cup free) : data'[g] = data[g]
         /\ \A g \in Own(p) \ G : data'[g] = data[g]
  BY OwnParts DEF kfree, TypeOK, Contents

LEMMA StepFree ==
  ASSUME TypeOK, IInv, NEW p \in Procs, freeproc(p)
  PROVE  TypeOK' /\ IInv' /\ [Abstract!Next]_Space
<1> DEFINE G == proc_freepagetable(pt[p], PGROUNDUP(sz[p])) \cup {trapframe[p]}
<1>1. /\ pc[p] = "zombie" /\ kfree(G) /\ pt' = [pt EXCEPT ![p] = NoTable] /\ trapframe' = [trapframe EXCEPT ![p] = NoPage]
      /\ sz' = [sz EXCEPT ![p] = 0] /\ pc' = [pc EXCEPT ![p] = "unused"] /\ UNCHANGED <<new, argv, i, arg>>
  BY DEF freeproc, Goto
<1>2. Local(p) /\ Own(p) = Held(pt[p]) \cup Held(new[p]) \cup Frames(p) /\ Own(p) \cap free = {} /\ Held(new[p]) = {}
  BY <1>1, OwnParts, FreeAllOf
<1>3. trapframe[p] # NoPage /\ argv[p] = NoPage /\ new[p] = NoTable
  BY <1>1, <1>2 DEF Local, StateInv
<1>4. G = Own(p)
  BY <1>1, <1>2, <1>3, FreeAllOf DEF Frames
<1> HIDE DEF G
<1>5. /\ free' = free \cup Own(p) /\ free' \subseteq Pages /\ data' \in [Pages -> Contents]
      /\ \A g \in Pages \ (Own(p) \cup free) : data'[g] = data[g]
  BY <1>1, <1>4, Freed
<1>6. /\ pt'[p] = NoTable /\ trapframe'[p] = NoPage /\ sz'[p] = 0 /\ pc'[p] = "unused" /\ new'[p] = NoTable /\ argv'[p] = NoPage
      /\ \A r \in Procs \ {p} : Same(r)
  BY <1>1, <1>3 DEF TypeOK, Same
<1>7. TypeOK'
  <2>1. 0 \in 0 .. (MaxPages * PGSIZE)
    BY Sizes
  <2>2. QED
    BY <1>1, <1>5, <2>1, NoTableFacts DEF TypeOK, PC
<1>8. Own(p)' = {}
  BY <1>6, NoTableFacts DEF Own, Frames
<1>9. Local(p)'
  <2>1. OwnInv(p)'
    BY <1>6, NoTableFacts DEF OwnInv
  <2>2. StateInv(p)'
    BY <1>6, NoTableFacts DEF StateInv
  <2>3. QED
    BY <1>6, <2>1, <2>2 DEF Local, GrowInv, LoadInv
<1>10. IInv' /\ \A r \in Procs \ {p} : SpaceOf(r)' = SpaceOf(r)
  BY <1>1, <1>5, <1>6, <1>8, <1>9, SoloStep
<1>11. SpaceOf(p)' = SpaceOf(p)
  BY <1>1, <1>6 DEF SpaceOf
<1>12. QED
  BY <1>7, <1>10, <1>11, AbsSame

LEMMA StepExec ==
  ASSUME TypeOK, IInv, NEW p \in Procs, sys_exec(p)
  PROVE  TypeOK' /\ IInv' /\ [Abstract!Next]_Space
<1> DEFINE g == Nth(1)
<1>1. /\ pc[p] = "user" /\ free # {} /\ argv' = [argv EXCEPT ![p] = g] /\ free' = free \ {g}
      /\ pc' = [pc EXCEPT ![p] = "exec"] /\ UNCHANGED <<data, pt, sz, trapframe, new, i, arg>>
  BY DEF sys_exec, User, Goto
<1>2. /\ Local(p) /\ Own(p) = Held(pt[p]) \cup Held(new[p]) \cup Frames(p) /\ Own(p) \cap free = {}
      /\ free \subseteq Pages /\ pt[p] \in Table
  BY OwnParts
<1>3. g \in free /\ g \in Pages /\ g # NoPage
  <2>1. Cardinality(free) >= 1
    BY <1>1, <1>2, FreeFinite, FS_EmptySet
  <2>2. QED
    BY <1>2, <2>1, NthFree, TableFacts
<1> HIDE DEF g
<1>4. argv[p] = NoPage /\ new[p] = NoTable
  BY <1>1, <1>2 DEF Local, StateInv
<1>5. argv'[p] = g /\ pc'[p] = "exec" /\ \A r \in Procs \ {p} : Same(r)
  BY <1>1 DEF TypeOK, Same
<1>6. TypeOK'
  BY <1>1, <1>3 DEF TypeOK, PC
<1>7. Frames(p)' = Frames(p) \cup {g} /\ Own(p)' = Own(p) \cup {g}
  BY <1>1, <1>2, <1>3, <1>4, <1>5 DEF Frames, Own
<1>8. Local(p)'
  <2>1. OwnInv(p)'
    <3>1. g \notin Held(pt[p]) /\ g \notin Held(new[p]) /\ g \notin Frames(p)
      BY <1>2, <1>3
    <3>2. trapframe[p] # g
      BY <1>3, <3>1 DEF Frames
    <3>3. QED
      BY <1>1, <1>2, <1>5, <1>7, <3>1, <3>2 DEF Local, OwnInv
  <2>2. StateInv(p)'
    BY <1>1, <1>2, <1>4, <1>5 DEF Local, StateInv
  <2>3. QED
    BY <1>5, <2>1, <2>2 DEF Local, GrowInv, LoadInv
<1>9. IInv' /\ \A r \in Procs \ {p} : SpaceOf(r)' = SpaceOf(r)
  <2>1. Own(p)' \cup free' = Own(p) \cup free /\ Own(p)' \cap free' = {}
    BY <1>1, <1>2, <1>3, <1>7
  <2>2. QED
    BY <1>1, <1>5, <1>8, <2>1, SoloStep
<1>10. SpaceOf(p)' = SpaceOf(p)
  BY <1>1, <1>5 DEF SpaceOf, PageOf
<1>11. QED
  BY <1>6, <1>9, <1>10, AbsSame

LEMMA StepExecTable ==
  ASSUME TypeOK, IInv, NEW p \in Procs, exec_pagetable(p)
  PROVE  TypeOK' /\ IInv' /\ [Abstract!Next]_Space
<1> DEFINE t == proc_pagetable
           G == {Nth(1), Nth(2)}
<1>1. /\ pc[p] = "exec" /\ Cardinality(free) >= 2 /\ new' = [new EXCEPT ![p] = t] /\ free' = free \ G
      /\ pc' = [pc EXCEPT ![p] = "load"] /\ i' = [i EXCEPT ![p] = 1] /\ UNCHANGED <<data, pt, sz, trapframe, argv, arg>>
  BY DEF exec_pagetable, Goto
<1>2. /\ Local(p) /\ Own(p) = Held(pt[p]) \cup Held(new[p]) \cup Frames(p) /\ Own(p) \cap free = {}
      /\ free \subseteq Pages /\ Held(new[p]) = {} /\ Held(pt[p]) \cap Frames(p) = {}
  BY <1>1, OwnParts, FreeAllOf
<1>3. G \subseteq free
  BY <1>1, <1>2, FreeFinite, NthFree
<1>4. t \in Table /\ Tree(t) /\ Held(t) = G /\ Mapped(t) = {}
  BY <1>1, NewTable
<1> HIDE DEF t, G
<1>5. new'[p] = t /\ pc'[p] = "load" /\ i'[p] = 1 /\ \A r \in Procs \ {p} : Same(r)
  BY <1>1 DEF TypeOK, Same
<1>6. TypeOK'
  <2>1. 1 \in 1 .. MaxPages + 1
    BY Sizes
  <2>2. QED
    BY <1>1, <1>2, <1>4, <2>1 DEF TypeOK, PC
<1>7. Frames(p)' = Frames(p) /\ Own(p)' = Own(p) \cup G
  BY <1>1, <1>2, <1>4, <1>5 DEF Frames, Own
<1>8. Local(p)'
  <2>1. OwnInv(p)'
    BY <1>1, <1>2, <1>3, <1>4, <1>5, <1>7 DEF Local, OwnInv
  <2>2. StateInv(p)'
    BY <1>1, <1>2, <1>5 DEF Local, StateInv
  <2>3. LoadInv(p)'
    <3>1. 1 .. 1 - 1 = {} /\ 1 <= Len(Image) + 1
      BY DEF Image
    <3>2. QED
      BY <1>4, <1>5, <3>1 DEF LoadInv
  <2>4. QED
    BY <1>5, <2>1, <2>2, <2>3 DEF Local, GrowInv
<1>9. IInv' /\ \A r \in Procs \ {p} : SpaceOf(r)' = SpaceOf(r)
  <2>1. Own(p)' \cup free' = Own(p) \cup free /\ Own(p)' \cap free' = {}
    BY <1>1, <1>2, <1>3, <1>7
  <2>2. QED
    BY <1>1, <1>5, <1>8, <2>1, SoloStep
<1>10. SpaceOf(p)' = SpaceOf(p)
  BY <1>1, <1>5 DEF SpaceOf, PageOf
<1>11. QED
  BY <1>6, <1>9, <1>10, AbsSame

LEMMA StepExecBad ==
  ASSUME TypeOK, IInv, NEW p \in Procs, exec_bad(p)
  PROVE  TypeOK' /\ IInv' /\ [Abstract!Next]_Space
<1> DEFINE G == proc_freepagetable(new[p], i[p] - 1) \cup {argv[p]}
<1>1. /\ pc[p] \in {"exec", "load"} /\ argv[p] # NoPage /\ kfree(G) /\ new' = [new EXCEPT ![p] = NoTable]
      /\ argv' = [argv EXCEPT ![p] = NoPage] /\ pc' = [pc EXCEPT ![p] = "user"] /\ i' = [i EXCEPT ![p] = 1]
      /\ UNCHANGED <<pt, sz, trapframe, arg>>
  BY DEF exec_bad, Goto
<1>2. /\ Local(p) /\ Own(p) = Held(pt[p]) \cup Held(new[p]) \cup Frames(p) /\ Own(p) \cap free = {}
      /\ Held(pt[p]) \cap Held(new[p]) = {} /\ Held(pt[p]) \cap Frames(p) = {} /\ Held(new[p]) \cap Frames(p) = {}
  BY OwnParts
<1>3. G = Held(new[p]) \cup {argv[p]} /\ argv[p] \in Frames(p)
  BY <1>1, FreeAllOf DEF Frames
<1>4. G \subseteq Own(p)
  BY <1>2, <1>3
<1>5. Own(p) \ G = Held(pt[p]) \cup (Frames(p) \ {argv[p]})
  BY <1>2, <1>3
<1> HIDE DEF G
<1>6. /\ free' = free \cup G /\ free' \subseteq Pages /\ data' \in [Pages -> Contents]
      /\ \A g \in Pages \ (Own(p) \cup free) : data'[g] = data[g]
      /\ \A g \in Own(p) \ G : data'[g] = data[g]
  BY <1>1, <1>4, Freed
<1>7. new'[p] = NoTable /\ argv'[p] = NoPage /\ pc'[p] = "user" /\ \A r \in Procs \ {p} : Same(r)
  BY <1>1 DEF TypeOK, Same
<1>8. TypeOK'
  <2>1. 1 \in 1 .. MaxPages + 1
    BY Sizes
  <2>2. QED
    BY <1>1, <1>6, <2>1, NoTableFacts DEF TypeOK, PC
<1>9. Frames(p)' = Frames(p) \ {argv[p]}
  <2>1. trapframe[p] # NoPage => trapframe[p] # argv[p]
    BY <1>2 DEF Local, OwnInv
  <2>2. QED
    BY <1>1, <1>7, <2>1 DEF Frames
<1>10. Own(p)' = Own(p) \ G
  BY <1>1, <1>5, <1>7, <1>9, NoTableFacts DEF Own
<1>11. Local(p)'
  <2>1. OwnInv(p)'
    BY <1>1, <1>2, <1>7, <1>9, NoTableFacts DEF Local, OwnInv
  <2>2. StateInv(p)'
    BY <1>1, <1>2, <1>7 DEF Local, StateInv
  <2>3. QED
    BY <1>7, <2>1, <2>2 DEF Local, GrowInv, LoadInv
<1>12. IInv' /\ \A r \in Procs \ {p} : SpaceOf(r)' = SpaceOf(r)
  <2>1. Own(p)' \cup free' = Own(p) \cup free /\ Own(p)' \cap free' = {}
    BY <1>2, <1>4, <1>6, <1>10
  <2>2. QED
    BY <1>1, <1>6, <1>7, <1>11, <2>1, SoloStep
<1>13. SpaceOf(p)' = SpaceOf(p)
  <2>1. \A v \in UserPages : pt[p].pte[v] # NoPage => pt[p].pte[v] \in Own(p) \ G
    <3>1. \A v \in UserPages : pt[p].pte[v] # NoPage => pt[p].pte[v] \in Held(pt[p])
      BY SizeFacts, TableFacts DEF Mapped
    <3>2. QED
      BY <1>5, <3>1
  <2>2. \A v \in UserPages : PageOf(p, v)' = PageOf(p, v)
    BY <1>1, <1>6, <2>1 DEF PageOf
  <2>3. 1 .. PGROUNDUP(sz[p]) \subseteq UserPages
    BY PagesOf DEF TypeOK
  <2>4. QED
    BY <1>1, <1>7, <2>2, <2>3 DEF SpaceOf
<1>14. QED
  BY <1>8, <1>12, <1>13, AbsSame

LEMMA ImageFacts ==
  /\ Len(Image) = 3 /\ 3 <= MaxPages /\ MaxPages \in Nat
  /\ \A v \in 1 .. 3 : Image[v] \in Contents /\ ImageFlags[v] \in SUBSET {"u", "w"}
  /\ Image = [v \in 1 .. 3 |-> Image[v]]
<1>1. Len(Image) = 3 /\ Image = [v \in 1 .. 3 |-> Image[v]] /\ \A v \in 1 .. 3 : Image[v] \in Contents
  BY DEF Image, Contents
<1>2. \A v \in 1 .. 3 : ImageFlags[v] \in SUBSET {"u", "w"}
  BY DEF ImageFlags, uvmclear
<1>3. QED
  BY <1>1, <1>2, Sizes

LEMMA StepLoad ==
  ASSUME TypeOK, IInv, NEW p \in Procs, exec_load(p)
  PROVE  TypeOK' /\ IInv' /\ [Abstract!Next]_Space
<1> DEFINE v == i[p]
           t == new[p]
           f == ImageFlags[v]
           d == Image[v]
           m == mappages(t, v, f)
           T == Taken(t, v)
<1>1. /\ pc[p] = "load" /\ v <= 3 /\ Cardinality(free) >= Needs(t, v) /\ new' = [new EXCEPT ![p] = m]
      /\ free' = free \ T /\ data' = [data EXCEPT ![Nth(1)] = d] /\ i' = [i EXCEPT ![p] = v + 1]
      /\ UNCHANGED <<pt, sz, trapframe, argv, pc, arg>>
  BY ImageFacts DEF exec_load
<1>2. /\ t \in Table /\ Tree(t) /\ Own(p) = Held(pt[p]) \cup Held(t) \cup Frames(p) /\ Own(p) \cap free = {}
      /\ Held(pt[p]) \cap Held(t) = {} /\ Held(pt[p]) \cap Frames(p) = {} /\ Held(t) \cap Frames(p) = {}
      /\ Own(p) \subseteq Pages /\ free \subseteq Pages /\ Local(p) /\ Held(t) \cap free = {}
  BY OwnParts
<1>3. v \in 1 .. 3 /\ v \in UserPages /\ v + 1 \in 1 .. MaxPages + 1 /\ v + 1 <= 3 + 1 /\ v \in Nat
  BY <1>1, SizeFacts, ImageFacts DEF UserPages
<1>4. Mapped(t) = 1 .. v - 1 /\ \A w \in 1 .. v - 1 : data[t.pte[w]] = Image[w]
  BY <1>1, <1>2 DEF Local, LoadInv
<1>5. t.pte[v] = NoPage /\ f \in SUBSET {"u", "w"} /\ d \in Contents
  <2>1. v \notin Mapped(t)
    BY <1>3, <1>4
  <2>2. QED
    BY <1>3, <2>1, ImageFacts DEF Mapped
<1> HIDE DEF v, t, f, d
<1>6. /\ m \in Table /\ Tree(m) /\ T \subseteq free /\ Held(m) = Held(t) \cup T
      /\ Nth(1) \in T /\ m.pte = [t.pte EXCEPT ![v] = Nth(1)] /\ Mapped(m) = Mapped(t) \cup {v}
  BY <1>1, <1>2, <1>3, <1>5, MapPage
<1> HIDE DEF m, T
<1>7. new'[p] = m /\ i'[p] = v + 1 /\ pc'[p] = "load" /\ pt'[p] = pt[p] /\ \A r \in Procs \ {p} : Same(r)
  BY <1>1 DEF TypeOK, Same
<1>8. Nth(1) \in free /\ Nth(1) \in Pages
  BY <1>2, <1>6
<1>9. data' \in [Pages -> Contents] /\ data'[Nth(1)] = d /\ \A g \in Pages \ {Nth(1)} : data'[g] = data[g]
  BY <1>1, <1>5, <1>8 DEF TypeOK
<1>10. TypeOK'
  BY <1>1, <1>2, <1>3, <1>6, <1>9 DEF TypeOK
<1>11. Frames(p)' = Frames(p) /\ Own(p)' = Own(p) \cup T
  BY <1>1, <1>2, <1>6, <1>7 DEF Frames, Own
<1>12. \A g \in Own(p) : data'[g] = data[g]
  BY <1>2, <1>8, <1>9
<1>13. Local(p)'
  <2>1. OwnInv(p)'
    BY <1>1, <1>2, <1>6, <1>7, <1>11 DEF Local, OwnInv
  <2>2. StateInv(p)'
    BY <1>1, <1>2, <1>7 DEF Local, StateInv
  <2>3. Mapped(m) = 1 .. (v + 1) - 1
    BY <1>3, <1>4, <1>6
  <2>4. \A w \in 1 .. (v + 1) - 1 : data'[m.pte[w]] = Image[w]
    <3> SUFFICES ASSUME NEW w \in 1 .. (v + 1) - 1 PROVE data'[m.pte[w]] = Image[w]
      OBVIOUS
    <3>1. w \in UserPages /\ t.pte \in [UserPages -> Pages \cup {NoPage}]
      BY <1>2, <1>3, TableFacts, Sizes DEF UserPages
    <3>2. CASE w = v
      BY <1>3, <1>6, <1>9, <3>1, <3>2 DEF d
    <3>3. CASE w # v
      <4>1. w \in 1 .. v - 1
        BY <1>3, <3>3
      <4>2. m.pte[w] = t.pte[w] /\ t.pte[w] # NoPage
        BY <1>4, <1>6, <3>1, <3>3, <4>1 DEF Mapped
      <4>3. t.pte[w] \in Own(p)
        BY <3>1, <4>2, MappedOwned DEF t
      <4>4. QED
        BY <1>4, <1>12, <4>1, <4>2, <4>3
    <3>4. QED
      BY <3>2, <3>3
  <2>5. LoadInv(p)'
    BY <1>3, <1>7, <2>3, <2>4, ImageFacts DEF LoadInv
  <2>6. QED
    BY <1>7, <2>1, <2>2, <2>5 DEF Local, GrowInv
<1>14. IInv' /\ \A r \in Procs \ {p} : SpaceOf(r)' = SpaceOf(r)
  <2>1. Own(p)' \cup free' = Own(p) \cup free /\ Own(p)' \cap free' = {}
    BY <1>1, <1>2, <1>6, <1>11
  <2>2. \A g \in Pages \ (Own(p) \cup free) : data'[g] = data[g]
    BY <1>8, <1>9
  <2>3. QED
    BY <1>1, <1>7, <1>13, <2>1, <2>2, SoloStep
<1>15. SpaceOf(p)' = SpaceOf(p)
  <2>1. \A w \in UserPages : PageOf(p, w)' = PageOf(p, w)
    BY <1>7, <1>12, MappedOwned DEF PageOf
  <2>2. 1 .. PGROUNDUP(sz[p]) \subseteq UserPages
    BY PagesOf DEF TypeOK
  <2>3. QED
    BY <1>1, <1>7, <2>1, <2>2 DEF SpaceOf
<1>16. QED
  BY <1>10, <1>14, <1>15, AbsSame

LEMMA StepCommit ==
  ASSUME TypeOK, IInv, NEW p \in Procs, exec_commit(p)
  PROVE  TypeOK' /\ IInv' /\ [Abstract!Next]_Space
<1> DEFINE t == new[p]
           n == 3 * PGSIZE
           G == (proc_freepagetable(pt[p], PGROUNDUP(sz[p])) \cup {argv[p]}) \ {NoPage}
<1>1. /\ pc[p] = "load" /\ i[p] > 3 /\ pt' = [pt EXCEPT ![p] = t] /\ sz' = [sz EXCEPT ![p] = n] /\ kfree(G)
      /\ new' = [new EXCEPT ![p] = NoTable] /\ argv' = [argv EXCEPT ![p] = NoPage]
      /\ pc' = [pc EXCEPT ![p] = "user"] /\ i' = [i EXCEPT ![p] = 1] /\ UNCHANGED <<trapframe, arg>>
  BY ImageFacts DEF exec_commit, Goto
<1>2. /\ t \in Table /\ Tree(t) /\ Own(p) = Held(pt[p]) \cup Held(t) \cup Frames(p) /\ Own(p) \cap free = {}
      /\ Held(pt[p]) \cap Held(t) = {} /\ Held(pt[p]) \cap Frames(p) = {} /\ Held(t) \cap Frames(p) = {}
      /\ Own(p) \subseteq Pages /\ free \subseteq Pages /\ Local(p) /\ NoPage \notin Held(pt[p])
  BY OwnParts, TableFacts
<1>3. G = Held(pt[p]) \cup ({argv[p]} \ {NoPage})
  BY <1>1, <1>2, FreeAllOf
<1>4. G \subseteq Own(p) /\ Own(p) \ G = Held(t) \cup (Frames(p) \ {argv[p]}) /\ Held(t) \subseteq Own(p) \ G
  BY <1>2, <1>3 DEF Frames
<1>5. i[p] = 4 /\ Mapped(t) = 1 .. 3 /\ \A v \in 1 .. 3 : data[t.pte[v]] = Image[v]
  <2>1. i[p] <= 3 + 1 /\ i[p] \in Nat
    BY <1>1, <1>2, ImageFacts, SizeFacts DEF Local, LoadInv
  <2>2. i[p] = 4 /\ i[p] - 1 = 3
    BY <1>1, <2>1
  <2>3. QED
    BY <1>1, <1>2, <2>2 DEF Local, LoadInv
<1>6. n \in 0 .. (MaxPages * PGSIZE) /\ PGROUNDUP(n) = 3
  <2>1. n \in Nat /\ PGROUNDUP(n) = 3
    BY RoundUpFacts
  <2>2. n <= MaxPages * PGSIZE
    BY Sizes, TimesMono
  <2>3. MaxPages * PGSIZE \in Nat
    BY Sizes
  <2> HIDE DEF n
  <2>4. QED
    BY <2>1, <2>2, <2>3
<1> HIDE DEF t, G, n
<1>7. /\ free' = free \cup G /\ free' \subseteq Pages /\ data' \in [Pages -> Contents]
      /\ \A g \in Pages \ (Own(p) \cup free) : data'[g] = data[g]
      /\ \A g \in Own(p) \ G : data'[g] = data[g]
  BY <1>1, <1>4, Freed
<1>8. /\ pt'[p] = t /\ sz'[p] = n /\ new'[p] = NoTable /\ argv'[p] = NoPage /\ pc'[p] = "user"
      /\ \A r \in Procs \ {p} : Same(r)
  BY <1>1 DEF TypeOK, Same
<1>9. TypeOK'
  <2>1. 1 \in 1 .. MaxPages + 1
    BY Sizes
  <2>2. QED
    BY <1>1, <1>2, <1>6, <1>7, <2>1, NoTableFacts DEF TypeOK, PC
<1>10. Frames(p)' = Frames(p) \ {argv[p]}
  <2>1. trapframe[p] # NoPage => trapframe[p] # argv[p]
    BY <1>2 DEF Local, OwnInv
  <2>2. QED
    BY <1>1, <1>8, <2>1 DEF Frames
<1>11. Own(p)' = Own(p) \ G
  BY <1>4, <1>8, <1>10, NoTableFacts DEF Own
<1>12. Local(p)'
  <2>1. OwnInv(p)'
    BY <1>1, <1>2, <1>8, <1>10, NoTableFacts DEF Local, OwnInv
  <2>2. StateInv(p)'
    BY <1>1, <1>2, <1>5, <1>6, <1>8 DEF Local, StateInv
  <2>3. QED
    BY <1>8, <2>1, <2>2 DEF Local, GrowInv, LoadInv
<1>13. IInv' /\ \A r \in Procs \ {p} : SpaceOf(r)' = SpaceOf(r)
  <2>1. Own(p)' \cup free' = Own(p) \cup free /\ Own(p)' \cap free' = {}
    BY <1>2, <1>4, <1>7, <1>11
  <2>2. QED
    BY <1>1, <1>7, <1>8, <1>12, <2>1, SoloStep
<1>14. SpaceOf(p)' = Image
  <2>1. SpaceOf(p)' = [v \in 1 .. 3 |-> PageOf(p, v)']
    BY <1>6, <1>8 DEF SpaceOf
  <2>2. ASSUME NEW v \in 1 .. 3 PROVE PageOf(p, v)' = Image[v]
    <3>1. v \in Mapped(t)
      BY <1>5
    <3>2. t.pte[v] # NoPage /\ t.pte[v] \in Held(t)
      BY <1>2, <3>1, TableFacts DEF Mapped
    <3>3. QED
      BY <1>4, <1>5, <1>7, <1>8, <3>2 DEF PageOf
  <2>3. QED
    BY <2>1, <2>2, ImageFacts
<1>15. SpaceOf(p) # <<"none">>
  BY <1>1, LiveSpace DEF Dead
<1>16. QED
  BY <1>9, <1>13, <1>14, <1>15, AbsStep

-----------------------------------------------------------------------------
(* fork().                                                                 *)

\* A step of process p and its child q that moves pages of q only.
LEMMA PairStep ==
  ASSUME TypeOK, IInv, NEW p \in Procs, NEW q \in Procs, p # q, \A r \in Procs \ {p, q} : Same(r),
         \A r \in Procs \ {p, q} : pc[r] = "fork" => Child(r) \notin {p, q},
         \A g \in Pages \ (Own(q) \cup free) : data'[g] = data[g], Own(p)' = Own(p),
         Own(q)' \cup free' = Own(q) \cup free, Own(q)' \cap free' = {},
         Local(p)', Local(q)', CopyInv(p)', pc'[q] # "fork"
  PROVE  IInv' /\ \A r \in Procs \ {p, q} : SpaceOf(r)' = SpaceOf(r)
<1>1. CopyInv(q)'
  BY DEF CopyInv
<1> DEFINE S == {p, q}
<1>2. /\ S \in SUBSET Procs /\ q \in S
      /\ \A r \in Procs \ S : Same(r) /\ (pc[r] = "fork" => Child(r) \notin S)
      /\ \A r \in S \ {q} : Own(r)' = Own(r)
      /\ \A r \in S : Local(r)' /\ CopyInv(r)'
  BY <1>1
<1>3. Procs \ S = Procs \ {p, q}
  OBVIOUS
<1> HIDE DEF S
<1>4. IInv' /\ \A r \in Procs \ S : SpaceOf(r)' = SpaceOf(r)
  BY <1>2, Frame
<1>5. QED
  BY <1>3, <1>4

\* A process that forks, and its child.
LEMMA Pair ==
  ASSUME TypeOK, IInv, NEW p \in Procs, pc[p] = "fork"
  PROVE  /\ Child(p) \in Procs /\ pc[Child(p)] = "embryo" /\ Child(p) # p
         /\ \A r \in Procs \ {p, Child(p)} : pc[r] = "fork" => Child(r) \notin {p, Child(p)}
         /\ \A g \in Own(p) : g \in Pages \ (Own(Child(p)) \cup free)
         /\ trapframe[Child(p)] # NoPage /\ argv[Child(p)] = NoPage /\ new[Child(p)] = NoTable
         /\ Mapped(pt[Child(p)]) = {v \in Mapped(pt[p]) : v < i[p]}
         /\ \A v \in Mapped(pt[Child(p)]) : data[pt[Child(p)].pte[v]] = data[pt[p].pte[v]]
         /\ \A r \in Procs : pc[r] = "fork" /\ Child(r) = Child(p) => r = p
         /\ i[p] <= PGROUNDUP(sz[p]) + 1
<1>1. CopyInv(p)
  BY DEF IInv
<1>2. /\ Child(p) \in Procs /\ pc[Child(p)] = "embryo" /\ Child(p) # p
      /\ \A r \in Procs : pc[r] = "fork" /\ Child(r) = Child(p) => r = p
  BY <1>1 DEF CopyInv
<1>3. \A r \in Procs \ {p, Child(p)} : pc[r] = "fork" => Child(r) \notin {p, Child(p)}
  BY <1>2 DEF IInv, CopyInv
<1>4. \A g \in Own(p) : g \in Pages \ (Own(Child(p)) \cup free)
  BY <1>2, MappedOwned DEF IInv, MemoryInv
<1>5. trapframe[Child(p)] # NoPage /\ argv[Child(p)] = NoPage /\ new[Child(p)] = NoTable
  BY <1>2 DEF IInv, StateInv
<1>6. QED
  BY <1>1, <1>2, <1>3, <1>4, <1>5 DEF CopyInv

LEMMA StepAllocproc ==
  ASSUME TypeOK, IInv, NEW p \in Procs, NEW q \in Procs, allocproc(p, q)
  PROVE  TypeOK' /\ IInv' /\ [Abstract!Next]_Space
<1> DEFINE t == proc_pagetable
           f == Nth(3)
           G == {Nth(1), Nth(2)}
<1>1. /\ pc[p] = "user" /\ trapframe[p] # NoPage /\ trapframe[q] = NoPage /\ Cardinality(free) >= 3
      /\ pt' = [pt EXCEPT ![q] = t] /\ trapframe' = [trapframe EXCEPT ![q] = f] /\ free' = free \ {Nth(k) : k \in 1 .. 3}
      /\ pc' = [pc EXCEPT ![p] = "fork", ![q] = "embryo"] /\ arg' = [arg EXCEPT ![p] = q] /\ i' = [i EXCEPT ![p] = 1]
      /\ UNCHANGED <<data, sz, new, argv>>
  BY DEF allocproc, User
<1>2. p # q
  BY <1>1
<1>3. /\ Local(p) /\ Local(q) /\ Own(p) \cap free = {} /\ free \subseteq Pages /\ Own(p) \subseteq Pages
      /\ Own(q) = Held(pt[q]) \cup Held(new[q]) \cup Frames(q)
  BY OwnParts
<1>4. pc[q] = "unused" /\ pt[q] = NoTable /\ new[q] = NoTable /\ argv[q] = NoPage
  BY <1>1, <1>3 DEF Local, StateInv
<1>5. Own(q) = {}
  BY <1>1, <1>3, <1>4, NoTableFacts DEF Frames
<1>6. G \subseteq free /\ f \in free /\ f \notin G /\ {Nth(k) : k \in 1 .. 3} = G \cup {f}
  <2>1. Cardinality(free) \in Nat
    BY <1>3, FreeFinite
  <2>2. 1 .. 3 = {1, 2, 3}
    OBVIOUS
  <2>3. {Nth(k) : k \in 1 .. 3} = G \cup {f}
    BY <2>2
  <2>4. QED
    BY <1>1, <2>1, <2>3, NthFree
<1>7. t \in Table /\ Tree(t) /\ Held(t) = G /\ Mapped(t) = {}
  <2>1. Cardinality(free) \in Nat
    BY <1>3, FreeFinite
  <2>2. Cardinality(free) >= 2
    BY <1>1, <2>1
  <2>3. QED
    BY <2>2, NewTable
<1>8. f \in Pages /\ f # NoPage
  BY <1>3, <1>6, <1>7, TableFacts
<1>9. free' = free \ (G \cup {f})
  BY <1>1, <1>6
<1> HIDE DEF t, f, G
<1>10. /\ pt'[q] = t /\ trapframe'[q] = f /\ pc'[q] = "embryo" /\ new'[q] = NoTable /\ argv'[q] = NoPage
       /\ pc'[p] = "fork" /\ arg'[p] = q /\ i'[p] = 1 /\ pt'[p] = pt[p] /\ new'[p] = new[p] /\ sz'[p] = sz[p]
       /\ trapframe'[p] = trapframe[p] /\ argv'[p] = argv[p]
       /\ \A r \in Procs \ {p, q} : Same(r)
  BY <1>1, <1>2, <1>4 DEF TypeOK, Same
<1>11. TypeOK'
  <2>1. 1 \in 1 .. MaxPages + 1
    BY Sizes
  <2>2. QED
    BY <1>1, <1>3, <1>7, <1>8, <2>1 DEF TypeOK, PC
<1>12. Own(p)' = Own(p)
  BY <1>10 DEF Own, Frames
<1>13. Frames(q)' = {f} /\ Own(q)' = G \cup {f}
  BY <1>7, <1>8, <1>10, NoTableFacts DEF Own, Frames
<1>14. Local(p)'
  <2>1. OwnInv(p)'
    BY <1>3, <1>10 DEF Local, OwnInv, Frames
  <2>2. StateInv(p)'
    BY <1>1, <1>3, <1>10 DEF Local, StateInv
  <2>3. QED
    BY <1>10, <2>1, <2>2 DEF Local, GrowInv, LoadInv
<1>15. Local(q)'
  <2>1. OwnInv(q)'
    BY <1>6, <1>7, <1>8, <1>10, <1>13, NoTableFacts DEF OwnInv
  <2>2. StateInv(q)'
    BY <1>8, <1>10 DEF StateInv
  <2>3. QED
    BY <1>10, <2>1, <2>2 DEF Local, GrowInv, LoadInv
<1>16. \A r \in Procs \ {p, q} : pc[r] = "fork" => Child(r) \notin {p, q}
  BY <1>1, <1>4 DEF IInv, CopyInv
<1>17. CopyInv(p)'
  <2>1. Child(p)' = q
    BY <1>10 DEF Child
  <2>2. ASSUME NEW r \in Procs, pc'[r] = "fork", Child(r)' = q PROVE r = p
    <3>1. CASE r \in Procs \ {p, q}
      BY <1>10, <1>16, <2>2, <3>1 DEF Same, Child
    <3>2. QED
      BY <1>10, <2>2, <3>1
  <2>3. 1 <= PGROUNDUP(sz[p]) + 1
    BY SizeFacts
  <2>4. {v \in Mapped(pt[p]) : v < 1} = {}
    BY DEF Mapped, UserPages
  <2>5. QED
    BY <1>7, <1>10, <2>1, <2>2, <2>3, <2>4 DEF CopyInv
<1>18. IInv' /\ \A r \in Procs \ {p, q} : SpaceOf(r)' = SpaceOf(r)
  <2>1. Own(q)' \cup free' = Own(q) \cup free /\ Own(q)' \cap free' = {}
    BY <1>5, <1>6, <1>9, <1>13
  <2>2. \A g \in Pages \ (Own(q) \cup free) : data'[g] = data[g]
    BY <1>1
  <2>3. QED
    BY <1>2, <1>10, <1>12, <1>14, <1>15, <1>16, <1>17, <2>1, <2>2, PairStep
<1>19. SpaceOf(p)' = SpaceOf(p) /\ SpaceOf(q)' = SpaceOf(q)
  <2>1. \A v : PageOf(p, v)' = PageOf(p, v)
    BY <1>1, <1>10 DEF PageOf
  <2>2. SpaceOf(p)' = SpaceOf(p)
    BY <1>1, <1>10, <2>1 DEF SpaceOf
  <2>3. SpaceOf(q)' = SpaceOf(q)
    BY <1>4, <1>10 DEF SpaceOf
  <2>4. QED
    BY <2>2, <2>3
<1>20. QED
  BY <1>11, <1>18, <1>19, AbsSame

LEMMA StepCopy ==
  ASSUME TypeOK, IInv, NEW p \in Procs, uvmcopy(p)
  PROVE  TypeOK' /\ IInv' /\ [Abstract!Next]_Space
<1>0. PICK q \in Procs : q = Child(p)
  BY Pair DEF uvmcopy
<1> DEFINE v == i[p]
           g == pt[p].pte[v]
<1>1. /\ pc[p] = "fork" /\ v <= PGROUNDUP(sz[p]) /\ i' = [i EXCEPT ![p] = v + 1]
      /\ UNCHANGED <<sz, trapframe, new, argv, pc, arg>>
  BY DEF uvmcopy
<1>2. \/ g = NoPage /\ UNCHANGED <<free, data, pt>>
      \/ /\ g # NoPage /\ Cardinality(free) >= Needs(pt[q], v)
         /\ pt' = [pt EXCEPT ![q] = mappages(@, v, pt[p].flags[v])] /\ free' = free \ Taken(pt[q], v)
         /\ data' = [data EXCEPT ![Nth(1)] = data[g]]
  BY <1>0 DEF uvmcopy, Copied
<1>3. /\ q \in Procs /\ pc[q] = "embryo" /\ q # p
      /\ \A r \in Procs \ {p, q} : pc[r] = "fork" => Child(r) \notin {p, q}
      /\ \A h \in Own(p) : h \in Pages \ (Own(q) \cup free)
      /\ Mapped(pt[q]) = {w \in Mapped(pt[p]) : w < v}
      /\ \A w \in Mapped(pt[q]) : data[pt[q].pte[w]] = data[pt[p].pte[w]]
      /\ \A r \in Procs : pc[r] = "fork" /\ Child(r) = q => r = p
  BY <1>0, <1>1, Pair
<1>4. /\ v \in Nat /\ 1 <= v /\ PGROUNDUP(sz[p]) \in Nat /\ PGROUNDUP(sz[p]) <= MaxPages /\ MaxPages \in Nat
      /\ 1 .. PGROUNDUP(sz[p]) \subseteq UserPages
  BY SizeFacts, PagesOf DEF TypeOK
<1>5. v \in UserPages /\ v + 1 \in 1 .. MaxPages + 1 /\ v + 1 <= PGROUNDUP(sz[p]) + 1
  BY <1>1, <1>4 DEF UserPages
<1>6. pt[q].pte[v] = NoPage
  <2>1. v \notin Mapped(pt[q])
    BY <1>3, <1>4
  <2>2. QED
    BY <1>5, <2>1 DEF Mapped
<1>7. Local(p) /\ Local(q) /\ Own(q) \cap free = {} /\ pt[p] \in Table /\ pt[q] \in Table
  BY <1>3, OwnParts
<1>8. g # NoPage => g \in Own(p) /\ g \in Pages
  BY <1>5, MappedOwned
<1>9. \A w \in Mapped(pt[p]) : w \in Nat
  BY DEF Mapped, UserPages
<1> HIDE DEF v, g
<1>10. /\ i'[p] = v + 1 /\ pc'[p] = "fork" /\ pc'[q] = "embryo" /\ sz'[p] = sz[p] /\ Child(p)' = q
       /\ \A r \in Procs : pc'[r] = pc[r] /\ Child(r)' = Child(r)
  BY <1>0, <1>1, <1>3 DEF TypeOK, Child
<1>11. CASE g = NoPage
  <2>1. UNCHANGED <<free, data, pt>>
    BY <1>2, <1>11
  <2>2. TypeOK'
    BY <1>1, <1>5, <2>1 DEF TypeOK
  <2>3. (\A r \in Procs \ {p, q} : Same(r)) /\ Same(q)
    BY <1>1, <1>3, <2>1 DEF TypeOK, Same
  <2>4. Own(p)' = Own(p)
    BY <1>1, <2>1 DEF Own, Frames
  <2>5. Local(q)' /\ Own(q)' = Own(q) /\ SpaceOf(q)' = SpaceOf(q)
    BY <1>3, <1>7, <2>1, <2>3, KeptLocal
  <2>6. Local(p)'
    BY <1>1, <1>7, <2>1 DEF Local, OwnInv, StateInv, GrowInv, LoadInv, Frames
  <2>7. {w \in Mapped(pt[p]) : w < v + 1} = {w \in Mapped(pt[p]) : w < v}
    <3>1. v \notin Mapped(pt[p])
      BY <1>11 DEF Mapped, g
    <3>2. \A w \in Mapped(pt[p]) : w < v + 1 <=> w < v
      BY <1>4, <1>9, <3>1
    <3>3. QED
      BY <3>2
  <2>8. CopyInv(p)'
    BY <1>3, <1>5, <1>10, <2>1, <2>7 DEF CopyInv
  <2>9. IInv' /\ \A r \in Procs \ {p, q} : SpaceOf(r)' = SpaceOf(r)
    BY <1>3, <1>7, <1>10, <2>1, <2>3, <2>4, <2>5, <2>6, <2>8, PairStep
  <2>10. SpaceOf(p)' = SpaceOf(p)
    BY <1>1, <2>1 DEF SpaceOf, PageOf
  <2>11. QED
    BY <2>2, <2>5, <2>9, <2>10, AbsSame
<1>12. CASE g # NoPage
  <2> DEFINE d == data[g]
             f == pt[p].flags[v]
  <2>1. /\ Cardinality(free) >= Needs(pt[q], v) /\ pt' = [pt EXCEPT ![q] = mappages(@, v, f)]
        /\ free' = free \ Taken(pt[q], v) /\ data' = [data EXCEPT ![Nth(1)] = d]
    BY <1>2, <1>12
  <2>2. d \in Contents /\ f \in SUBSET {"u", "w"}
    <3>1. d \in Contents
      BY <1>8, <1>12 DEF TypeOK
    <3>2. pt[p].flags \in [UserPages -> SUBSET {"u", "w"}]
      BY <1>7, TableFacts
    <3>3. QED
      BY <1>5, <3>1, <3>2
  <2> HIDE DEF d, f
  <2>3. trapframe'[q] = trapframe[q] /\ new'[q] = new[q] /\ argv'[q] = argv[q]
    BY <1>1
  <2>4. /\ free' \subseteq Pages /\ data' \in [Pages -> Contents] /\ pt' \in [Procs -> Table]
        /\ OwnInv(q)' /\ Own(q)' \cup free' = Own(q) \cup free /\ Own(q)' \cap free' = {}
        /\ \A h \in Pages \ (Own(q) \cup free) : data'[h] = data[h]
        /\ \A h \in Own(q) : data'[h] = data[h]
        /\ Mapped(pt'[q]) = Mapped(pt[q]) \cup {v}
        /\ \A w \in UserPages : pt'[q].pte[w] = IF w = v THEN Nth(1) ELSE pt[q].pte[w]
        /\ Nth(1) \in Pages /\ Nth(1) # NoPage /\ data'[Nth(1)] = d
    BY <1>3, <1>5, <1>6, <2>1, <2>2, <2>3, MapOwn
  <2>5. TypeOK'
    BY <1>1, <1>5, <2>4 DEF TypeOK
  <2>6. pt'[p] = pt[p] /\ \A r \in Procs \ {p, q} : Same(r)
    BY <1>1, <1>3, <2>1 DEF TypeOK, Same
  <2>7. Own(p)' = Own(p) /\ \A h \in Own(p) : data'[h] = data[h]
    BY <1>1, <1>3, <2>4, <2>6 DEF Own, Frames
  <2>8. Local(p)'
    BY <1>1, <1>7, <2>6 DEF Local, OwnInv, StateInv, GrowInv, LoadInv, Frames
  <2>9. Local(q)'
    <3>1. StateInv(q)'
      BY <1>1, <1>3, <1>7 DEF Local, StateInv
    <3>2. QED
      BY <1>10, <2>4, <3>1 DEF Local, GrowInv, LoadInv
  <2>10. Mapped(pt'[q]) = {w \in Mapped(pt[p]) : w < v + 1}
    <3>1. v \in Mapped(pt[p])
      BY <1>5, <1>12 DEF Mapped, g
    <3>2. \A w \in Mapped(pt[p]) : w < v + 1 <=> w < v \/ w = v
      BY <1>4, <1>9
    <3>3. QED
      BY <1>3, <2>4, <3>1, <3>2
  <2>11. \A w \in Mapped(pt'[q]) : data'[pt'[q].pte[w]] = data'[pt[p].pte[w]]
    <3> SUFFICES ASSUME NEW w \in Mapped(pt'[q]) PROVE data'[pt'[q].pte[w]] = data'[pt[p].pte[w]]
      OBVIOUS
    <3>1. w \in UserPages /\ w \in Mapped(pt[p]) /\ pt[p].pte[w] # NoPage
      BY <2>10 DEF Mapped
    <3>2. data'[pt[p].pte[w]] = data[pt[p].pte[w]]
      BY <2>7, <3>1, MappedOwned
    <3>3. CASE w = v
      BY <2>4, <3>1, <3>2, <3>3 DEF d, g
    <3>4. CASE w # v
      <4>1. w \in Mapped(pt[q]) /\ pt'[q].pte[w] = pt[q].pte[w] /\ pt[q].pte[w] # NoPage
        BY <2>4, <3>1, <3>4 DEF Mapped
      <4>2. pt[q].pte[w] \in Own(q)
        BY <1>3, <3>1, <4>1, MappedOwned
      <4>3. QED
        BY <1>3, <2>4, <3>2, <4>1, <4>2
    <3>5. QED
      BY <3>3, <3>4
  <2>12. CopyInv(p)'
    BY <1>3, <1>5, <1>10, <2>6, <2>10, <2>11 DEF CopyInv
  <2>13. IInv' /\ \A r \in Procs \ {p, q} : SpaceOf(r)' = SpaceOf(r)
    BY <1>3, <1>10, <2>4, <2>6, <2>7, <2>8, <2>9, <2>12, PairStep
  <2>14. SpaceOf(p)' = SpaceOf(p)
    <3>1. \A w \in UserPages : PageOf(p, w)' = PageOf(p, w)
      BY <2>6, <2>7, MappedOwned DEF PageOf
    <3>2. QED
      BY <1>1, <1>4, <3>1 DEF SpaceOf
  <2>15. SpaceOf(q)' = SpaceOf(q)
    BY <1>3, <1>10 DEF SpaceOf
  <2>16. QED
    BY <2>5, <2>13, <2>14, <2>15, AbsSame
<1>13. QED
  BY <1>11, <1>12

LEMMA StepCopyFails ==
  ASSUME TypeOK, IInv, NEW p \in Procs, uvmcopy_fails(p)
  PROVE  TypeOK' /\ IInv' /\ [Abstract!Next]_Space
<1>0. PICK q \in Procs : q = Child(p)
  BY Pair DEF uvmcopy_fails
<1> DEFINE t == pt[q]
           V == UnmapOnError(i[p])
           G == Leaves(t, V) \cup proc_freepagetable(uvmunmap(t, V), 0) \cup {trapframe[q]}
<1>1. /\ pc[p] = "fork" /\ kfree(G) /\ pt' = [pt EXCEPT ![q] = NoTable] /\ trapframe' = [trapframe EXCEPT ![q] = NoPage]
      /\ pc' = [pc EXCEPT ![p] = "user", ![q] = "unused"] /\ arg' = [arg EXCEPT ![p] = 0] /\ i' = [i EXCEPT ![p] = 1]
      /\ UNCHANGED <<sz, new, argv>>
  BY <1>0 DEF uvmcopy_fails
<1>2. /\ q \in Procs /\ pc[q] = "embryo" /\ q # p
      /\ \A r \in Procs \ {p, q} : pc[r] = "fork" => Child(r) \notin {p, q}
      /\ \A h \in Own(p) : h \in Pages \ (Own(q) \cup free)
      /\ Mapped(pt[q]) = {w \in Mapped(pt[p]) : w < i[p]}
      /\ trapframe[q] # NoPage /\ argv[q] = NoPage /\ new[q] = NoTable
  BY <1>0, <1>1, Pair
<1>3. /\ Local(p) /\ Local(q) /\ Own(q) \cap free = {} /\ t \in Table /\ Tree(t)
      /\ Own(q) = Held(t) \cup Held(new[q]) \cup Frames(q)
  BY <1>2, OwnParts
<1>4. i[p] \in Nat /\ 1 <= i[p] /\ i[p] - 1 \in Nat /\ i[p] - 1 <= MaxPages /\ MaxPages \in Nat
  BY SizeFacts
<1>5. V = 1 .. i[p] - 1 /\ V \in SUBSET UserPages /\ Mapped(t) \subseteq 1 .. i[p] - 1
  BY <1>2, <1>4 DEF UnmapOnError, UserPages, Mapped
<1> HIDE DEF V, t
<1>6. Leaves(t, V) \cup proc_freepagetable(uvmunmap(t, V), 0) = Held(t)
  <2>1. freewalk(uvmunmap(t, V)) = freewalk(t)
    BY <1>3, <1>5, Unmap
  <2>2. Leaves(uvmunmap(t, V), 1 .. 0) = {}
    BY DEF Leaves
  <2>3. Leaves(t, V) \cup freewalk(t) = proc_freepagetable(t, i[p] - 1)
    BY <1>5 DEF proc_freepagetable, uvmfree
  <2>4. proc_freepagetable(t, i[p] - 1) = Held(t)
    BY <1>3, <1>4, <1>5, FreeAll
  <2>5. QED
    BY <2>1, <2>2, <2>3, <2>4 DEF proc_freepagetable, uvmfree
<1>7. G = Own(q)
  BY <1>2, <1>3, <1>6, NoTableFacts DEF Frames
<1> HIDE DEF G
<1>8. /\ free' = free \cup Own(q) /\ free' \subseteq Pages /\ data' \in [Pages -> Contents]
      /\ \A g \in Pages \ (Own(q) \cup free) : data'[g] = data[g]
  BY <1>1, <1>2, <1>7, Freed
<1>9. /\ pt'[q] = NoTable /\ trapframe'[q] = NoPage /\ pc'[q] = "unused" /\ new'[q] = NoTable /\ argv'[q] = NoPage
      /\ pc'[p] = "user" /\ pt'[p] = pt[p] /\ trapframe'[p] = trapframe[p] /\ new'[p] = new[p] /\ argv'[p] = argv[p]
      /\ sz'[p] = sz[p] /\ \A r \in Procs \ {p, q} : Same(r)
  BY <1>1, <1>2 DEF TypeOK, Same
<1>10. TypeOK'
  <2>1. 1 \in 1 .. MaxPages + 1 /\ 0 \in 0 .. (MaxPages * PGSIZE)
    BY Sizes
  <2>2. QED
    BY <1>1, <1>8, <2>1, NoTableFacts DEF TypeOK, PC
<1>11. Own(p)' = Own(p) /\ \A h \in Own(p) : data'[h] = data[h]
  BY <1>2, <1>8, <1>9 DEF Own, Frames
<1>12. Own(q)' = {}
  BY <1>9, NoTableFacts DEF Own, Frames
<1>13. Local(p)'
  <2>1. OwnInv(p)'
    BY <1>3, <1>9 DEF Local, OwnInv, Frames
  <2>2. StateInv(p)'
    BY <1>1, <1>3, <1>9 DEF Local, StateInv
  <2>3. QED
    BY <1>9, <2>1, <2>2 DEF Local, GrowInv, LoadInv
<1>14. Local(q)'
  <2>1. OwnInv(q)'
    BY <1>9, NoTableFacts DEF OwnInv
  <2>2. StateInv(q)'
    BY <1>9, NoTableFacts DEF StateInv
  <2>3. QED
    BY <1>9, <2>1, <2>2 DEF Local, GrowInv, LoadInv
<1>15. CopyInv(p)'
  BY <1>9 DEF CopyInv
<1>16. IInv' /\ \A r \in Procs \ {p, q} : SpaceOf(r)' = SpaceOf(r)
  <2>1. Own(q)' \cup free' = Own(q) \cup free /\ Own(q)' \cap free' = {}
    BY <1>8, <1>12
  <2>2. QED
    BY <1>2, <1>8, <1>9, <1>11, <1>13, <1>14, <1>15, <2>1, PairStep
<1>17. SpaceOf(p)' = SpaceOf(p)
  <2>1. \A w \in UserPages : PageOf(p, w)' = PageOf(p, w)
    BY <1>9, <1>11, MappedOwned DEF PageOf
  <2>2. 1 .. PGROUNDUP(sz[p]) \subseteq UserPages
    BY PagesOf DEF TypeOK
  <2>3. QED
    BY <1>1, <1>9, <2>1, <2>2 DEF SpaceOf
<1>18. SpaceOf(q)' = SpaceOf(q)
  BY <1>2, <1>9 DEF SpaceOf
<1>19. QED
  BY <1>10, <1>16, <1>17, <1>18, AbsSame

LEMMA StepFork ==
  ASSUME TypeOK, IInv, NEW p \in Procs, kfork(p)
  PROVE  TypeOK' /\ IInv' /\ [Abstract!Next]_Space
<1>0. PICK q \in Procs : q = Child(p)
  BY Pair DEF kfork
<1>1. /\ pc[p] = "fork" /\ i[p] > PGROUNDUP(sz[p]) /\ sz' = [sz EXCEPT ![q] = sz[p]]
      /\ pc' = [pc EXCEPT ![p] = "user", ![q] = "user"] /\ arg' = [arg EXCEPT ![p] = 0] /\ i' = [i EXCEPT ![p] = 1]
      /\ UNCHANGED <<free, data, pt, trapframe, new, argv>>
  BY <1>0 DEF kfork
<1>2. /\ q \in Procs /\ pc[q] = "embryo" /\ q # p
      /\ \A r \in Procs \ {p, q} : pc[r] = "fork" => Child(r) \notin {p, q}
      /\ Mapped(pt[q]) = {w \in Mapped(pt[p]) : w < i[p]}
      /\ \A v \in Mapped(pt[q]) : data[pt[q].pte[v]] = data[pt[p].pte[v]]
  BY <1>0, <1>1, Pair
<1>3. Local(p) /\ Local(q) /\ Own(q) \cap free = {}
  BY <1>2, OwnParts
<1>4. i[p] \in Nat /\ PGROUNDUP(sz[p]) \in Nat /\ 1 .. PGROUNDUP(sz[p]) \subseteq UserPages
  BY SizeFacts, PagesOf DEF TypeOK
<1>5. Mapped(pt[q]) = Mapped(pt[p]) /\ Mapped(pt[q]) \subseteq 1 .. PGROUNDUP(sz[p])
  <2>1. Mapped(pt[p]) \subseteq 1 .. PGROUNDUP(sz[p])
    BY <1>1, <1>3 DEF Local, StateInv
  <2>2. \A w \in 1 .. PGROUNDUP(sz[p]) : w < i[p]
    BY <1>1, <1>4
  <2>3. QED
    BY <1>2, <2>1, <2>2
<1>6. /\ pc'[p] = "user" /\ pc'[q] = "user" /\ sz'[q] = sz[p] /\ sz'[p] = sz[p]
      /\ \A r \in Procs \ {p, q} : Same(r)
  BY <1>1, <1>2 DEF TypeOK, Same
<1>7. TypeOK'
  <2>1. 1 \in 1 .. MaxPages + 1 /\ 0 \in 0 .. (MaxPages * PGSIZE)
    BY Sizes
  <2>2. QED
    BY <1>1, <1>2, <2>1 DEF TypeOK, PC
<1>8. Own(p)' = Own(p) /\ Own(q)' = Own(q)
  BY <1>1 DEF Own, Frames
<1>9. Local(p)'
  <2>1. OwnInv(p)'
    BY <1>1, <1>3 DEF Local, OwnInv, Frames
  <2>2. StateInv(p)'
    BY <1>1, <1>3, <1>6 DEF Local, StateInv
  <2>3. QED
    BY <1>6, <2>1, <2>2 DEF Local, GrowInv, LoadInv
<1>10. Local(q)'
  <2>1. OwnInv(q)'
    BY <1>1, <1>3 DEF Local, OwnInv, Frames
  <2>2. StateInv(q)'
    BY <1>1, <1>2, <1>3, <1>5, <1>6 DEF Local, StateInv
  <2>3. QED
    BY <1>6, <2>1, <2>2 DEF Local, GrowInv, LoadInv
<1>11. CopyInv(p)'
  BY <1>6 DEF CopyInv
<1>12. IInv' /\ \A r \in Procs \ {p, q} : SpaceOf(r)' = SpaceOf(r)
  BY <1>1, <1>2, <1>3, <1>6, <1>8, <1>9, <1>10, <1>11, PairStep
<1>13. SpaceOf(p)' = SpaceOf(p)
  <2>1. \A w : PageOf(p, w)' = PageOf(p, w)
    BY <1>1 DEF PageOf
  <2>2. QED
    BY <1>1, <1>6, <2>1 DEF SpaceOf
<1>14. SpaceOf(q)' = SpaceOf(p)
  <2>1. \A w \in UserPages : PageOf(q, w)' = PageOf(p, w)
    BY <1>1, <1>2, <1>5 DEF PageOf, Mapped
  <2>2. QED
    BY <1>1, <1>4, <1>6, <2>1 DEF SpaceOf
<1>15. SpaceOf(q) = <<"none">> /\ SpaceOf(p) # <<"none">>
  BY <1>1, <1>2, LiveSpace DEF SpaceOf, Dead
<1>16. Abstract!Next
  <2>1. Space' = [Space EXCEPT ![q] = Space[p]]
    <3>1. Space' = [r \in Procs |-> SpaceOf(r)']
      BY DEF Space, SpaceOf, PageOf
    <3>2. QED
      BY <1>2, <1>12, <1>13, <1>14, <3>1, SpaceIs
  <2>2. Space[p] # <<"none">> /\ Space[q] = <<"none">>
    BY <1>2, <1>15, SpaceIs
  <2>3. Abstract!fork(p, q)
    BY <2>1, <2>2 DEF Abstract!fork, Abstract!None
  <2>4. QED
    BY <1>2, <2>3 DEF Abstract!Next
<1>17. QED
  BY <1>7, <1>12, <1>16

-----------------------------------------------------------------------------
(* Each page has one use.                                                  *)

One(b) == IF b THEN 1 ELSE 0

LEMMA CardinalityOne ==
  ASSUME NEW S, NEW b \in BOOLEAN, b => \E x : S = {x}, ~b => S = {}
  PROVE  Cardinality(S) = One(b)
  BY FS_EmptySet, FS_Singleton DEF One

\* The uses of page g in the tables T when at most process p has it.
LEMMA TableUses ==
  ASSUME NEW T \in [Procs -> Table], NEW g \in Pages, NEW p \in Procs, Tree(T[p]),
         \A r \in Procs \ {p} : g \notin Held(T[r])
  PROVE  \E a, b, c, d \in Nat :
           /\ Cardinality({x \in Procs \X UserPages : T[x[1]].pte[x[2]] = g}) = a
           /\ Cardinality({x \in Procs \X Tables : T[x[1]].tab[x[2]] = g}) = b
           /\ Cardinality({r \in Procs : T[r].root = g}) = c
           /\ Cardinality({r \in Procs : T[r].top = g}) = d
           /\ a + b + c + d = One(g \in Held(T[p]))
<1> DEFINE t == T[p]
           A == {x \in Procs \X UserPages : T[x[1]].pte[x[2]] = g}
           B == {x \in Procs \X Tables : T[x[1]].tab[x[2]] = g}
           C == {r \in Procs : T[r].root = g}
           D == {r \in Procs : T[r].top = g}
           a == g \in Leaves(t, UserPages)
           b == \E k \in Tables : t.tab[k] = g
           c == t.root = g
           d == t.top = g
<1>0. NoPage \notin Pages /\ g # NoPage /\ t \in Table
  BY TableFacts
<1>1. ASSUME NEW r \in Procs, r # p
      PROVE  /\ T[r].root # g /\ T[r].top # g
             /\ \A k \in Tables : T[r].tab[k] # g
             /\ \A v \in UserPages : T[r].pte[v] # g
  <2>1. T[r] \in Table /\ g \notin Held(T[r])
    BY <1>1
  <2>2. QED
    BY <1>0, <2>1, TableFacts DEF Held
<1>2. a <=> \E v \in UserPages : t.pte[v] = g
  BY <1>0, TableFacts
<1>3. g \in freewalk(t) <=> b \/ c \/ d
  BY <1>0, TableFacts
<1>4. Cardinality(A) = One(a)
  <2>1. ASSUME NEW v \in UserPages, t.pte[v] = g PROVE A = {<<p, v>>}
    <3>1. \A w \in UserPages : t.pte[w] = g => w = v
      BY <1>0, <2>1 DEF Tree
    <3>2. QED
      BY <1>1, <2>1, <3>1
  <2>2. ~a => A = {}
    BY <1>1, <1>2
  <2> HIDE DEF A
  <2>3. a => \E x : A = {x}
    BY <1>2, <2>1
  <2> HIDE DEF a
  <2>4. a \in BOOLEAN
    BY DEF a
  <2>5. QED
    BY <2>2, <2>3, <2>4, CardinalityOne
<1>5. Cardinality(B) = One(b)
  <2>1. ASSUME NEW k \in Tables, t.tab[k] = g PROVE B = {<<p, k>>}
    <3>1. \A j \in Tables : t.tab[j] = g => j = k
      BY <1>0, <2>1 DEF Tree
    <3>2. QED
      BY <1>1, <2>1, <3>1
  <2>2. ~b => B = {}
    BY <1>1
  <2> HIDE DEF B
  <2>3. b => \E x : B = {x}
    BY <2>1
  <2> HIDE DEF b
  <2>4. b \in BOOLEAN
    BY DEF b
  <2>5. QED
    BY <2>2, <2>3, <2>4, CardinalityOne
<1>6. Cardinality(C) = One(c)
  <2>1. (c => C = {p}) /\ (~c => C = {})
    BY <1>1
  <2> HIDE DEF C
  <2>2. QED
    BY <2>1, CardinalityOne
<1>7. Cardinality(D) = One(d)
  <2>1. (d => D = {p}) /\ (~d => D = {})
    BY <1>1
  <2> HIDE DEF D
  <2>2. QED
    BY <2>1, CardinalityOne
<1>8. ~(a /\ (b \/ c \/ d)) /\ ~(b /\ (c \/ d)) /\ ~(c /\ d)
  BY <1>0, <1>3 DEF Tree
<1>9. g \in Held(t) <=> a \/ b \/ c \/ d
  BY <1>3 DEF Held
<1> HIDE DEF a, b, c, d, A, B, C, D, t
<1>10. /\ One(a) \in Nat /\ One(b) \in Nat /\ One(c) \in Nat /\ One(d) \in Nat
       /\ One(a) + One(b) + One(c) + One(d) = One(g \in Held(t))
  BY <1>8, <1>9 DEF One
<1>11. QED
  BY <1>4, <1>5, <1>6, <1>7, <1>10 DEF A, B, C, D, t

LEMMA OneUse ==
  ASSUME TypeOK, IInv
  PROVE  PagesPartition
<1> SUFFICES ASSUME NEW g \in Pages PROVE Uses(g) = 1
  BY DEF PagesPartition
<1>1. PICK p \in Procs : /\ \A r \in Procs \ {p} : g \notin Own(r)
                         /\ g \in free <=> g \notin Own(p)
  <2>1. CASE g \in free
    BY <2>1, Sizes DEF IInv, MemoryInv
  <2>2. CASE g \notin free
    <3>1. PICK p \in Procs : g \in Own(p)
      BY <2>2 DEF IInv, MemoryInv
    <3>2. \A r \in Procs \ {p} : g \notin Own(r)
      BY <3>1 DEF IInv, MemoryInv
    <3>3. QED
      BY <2>2, <3>1, <3>2
  <2>3. QED
    BY <2>1, <2>2
<1>2. /\ Tree(pt[p]) /\ Tree(new[p]) /\ Own(p) = Held(pt[p]) \cup Held(new[p]) \cup Frames(p)
      /\ Held(pt[p]) \cap Held(new[p]) = {} /\ Held(pt[p]) \cap Frames(p) = {} /\ Held(new[p]) \cap Frames(p) = {}
      /\ Local(p)
  BY OwnParts
<1>3. \A r \in Procs \ {p} : g \notin Held(pt[r]) /\ g \notin Held(new[r]) /\ trapframe[r] # g /\ argv[r] # g
  <2>1. g # NoPage
    BY Sizes DEF Pages, NoPage
  <2>2. QED
    BY <1>1, <2>1 DEF Own, Frames
<1>4. pt \in [Procs -> Table] /\ new \in [Procs -> Table]
  BY DEF TypeOK
<1>5. PICK a, b, c, d \in Nat :
        /\ Cardinality({x \in Procs \X UserPages : pt[x[1]].pte[x[2]] = g}) = a
        /\ Cardinality({x \in Procs \X Tables : pt[x[1]].tab[x[2]] = g}) = b
        /\ Cardinality({r \in Procs : pt[r].root = g}) = c
        /\ Cardinality({r \in Procs : pt[r].top = g}) = d
        /\ a + b + c + d = One(g \in Held(pt[p]))
  BY <1>2, <1>3, <1>4, TableUses
<1>6. PICK e, f, h, k \in Nat :
        /\ Cardinality({x \in Procs \X UserPages : new[x[1]].pte[x[2]] = g}) = e
        /\ Cardinality({x \in Procs \X Tables : new[x[1]].tab[x[2]] = g}) = f
        /\ Cardinality({r \in Procs : new[r].root = g}) = h
        /\ Cardinality({r \in Procs : new[r].top = g}) = k
        /\ e + f + h + k = One(g \in Held(new[p]))
  BY <1>2, <1>3, <1>4, TableUses
<1>7. Cardinality({r \in Procs : trapframe[r] = g}) = One(trapframe[p] = g)
  <2> DEFINE S == {r \in Procs : trapframe[r] = g}
             q == trapframe[p] = g
  <2>1. (q => S = {p}) /\ (~q => S = {}) /\ q \in BOOLEAN
    BY <1>3
  <2> HIDE DEF S
  <2>2. Cardinality(S) = One(q)
    BY <2>1, CardinalityOne
  <2>3. QED
    BY <2>2 DEF S
<1>8. Cardinality({r \in Procs : argv[r] = g}) = One(argv[p] = g)
  <2> DEFINE S == {r \in Procs : argv[r] = g}
             q == argv[p] = g
  <2>1. (q => S = {p}) /\ (~q => S = {}) /\ q \in BOOLEAN
    BY <1>3
  <2> HIDE DEF S
  <2>2. Cardinality(S) = One(q)
    BY <2>1, CardinalityOne
  <2>3. QED
    BY <2>2 DEF S
<1>9. /\ One(trapframe[p] = g) + One(argv[p] = g) = One(g \in Frames(p))
      /\ One(trapframe[p] = g) \in Nat /\ One(argv[p] = g) \in Nat
  <2>1. g # NoPage
    BY Sizes DEF Pages, NoPage
  <2>2. ~(trapframe[p] = g /\ argv[p] = g)
    BY <1>2, <2>1 DEF Local, OwnInv
  <2>3. g \in Frames(p) <=> trapframe[p] = g \/ argv[p] = g
    BY <2>1 DEF Frames
  <2>4. QED
    BY <2>2, <2>3 DEF One
<1>10. One(g \in free) + One(g \in Frames(p)) + One(g \in Held(pt[p])) + One(g \in Held(new[p])) = 1
  BY <1>1, <1>2 DEF One
<1>11. Uses(g) = One(g \in free) + One(trapframe[p] = g) + One(argv[p] = g) + a + e + b + f + c + d + h + k
  BY <1>5, <1>6, <1>7, <1>8 DEF Uses, UserPages, One
<1>12. One(g \in free) \in Nat /\ One(g \in Held(pt[p])) \in Nat /\ One(g \in Held(new[p])) \in Nat
  BY DEF One
<1>13. QED
  <2> DEFINE n == One(g \in free)
             u == One(trapframe[p] = g)
             w == One(argv[p] = g)
             y == One(g \in Held(pt[p]))
             z == One(g \in Held(new[p]))
             m == One(g \in Frames(p))
  <2>1. /\ n \in Nat /\ u \in Nat /\ w \in Nat /\ y \in Nat /\ z \in Nat
        /\ a + b + c + d = y /\ e + f + h + k = z /\ u + w = m /\ n + m + y + z = 1
        /\ Uses(g) = n + u + w + a + e + b + f + c + d + h + k
    BY <1>5, <1>6, <1>9, <1>10, <1>11, <1>12
  <2> HIDE DEF n, u, w, y, z, m
  <2>2. QED
    BY <2>1

LEMMA Walkable ==
  ASSUME TypeOK, IInv
  PROVE  NoLeafBeyondSize
<1> SUFFICES ASSUME NEW p \in Procs, pc[p] \in {"user", "zombie", "exec", "load"}, NEW v \in 1 .. MaxPages, pt[p].pte[v] # NoPage
             PROVE  v <= PGROUNDUP(sz[p]) /\ pt[p].tab[TableOf(v)] # NoPage
  BY DEF NoLeafBeyondSize
<1>1. v \in Mapped(pt[p]) /\ v \in UserPages
  BY DEF Mapped, UserPages
<1>2. Mapped(pt[p]) \subseteq 1 .. PGROUNDUP(sz[p]) /\ Tree(pt[p])
  BY DEF IInv, StateInv, OwnInv
<1>3. PGROUNDUP(sz[p]) \in Nat
  BY SizeFacts
<1>4. QED
  BY <1>1, <1>2, <1>3 DEF Tree

-----------------------------------------------------------------------------
LEMMA InitHolds ==
  ASSUME Init
  PROVE  TypeOK /\ IInv /\ Abstract!Init
<1> DEFINE t == [NoTable EXCEPT !.root = 1, !.top = 2]
<1>0. NPages \in Nat /\ NPages >= 3 /\ MaxPages \in Nat /\ MaxPages * PGSIZE \in Nat /\ InitProc \in Procs
  BY Sizes
<1>1. {1, 2, 3} \subseteq Pages /\ NoPage \notin Pages /\ {1, 2, 3} \cup (4 .. NPages) = Pages /\ {1, 2, 3} \cap (4 .. NPages) = {}
  BY <1>0 DEF Pages, NoPage
<1>2. t \in Table /\ Tree(t) /\ Held(t) = {1, 2} /\ Mapped(t) = {}
  <2>1. NoTable = [root |-> NoPage, top |-> NoPage, tab |-> NoTable.tab, pte |-> NoTable.pte, flags |-> NoTable.flags]
    BY DEF NoTable
  <2>2. t = [root |-> 1, top |-> 2, tab |-> NoTable.tab, pte |-> NoTable.pte, flags |-> NoTable.flags]
    <3> DEFINE u == [NoTable EXCEPT !.root = 1]
    <3>1. u = [root |-> 1, top |-> NoPage, tab |-> NoTable.tab, pte |-> NoTable.pte, flags |-> NoTable.flags]
      BY <2>1
    <3>2. t = [u EXCEPT !.top = 2]
      OBVIOUS
    <3> HIDE DEF u, t
    <3>3. QED
      BY <3>1, <3>2
  <2>3. QED
    BY <1>1, <2>2, EmptyTable
<1>3. /\ free = 4 .. NPages /\ data = [g \in Pages |-> Junk]
      /\ pt = [p \in Procs |-> IF p = InitProc THEN t ELSE NoTable] /\ sz = [p \in Procs |-> 0]
      /\ trapframe = [p \in Procs |-> IF p = InitProc THEN 3 ELSE NoPage] /\ new = [p \in Procs |-> NoTable]
      /\ argv = [p \in Procs |-> NoPage] /\ pc = [p \in Procs |-> IF p = InitProc THEN "exec" ELSE "unused"]
      /\ arg = [p \in Procs |-> 0] /\ i = [p \in Procs |-> 1]
  BY DEF Init
<1> HIDE DEF t
<1>4. TypeOK
  <2>1. 0 \in 0 .. (MaxPages * PGSIZE) /\ 1 \in 1 .. MaxPages + 1
    BY <1>0
  <2>2. free \subseteq Pages /\ data \in [Pages -> Contents]
    BY <1>1, <1>3 DEF Contents
  <2>3. pt \in [Procs -> Table] /\ new \in [Procs -> Table]
    BY <1>2, <1>3, NoTableFacts
  <2>4. pc \in [Procs -> PC] /\ trapframe \in [Procs -> Pages \cup {NoPage}] /\ argv \in [Procs -> Pages \cup {NoPage}]
    BY <1>1, <1>3 DEF PC
  <2>5. QED
    BY <1>3, <2>1, <2>2, <2>3, <2>4 DEF TypeOK
<1>5. /\ pt[InitProc] = t /\ trapframe[InitProc] = 3 /\ pc[InitProc] = "exec"
      /\ \A r \in Procs \ {InitProc} : pt[r] = NoTable /\ trapframe[r] = NoPage /\ pc[r] = "unused"
      /\ \A r \in Procs : new[r] = NoTable /\ argv[r] = NoPage /\ sz[r] = 0
  BY <1>0, <1>3
<1>6. Frames(InitProc) = {3} /\ \A r \in Procs \ {InitProc} : Frames(r) = {}
  BY <1>0, <1>1, <1>5 DEF Frames
<1>7. Own(InitProc) = {1, 2, 3} /\ \A r \in Procs \ {InitProc} : Own(r) = {}
  BY <1>0, <1>2, <1>5, <1>6, NoTableFacts DEF Own
<1>8. MemoryInv
  BY <1>0, <1>1, <1>3, <1>7 DEF MemoryInv
<1>9. ASSUME NEW p \in Procs PROVE OwnInv(p) /\ StateInv(p) /\ GrowInv(p) /\ LoadInv(p) /\ CopyInv(p)
  <2>1. CASE p = InitProc
    <3>1. OwnInv(p)
      BY <1>1, <1>2, <1>5, <1>6, <2>1, NoTableFacts DEF OwnInv
    <3>2. StateInv(p)
      BY <1>1, <1>2, <1>5, <2>1 DEF StateInv
    <3>3. QED
      BY <1>5, <2>1, <3>1, <3>2 DEF GrowInv, LoadInv, CopyInv
  <2>2. CASE p # InitProc
    <3>1. OwnInv(p)
      BY <1>5, <1>6, <2>2, NoTableFacts DEF OwnInv
    <3>2. StateInv(p)
      BY <1>5, <2>2, NoTableFacts DEF StateInv
    <3>3. QED
      BY <1>5, <2>2, <3>1, <3>2 DEF GrowInv, LoadInv, CopyInv
  <2>3. QED
    BY <2>1, <2>2
<1>10. Abstract!Init
  <2>1. SpaceOf(InitProc) = <<>>
    <3>1. SpaceOf(InitProc) = [v \in 1 .. PGROUNDUP(sz[InitProc]) |-> PageOf(InitProc, v)]
      BY <1>5 DEF SpaceOf
    <3>2. PGROUNDUP(sz[InitProc]) = 0
      BY <1>0, <1>5, RoundUpFacts
    <3>3. QED
      BY <3>1, <3>2
  <2>2. \A r \in Procs \ {InitProc} : SpaceOf(r) = <<"none">>
    BY <1>5 DEF SpaceOf
  <2>3. Space = [q \in Procs |-> IF q = InitProc THEN <<>> ELSE <<"none">>]
    BY <1>0, <2>1, <2>2, SpaceIs
  <2>4. QED
    BY <1>0, <2>3 DEF Abstract!Init, Abstract!None
<1>11. QED
  BY <1>4, <1>8, <1>9, <1>10 DEF IInv

LEMMA StepHolds ==
  ASSUME TypeOK, IInv, [Next]_vars
  PROVE  TypeOK' /\ IInv' /\ [Abstract!Next]_Space
<1>1. CASE Next
  <2>1. PICK p \in Procs :
          \/ \E n \in SbrkSizes : sbrk_lazy(p, n) \/ sbrk_eager(p, n) \/ shrink(p, n)
          \/ uvmalloc(p) \/ uvmalloc_fails(p) \/ growproc(p)
          \/ \E v \in 1 .. MaxPages : vmfault(p, v) \/ \E d \in Data : store(p, v, d)
          \/ \E q \in Procs : allocproc(p, q)
          \/ uvmcopy(p) \/ uvmcopy_fails(p) \/ kfork(p)
          \/ exit(p) \/ freeproc(p)
          \/ sys_exec(p) \/ exec_pagetable(p) \/ exec_load(p) \/ exec_bad(p) \/ exec_commit(p)
    BY <1>1 DEF Next
  <2>2. CASE \E n \in SbrkSizes : sbrk_lazy(p, n) \/ sbrk_eager(p, n) \/ shrink(p, n)
    BY <2>2, StepLazy, StepEager, StepShrink
  <2>3. CASE uvmalloc(p) \/ uvmalloc_fails(p) \/ growproc(p)
    BY <2>3, StepAlloc, StepAllocFails, StepGrown
  <2>4. CASE \E v \in 1 .. MaxPages : vmfault(p, v) \/ \E d \in Data : store(p, v, d)
    BY <2>4, StepFault, StepStore
  <2>5. CASE \E q \in Procs : allocproc(p, q)
    BY <2>5, StepAllocproc
  <2>6. CASE uvmcopy(p) \/ uvmcopy_fails(p) \/ kfork(p)
    BY <2>6, StepCopy, StepCopyFails, StepFork
  <2>7. CASE exit(p) \/ freeproc(p)
    BY <2>7, StepExit, StepFree
  <2>8. CASE sys_exec(p) \/ exec_pagetable(p) \/ exec_load(p) \/ exec_bad(p) \/ exec_commit(p)
    BY <2>8, StepExec, StepExecTable, StepLoad, StepExecBad, StepCommit
  <2>9. QED
    BY <2>1, <2>2, <2>3, <2>4, <2>5, <2>6, <2>7, <2>8
<1>2. CASE UNCHANGED vars
  <2>1. TypeOK' /\ IInv'
    <3>1. TypeOK'
      BY <1>2 DEF vars, TypeOK
    <3>2. MemoryInv'
      BY <1>2 DEF vars, IInv, MemoryInv, Own, Frames
    <3>3. ASSUME NEW p \in Procs PROVE Local(p)' /\ CopyInv(p)'
      <4>1. OwnInv(p)' /\ StateInv(p)'
        BY <1>2 DEF vars, IInv, OwnInv, StateInv, Frames
      <4>2. GrowInv(p)' /\ LoadInv(p)'
        BY <1>2 DEF vars, IInv, GrowInv, LoadInv
      <4>3. CopyInv(p)'
        BY <1>2 DEF vars, IInv, CopyInv, Child
      <4>4. QED
        BY <4>1, <4>2, <4>3 DEF Local
    <3>4. QED
      BY <3>1, <3>2, <3>3 DEF IInv, Local
  <2>2. UNCHANGED Space
    BY <1>2 DEF vars, Space
  <2>3. QED
    BY <2>1, <2>2
<1>3. QED
  BY <1>1, <1>2

\* Memory is partitioned: at every moment of fork(), exec() and sbrk(), and after each of
\* their failures, a physical page is free or has exactly one use, page tables are trees
\* and a process that may be freed maps nothing at or above its size.
THEOREM PagesSafe == Spec => []PageInv
<1>1. Init => TypeOK /\ IInv
  BY InitHolds
<1>2. TypeOK /\ IInv /\ [Next]_vars => (TypeOK /\ IInv)'
  BY StepHolds
<1>3. TypeOK /\ IInv => PageInv
  BY OneUse, Walkable DEF PageInv
<1>4. QED
  BY <1>1, <1>2, <1>3, PTL DEF Spec

\* Page tables, lazy allocation and copying fork() implement separate address spaces: what
\* a process stores no other process sees, whatever memory runs out in between.
THEOREM SpacesSeparate == Spec => ImplementsSpaces
<1>1. Init => TypeOK /\ IInv /\ Abstract!Init
  BY InitHolds
<1>2. TypeOK /\ IInv /\ [Next]_vars => (TypeOK /\ IInv)' /\ [Abstract!Next]_Space
  BY StepHolds
<1>3. QED
  BY <1>1, <1>2, PTL DEF Spec, ImplementsSpaces, Abstract!Spec
=============================================================================
