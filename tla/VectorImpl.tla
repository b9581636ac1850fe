----------------------------- MODULE VectorImpl -----------------------------
(***************************************************************************)
(* libshims/utils/VectorImpl.cpp: vectors that share their storage until    *)
(* one of them is changed.  A vector is a pointer to a SharedBuffer and a   *)
(* count; the buffer keeps a reference count, a capacity in items and the   *)
(* items constructed in it.  Every change of a vector works on storage it   *)
(* alone owns: in place, after a copy (editArrayImpl), or in a new buffer   *)
(* when the capacity has to change.  An allocation may fail; the code then  *)
(* leaves the vector as it was.                                             *)
(***************************************************************************)
EXTENDS Integers, Sequences, FiniteSets

CONSTANTS Vecs, Items,
          MaxTotal,     \* bound on the items of all vectors together
          Capacities    \* arguments of setCapacity

VARIABLES vec,     \* [buf, count] of every vector; buf 0 is mStorage = 0
          bufs,    \* the shared buffers
          flags,   \* [trivial, sorted]: mFlags, and whether they are SortedVectors
          val      \* what the callers of each vector have put into it

vecvars == <<vec, bufs, flags, val>>

kMinVectorCapacity == 4
Bufs == 1..(Cardinality(Vecs) + 1)
Unused == [refs |-> 0, cap |-> 0, data |-> <<>>]

\* do_construct makes the smallest item; items are compared by their tens, so
\* that equal items can be told apart.
Default == CHOOSE i \in Items : \A j \in Items : i <= j
do_compare(a, b) == (a \div 10) - (b \div 10)

Longer(a, b) == IF a > b THEN a ELSE b
Spliced(s, where, gone, items) ==
    SubSeq(s, 1, where) \o items \o SubSeq(s, where + gone + 1, Len(s))

capacity(v) == IF vec[v].buf = 0 THEN 0 ELSE bufs[vec[v].buf].cap
Contents(v) == IF vec[v].buf = 0 THEN <<>>
               ELSE SubSeq(bufs[vec[v].buf].data, 1, vec[v].count)
SoleOwner(v) == vec[v].buf # 0 /\ bufs[vec[v].buf].refs = 1

VecInit == /\ vec = [v \in Vecs |-> [buf |-> 0, count |-> 0]]
           /\ bufs = [b \in Bufs |-> Unused]
           /\ flags \in [trivial : BOOLEAN, sorted : BOOLEAN]
           /\ val = [v \in Vecs |-> <<>>]

\* The last owner destroys the items it counts and frees the buffer.
release_storage(B, v) ==
    IF vec[v].buf = 0 THEN B
    ELSE [B EXCEPT ![vec[v].buf] =
            IF @.refs = 1 THEN Unused ELSE [@ EXCEPT !.refs = @ - 1]]

\* The new buffer is allocated before the old one is released.
MoveTo(v, cap, data) ==
    LET b == CHOOSE x \in Bufs : bufs[x].refs = 0
    IN /\ bufs' = release_storage([bufs EXCEPT ![b] =
                      [refs |-> 1, cap |-> cap, data |-> data]], v)
       /\ vec' = [vec EXCEPT ![v] = [buf |-> b, count |-> Len(data)]]

InPlace(v, cap, data) ==
    /\ bufs' = [bufs EXCEPT ![vec[v].buf] = [@ EXCEPT !.cap = cap, !.data = data]]
    /\ vec' = [vec EXCEPT ![v].count = Len(data)]

\* Variant: the storage is changed although others share it.
editShared(v, data) == InPlace(v, capacity(v), data)

\* editArrayImpl, and the change the caller then makes to the array.
editArrayImpl(v, data) ==
    IF SoleOwner(v) THEN InPlace(v, capacity(v), data)
                    ELSE MoveTo(v, capacity(v), data)

\* SharedBuffer::editResize reallocates for a sole owner; trivial items at the
\* end of the array are resized this way, the others are copied over.
Resize(v, cap, data, tail) ==
    IF tail /\ flags.trivial /\ SoleOwner(v) THEN InPlace(v, cap, data)
                                             ELSE MoveTo(v, cap, data)

GrownCapacity(new_size) ==
    Longer(kMinVectorCapacity, new_size + (new_size \div 2) + 1)

\* _grow, and the filling of the space it returns.
_grow(v, where, items) ==
    LET new_size == vec[v].count + Len(items)
        data == Spliced(Contents(v), where, 0, items)
    IN IF capacity(v) < new_size
       THEN Resize(v, GrownCapacity(new_size), data, where = vec[v].count)
       ELSE IF vec[v].buf = 0 THEN UNCHANGED <<vec, bufs>> ELSE editArrayImpl(v, data)

_shrink(v, where, amount) ==
    LET new_size == vec[v].count - amount
        data == Spliced(Contents(v), where, amount, <<>>)
        new_capacity == Longer(kMinVectorCapacity, new_size * 2)
    IN IF vec[v].buf = 0 THEN UNCHANGED <<vec, bufs>>
       ELSE IF new_size < capacity(v) \div 2
            THEN Resize(v, new_capacity, data, where = new_size)
            ELSE editArrayImpl(v, data)

\* Whether the change is one that allocates a buffer whose failure is reported;
\* a failed copy in editArrayImpl aborts.
MayFail(v, new_size) == \/ capacity(v) < new_size
                        \/ new_size < capacity(v) \div 2

Room(n) == n <= MaxTotal - Cardinality({p \in Vecs \X (1..MaxTotal) : p[2] <= vec[p[1]].count})

Wants(v, s) == val' = [val EXCEPT ![v] = s] /\ UNCHANGED flags

\* insertAt, push, add, insertArrayAt, appendArray; an index beyond the end is
\* refused.
insertAt(v, index, items) ==
    /\ index <= vec[v].count /\ Room(Len(items))
    /\ \/ _grow(v, index, items) /\ Wants(v, Spliced(val[v], index, 0, items))
       \/ MayFail(v, vec[v].count + Len(items)) /\ UNCHANGED vecvars

\* insertVectorAt and appendVector of another vector.
insertVectorAt(v, w, index) == v # w /\ insertAt(v, index, Contents(w))

\* removeItemsAt, pop and clear.
removeItemsAt(v, index, count) ==
    /\ index + count <= vec[v].count
    /\ \/ _shrink(v, index, count) /\ Wants(v, Spliced(val[v], index, count, <<>>))
       \/ MayFail(v, vec[v].count - count) /\ UNCHANGED vecvars

resize(v, size) ==
    \/ /\ size > vec[v].count
       /\ insertAt(v, vec[v].count, [i \in 1..(size - vec[v].count) |-> Default])
    \/ size < vec[v].count /\ removeItemsAt(v, size, vec[v].count - size)

replaceAt(v, index, item) ==
    /\ index < vec[v].count
    /\ editArrayImpl(v, [Contents(v) EXCEPT ![index + 1] = item])
    /\ Wants(v, [val[v] EXCEPT ![index + 1] = item])

setCapacity(v, new_capacity) ==
    /\ new_capacity > vec[v].count
    /\ MoveTo(v, new_capacity, Contents(v))
    /\ UNCHANGED <<flags, val>>

\* operator =: an empty right side leaves no storage.
Assign(v, w) ==
    /\ v # w /\ Room(vec[w].count)
    /\ LET B == release_storage(bufs, v)
       IN IF vec[w].count > 0
          THEN /\ vec' = [vec EXCEPT ![v] = vec[w]]
               /\ bufs' = [B EXCEPT ![vec[w].buf].refs = @ + 1]
          ELSE vec' = [vec EXCEPT ![v] = [buf |-> 0, count |-> 0]] /\ bufs' = B
    /\ Wants(v, val[w])

\* The copy constructor shares the storage of an empty vector too.
CopyConstruct(v, w) ==
    /\ v # w /\ vec[v].buf = 0 /\ vec[w].buf # 0 /\ Room(vec[w].count)
    /\ vec' = [vec EXCEPT ![v] = vec[w]]
    /\ bufs' = [bufs EXCEPT ![vec[w].buf].refs = @ + 1]
    /\ Wants(v, val[w])

finish_vector(v) ==
    /\ vec[v].buf # 0
    /\ bufs' = release_storage(bufs, v)
    /\ vec' = [vec EXCEPT ![v] = [buf |-> 0, count |-> 0]]
    /\ Wants(v, <<>>)

\* sort: insertion sort.  The item moves left past every greater one.
InsertionSort(s) ==
    LET place(t, i) == CHOOSE j \in 0..(i - 1) :
            /\ j = 0 \/ do_compare(t[j], t[i]) <= 0
            /\ \A k \in (j + 1)..(i - 1) : do_compare(t[k], t[i]) > 0
        sorted[i \in 0..Len(s)] ==
            IF i = 0 THEN s
            ELSE LET t == sorted[i - 1]
                     j == place(t, i)
                 IN SubSeq(t, 1, j) \o <<t[i]>> \o SubSeq(t, j + 1, i - 1)
                        \o SubSeq(t, i + 1, Len(t))
    IN sorted[Len(s)]

Keys == {i \div 10 : i \in Items}
\* The items of every key in their order, the keys ascending.
Stable(s) ==
    LET upto[k \in 0..(CHOOSE m \in Keys : \A n \in Keys : n <= m)] ==
            (IF k = 0 THEN <<>> ELSE upto[k - 1])
                \o SelectSeq(s, LAMBDA i : i \div 10 = k)
    IN upto[CHOOSE m \in Keys : \A n \in Keys : n <= m]

sort(v) ==
    /\ vec[v].count > 1
    /\ IF InsertionSort(Contents(v)) = Contents(v) THEN UNCHANGED <<vec, bufs>>
       ELSE editArrayImpl(v, InsertionSort(Contents(v)))
    /\ Wants(v, Stable(val[v]))

\* SortedVectorImpl.  Binary search: where the item is, and where it belongs.
_indexOrderOf(s, item) ==
    LET search[r \in (0..Len(s)) \X (-1..(Len(s) - 1))] ==
            LET l == r[1]
                h == r[2]
                mid == l + ((h - l) \div 2)
                c == do_compare(s[mid + 1], item)
            IN IF l > h THEN [found |-> FALSE, order |-> l]
               ELSE IF c = 0 THEN [found |-> TRUE, order |-> mid]
               ELSE IF c < 0 THEN search[<<mid + 1, h>>] ELSE search[<<l, mid - 1>>]
    IN search[<<0, Len(s) - 1>>]

Added(s, item) ==
    LET o == _indexOrderOf(s, item)
    IN Spliced(s, o.order, IF o.found THEN 1 ELSE 0, <<item>>)

sortedAdd(v, item) ==
    LET o == _indexOrderOf(Contents(v), item)
    IN /\ o.found \/ Room(1)
       /\ IF o.found THEN editArrayImpl(v, [Contents(v) EXCEPT ![o.order + 1] = item])
                     ELSE _grow(v, o.order, <<item>>)
       /\ Wants(v, Added(val[v], item))

\* merge of two sorted vectors: put before or behind when they do not overlap,
\* item by item otherwise.  Not called on an empty vector: the code compares
\* with its first item.
merge(v, w) ==
    LET s == Contents(v)
        t == Contents(w)
        each[i \in 0..Len(t)] == IF i = 0 THEN s ELSE Added(each[i - 1], t[i])
        where == IF do_compare(t[Len(t)], s[1]) <= 0 THEN 0 ELSE Len(s)
        apart == do_compare(t[Len(t)], s[1]) <= 0 \/ do_compare(t[1], s[Len(s)]) >= 0
    IN /\ v # w /\ s # <<>> /\ t # <<>> /\ Room(Len(t))
       /\ IF apart THEN _grow(v, where, t) /\ Wants(v, Spliced(val[v], where, 0, t))
          ELSE /\ IF Len(each[Len(t)]) <= capacity(v)
                  THEN editArrayImpl(v, each[Len(t)])
                  ELSE MoveTo(v, GrownCapacity(capacity(v) + 1), each[Len(t)])
               /\ Wants(v, each[Len(t)])

sortedRemove(v, item) ==
    LET o == _indexOrderOf(Contents(v), item)
    IN o.found /\ removeItemsAt(v, o.order, 1)

VecNext ==
    \E v \in Vecs :
        \/ /\ ~flags.sorted
           /\ \/ \E i \in 0..MaxTotal, x \in Items, n \in 1..2 :
                    insertAt(v, i, [k \in 1..n |-> x])
              \/ \E w \in Vecs, i \in 0..MaxTotal : insertVectorAt(v, w, i)
              \/ \E i \in 0..MaxTotal, n \in 1..MaxTotal : removeItemsAt(v, i, n)
              \/ \E n \in 0..MaxTotal : resize(v, n)
              \/ \E i \in 0..MaxTotal, x \in Items : replaceAt(v, i, x)
              \/ sort(v)
        \/ /\ flags.sorted
           /\ \/ \E x \in Items : sortedAdd(v, x) \/ sortedRemove(v, x)
              \/ \E w \in Vecs : merge(v, w)
        \/ \E n \in Capacities : setCapacity(v, n)
        \/ \E w \in Vecs : Assign(v, w) \/ CopyConstruct(v, w)
        \/ finish_vector(v)

VecSpec == VecInit /\ [][VecNext]_vecvars

---------------------------------------------------------------------------
\* Copy on write: every vector holds exactly what its own callers put there,
\* in the order they put it (a stable sort included), whatever happened to the
\* vectors its storage was shared with.
Isolated == \A v \in Vecs : Contents(v) = val[v]

\* Each buffer is kept for exactly the vectors that point to it, and each of
\* them counts the very items constructed in it: the last owner destroys all of
\* them and none twice.
StorageAccounted ==
    \A b \in Bufs :
        /\ bufs[b].refs = Cardinality({v \in Vecs : vec[v].buf = b})
        /\ Len(bufs[b].data) <= bufs[b].cap
        /\ \A v \in Vecs : vec[v].buf = b => Len(bufs[b].data) = vec[v].count

\* A sorted vector stays in order through adds, merges and removals, and its
\* search finds exactly the items that are there.
SortedFound ==
    flags.sorted =>
        \A v \in Vecs :
            LET s == Contents(v)
            IN /\ \A i \in 1..(Len(s) - 1) : do_compare(s[i], s[i + 1]) <= 0
               /\ \A x \in Items : _indexOrderOf(s, x).found
                      <=> \E i \in DOMAIN s : do_compare(s[i], x) = 0
=============================================================================
