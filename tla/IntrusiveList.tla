--------------------------- MODULE IntrusiveList ---------------------------
(***************************************************************************)
(* The intrusive doubly linked lists of coasio, pointer by pointer.  A     *)
(* list is a record of the owner's head_ and tail_ and of the prev and     *)
(* next fields of every node.  The waiters of a semaphore form a queue     *)
(* with a tail; the guards of a cancel_scope and the roots of a runtime    *)
(* form a stack, which has no tail (tail stays Nil and nobody reads it).   *)
(***************************************************************************)
EXTENDS Naturals, FiniteSets, Sequences

CONSTANTS
    Nodes,    \* the objects that can be linked
    Nil       \* nullptr

ASSUME NilAssumption == Nil \notin Nodes

EmptyList == [head |-> Nil, tail |-> Nil,
              prev |-> [n \in Nodes |-> Nil],
              next |-> [n \in Nodes |-> Nil]]

(* semaphore_detail::state::link_tail *)
LinkTail(l, w) ==
    [head |-> IF l.tail = Nil THEN w ELSE l.head,
     tail |-> w,
     prev |-> [l.prev EXCEPT ![w] = l.tail],
     next |-> [n \in Nodes |-> IF n = w THEN Nil
                               ELSE IF n = l.tail THEN w ELSE l.next[n]]]

(* cancel_scope::link_locked, and the linking of runtime::register_root *)
LinkHead(l, g) ==
    [l EXCEPT !.head = g,
              !.next = [l.next EXCEPT ![g] = l.head],
              !.prev = [n \in Nodes |-> IF n = g THEN Nil
                                        ELSE IF n = l.head THEN g ELSE l.prev[n]]]

(* A mutant of Bypassed: the successor keeps its prev pointer. *)
ForwardOnly(l, w) ==
    [l EXCEPT !.next = [n \in Nodes |-> IF n = w THEN Nil
                                        ELSE IF n = l.prev[w] THEN l.next[w] ELSE l.next[n]]]

(* The neighbours of w are joined and w's own pointers are cleared. *)
Bypassed(l, w) ==
    [l EXCEPT !.next = [n \in Nodes |-> IF n = w THEN Nil
                                        ELSE IF n = l.prev[w] THEN l.next[w] ELSE l.next[n]],
              !.prev = [n \in Nodes |-> IF n = w THEN Nil
                                        ELSE IF n = l.next[w] THEN l.prev[w] ELSE l.prev[n]]]

(* cancel_scope::unlink_locked, and the unlinking of unregister_root *)
Unlink(l, w) ==
    [Bypassed(l, w) EXCEPT !.head = IF l.prev[w] = Nil THEN l.next[w] ELSE l.head]

KeepsTail(l, w) == Unlink(l, w)     \* a mutant of UnlinkQueued: tail_ is left alone

(* semaphore_detail::state::unlink.  Nothing tests whether w is linked.    *)
UnlinkQueued(l, w) ==
    [Unlink(l, w) EXCEPT !.tail = IF l.next[w] = Nil THEN l.prev[w] ELSE l.tail]

-----------------------------------------------------------------------------
(* l is the list of the nodes of s, in that order and each there once:     *)
(* prev mirrors next, and an unlinked node points nowhere.                 *)
Represents(l, s) ==
    /\ \A i, j \in 1..Len(s) : s[i] = s[j] => i = j
    /\ l.head = IF Len(s) = 0 THEN Nil ELSE s[1]
    /\ \A i \in 1..Len(s) :
           /\ l.next[s[i]] = IF i = Len(s) THEN Nil ELSE s[i + 1]
           /\ l.prev[s[i]] = IF i = 1 THEN Nil ELSE s[i - 1]
    /\ \A n \in Nodes :
           (\A i \in 1..Len(s) : s[i] # n) => l.next[n] = Nil /\ l.prev[n] = Nil
=============================================================================
