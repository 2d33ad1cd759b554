--------------------------- MODULE MCBoundedStream --------------------------
(***************************************************************************)
(* BoundedStream with frames of at most 2 bytes behind prefixes of at most *)
(* 2: requests of each kind, replies that answer or only seem to, and      *)
(* frames whose length is malformed, non-canonical, zero or too large.     *)
(***************************************************************************)
EXTENDS BoundedStream

CONSTANTS k, j

Message(type, on, rec) ==
  [type |-> type, key |-> on, record |-> rec, typed |-> TRUE, parses |-> TRUE,
   referrals |-> TRUE, signed |-> TRUE]

Framed(p, n, m) == [prefix |-> p, canonical |-> TRUE, length |-> n, message |-> m]

get     == Message("GET_VALUE", k, Unset)
found   == Message("GET_VALUE", k, k)
put     == Message("PUT_VALUE", k, k)
find    == Message("FIND_NODE", Unset, Unset)
ping    == Message("PING", Unset, Unset)
wrong   == Message("GET_VALUE", j, Unset)
swapped == Message("GET_VALUE", k, j)

Requests == {Framed(1, 2, m) : m \in {get, put, find, ping}}
Replies ==
  {Framed(1, 2, m) : m \in {found, wrong, swapped}}
  \cup {Framed(2, 2, [get EXCEPT !.signed = FALSE]),
        Framed(2, 2, [find EXCEPT !.referrals = FALSE]),
        Framed(1, 1, [put EXCEPT !.typed = FALSE]),
        Framed(1, 1, [get EXCEPT !.parses = FALSE])}
Odd ==
  {Framed(1, 0, [put EXCEPT !.typed = FALSE]),
   Framed(1, 3, get),
   Framed(3, 1, get),
   [Framed(2, 1, get) EXCEPT !.canonical = FALSE]}

MCFrame == Requests \cup Replies \cup Odd

=============================================================================
