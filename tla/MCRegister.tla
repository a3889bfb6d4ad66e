------------------------------ MODULE MCRegister ------------------------------
(* Small instances of Register: the entries the other writers may send. *)
EXTENDS Register

CONSTANT m   \* the one member of Member

E(w, s, l, kind, arg, c) ==
  [w |-> w, s |-> s, l |-> l, kind |-> kind, arg |-> arg, causal |-> c, sup |-> {}, sig |-> TRUE,
   ref |-> NoId]

W(kind, arg) == [kind |-> kind, arg |-> arg]

\* Writer 2's first entry is a write nobody saw or one that saw ours; writer 3
\* answers writer 2, and may come first.
Scalars(p, n) ==
  [policy |-> p, own |-> n, writes |-> {W("set", NoId)},
   remote |-> {E(2, 1, 1, "set", NoId, NoId), E(2, 1, 2, "set", NoId, <<1, 1, 1>>),
               E(3, 1, 3, "set", NoId, <<2, 1, 1>>), E(3, 1, 3, "del", NoId, <<2, 1, 2>>)}]

\* A member is added on both sides of a del.
Members(p) ==
  [policy |-> p, own |-> 1, writes |-> {W("add", m), W("remove", m)},
   remote |-> {E(2, 1, 1, "add", m, NoId), E(3, 1, 2, "del", NoId, <<2, 1, 1>>)}]

\* Members are added and removed concurrently.
Clash(p) ==
  [policy |-> p, own |-> 2, writes |-> {W("remove", m)}, remote |-> {E(2, 1, 1, "add", m, NoId)}]

\* A member and a value take turns.
Mixed(p, n) ==
  [policy |-> p, own |-> n, writes |-> {W("remove", m), W("set", NoId)},
   remote |-> {E(2, 1, 2, "add", m, NoId)}]

\* A key that has an owner, a request for it, and a hand-over.
Owned(n) ==
  [policy |-> "owned", own |-> n, writes |-> {W("set", NoId), W("chown", 2)},
   remote |-> {E(2, 1, 2, "request", NoId, <<1, 1, 1>>), E(2, 1, 1, "set", NoId, NoId)}]

TakenOver ==
  [policy |-> "owned", own |-> 1, writes |-> {W("set", NoId)},
   remote |-> {E(2, 1, 1, "set", NoId, NoId), E(3, 1, 2, "chown-takeover", 3, NoId),
               [E(3, 1, 2, "chown-takeover", 3, NoId) EXCEPT !.sig = FALSE]}]

Scripts ==
  {Scalars("lww", 2), Scalars("fww", 1), Members("lww"), Clash("fww"), Mixed("lww", 2), Owned(2),
   TakenOver}

\* One writer alone.
Alone(p, n, ws) == [policy |-> p, own |-> n, writes |-> ws, remote |-> {}]
Handover == {Alone("lww", 2, {W("set", NoId), W("chown", 2)})}
Requester == {Alone("lww", 3, {W("set", NoId), W("request", NoId)})}
Turns == {Alone("lww", 3, {W("set", NoId), W("add", m)})}

\* The key is ours; writer 2 resolves a conflict on it.
Resolver ==
  {[policy |-> "owned", own |-> 1, writes |-> {W("set", NoId)},
    remote |-> {[E(2, 1, 2, "resolve", NoId, <<1, 1, 1>>) EXCEPT !.sup = {<<1, 1, 1>>}]}]}

================================================================================
