----------------------------- MODULE MCSession -----------------------------
EXTENDS Session, TLC

Symmetry == Permutations(Accounts) \cup Permutations(CallIds)

\* A replaced controller matters while a call or a block may still look for it:
\* no new one will, for only a screen that is shown sends calls.
Awaited ==
  {c.req.vc : c \in {d \in calls : ~d.orphan /\ d.req.op \in {"signIn", "reload"}}}
    \cup {queue[i].vc : i \in {j \in 1 .. Len(queue) : queue[j].do \in {"signIn", "reloaded"}}}

\* A deleted account that is in no session and no call will be in none.
Forgotten ==
  {a \in Accounts : server[a] = "deleted"}
    \ ({keychain.uid, current.uid} \cup {c.req.uid : c \in calls})

\* What matters of a call: of one of an earlier process what it asks for, of an
\* answer that changes nothing that there is one, and the screen only of those
\* that look for it.
Matter(c) ==
  IF c.stage = "refused" /\ c.req.op # "delete" THEN [id |-> c.id]
  ELSE IF c.stage = "ok" /\ c.req.op = "sendMail" THEN [id |-> c.id]
  ELSE IF c.orphan THEN [c EXCEPT !.req.vc = 0, !.req.epoch = 0]
  ELSE IF c.req.op \in {"sendMail", "delete"} THEN [c EXCEPT !.req.vc = 0]
  ELSE c

\* Two states with the same view have the same futures, and no property but
\* TypeOK tells them apart: no action reads document, and Home and WhoAmI do
\* the same.
View ==
  <<server, confirmed \ Forgotten, process, clientVars, seen, listening, queue,
    IF root = WhoAmI THEN Home ELSE root, lingering \cap Awaited,
    {Matter(c) : c \in calls}>>
=============================================================================
