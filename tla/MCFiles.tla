------------------------------ MODULE MCFiles ------------------------------
(* Instances of Files for TLC. *)
EXTENDS Files, TLC

CONSTANTS c1, c2, w1, w2, f1, f2, f3, u, v

\* What a behaviour is about; the number of requests makes the rest too large.
\*   avatars:     uploads that become avatars while the cleanup runs
\*   attachments: uploads that messages attach
\*   faults:      uploads and the cleanup with failures and restarts
VARIABLE about

MCNext ==
  \/ \E w \in Worker :
       /\ UNCHANGED about
       /\ Uploads(w) \/ (about = "avatars" /\ SetsAvatar(w))
                    \/ (about = "attachments" /\ Attaches(w))
  \/ Sweeps /\ UNCHANGED about
  \/ \E f \in File, c \in Conv :
       about = "attachments" /\ AttachOverSocket(f, c) /\ UNCHANGED about
  \/ \E f \in File : Expire(f) /\ UNCHANGED about
  \/ Restart /\ UNCHANGED about

Limits ==
  /\ about # "faults" => faults' = 0 /\ restarts' = 0 /\ f3 \notin used'
  /\ IF about = "attachments" THEN f2 \notin used'
     ELSE \A w \in Worker : call'[w].me # v /\ call'[w].conv = None

MCInit == Init /\ about \in {"avatars", "attachments", "faults"}
MCSpec == MCInit /\ [][MCNext /\ Limits]_<<vars, about>> /\ WF_vars(Sweeps)
=============================================================================
