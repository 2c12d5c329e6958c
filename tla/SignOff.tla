------------------------------- MODULE SignOff -------------------------------
(***************************************************************************)
(* tools/check_dco.py: every commit that a pull request proposes carries a *)
(* sign-off by its author or its committer.                                *)
(*                                                                         *)
(* Simplifications: a name or an address is a value, and Lower[a] is the   *)
(* address in lower case; a commit has the addresses of its Signed-off-by  *)
(* lines.  A body that holds a separator of the log format makes the       *)
(* record one that is not parsed.                                          *)
(***************************************************************************)
EXTENDS Sequences, SequencesExt

CONSTANTS Addresses, \* e-mail addresses as they are written
          Lower,     \* Lower[a]: the address in lower case
          Ranges     \* the commit ranges that a pull request may propose

IsCommit(c) == /\ c.merge \in BOOLEAN /\ c.separated \in BOOLEAN
               /\ {c.author, c.committer} \cup c.signoffs \subseteq Addresses

SignOffAssumption ==
    /\ Lower \in [Addresses -> Addresses]
    /\ \A range \in Ranges : \A i \in DOMAIN range : IsCommit(range[i])

VARIABLE commits  \* base..head of the pull request

(* git log --no-merges: merges are made by the forge.                      *)
CommitsInRange(range) == {c \in Range(range) : ~c.merge}

(* Mutant: any sign-off will do.                                           *)
CheckCommitAnySignoff(c) == c.signoffs # {}

CheckCommit(c) ==
    \E s \in c.signoffs : Lower[s] \in {Lower[c.author], Lower[c.committer]}

CheckRange(range) ==
    \A c \in CommitsInRange(range) : ~c.separated /\ CheckCommit(c)

(* Nobody's contribution is without the certificate of a person who made   *)
(* it: a commit that is no merge is signed off by its author or committer. *)
Certified ==
    \A i \in DOMAIN commits :
        commits[i].merge \/ \E a \in {commits[i].author, commits[i].committer} :
                               Lower[a] \in {Lower[s] : s \in commits[i].signoffs}
=============================================================================
