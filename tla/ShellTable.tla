----------------------------- MODULE ShellTable -----------------------------
(***************************************************************************)
(* The command table of src/lib/shell.c: the hash table and the sorted     *)
(* list, the registration of a command and the completion of its name.     *)
(*                                                                         *)
(* A string is a sequence of characters, and a character a number, so that *)
(* strcmp has an order; the end of the sequence is the nul character.  The *)
(* order within a bucket cannot be observed: a bucket is a set.            *)
(***************************************************************************)
EXTENDS Integers, Sequences

CONSTANTS
  Name,     \* the names passed to shell_cmd_register
  Bucket,
  Hash      \* hash_str

ASSUME TableAssumption ==
  /\ \A n \in Name : n \in Seq(Nat) /\ n # <<>>
  /\ Hash \in [Name -> Bucket]

VARIABLES
  shell_htable,
  shell_list

tableVars == <<shell_htable, shell_list>>

TableInit ==
  /\ shell_htable = [b \in Bucket |-> {}]
  /\ shell_list = <<>>

-----------------------------------------------------------------------------
\* strcmp(s, t) < 0
Less(s, t) ==
  \E k \in 1 .. Len(t) :
    /\ Len(s) >= k - 1 /\ SubSeq(s, 1, k - 1) = SubSeq(t, 1, k - 1)
    /\ IF Len(s) = k - 1 THEN TRUE ELSE s[k] < t[k]

Start(s, n) == SubSeq(s, 1, IF n < Len(s) THEN n ELSE Len(s))

\* strncmp(s, t, n) == 0
SamePrefix(s, t, n) == Start(s, n) = Start(t, n)

Least(S) == CHOOSE i \in S : \A j \in S : i <= j

\* The sequence s with x after its first i elements.
Insert(s, i, x) == SubSeq(s, 1, i) \o <<x>> \o SubSeq(s, i + 1, Len(s))

\* Faulty variant: the new command goes to the end of the list.
AddListLast(list, name) == Append(list, name)

\* shell_cmd_add_list: before the first command with a larger name.
AddList(list, name) ==
  LET larger == {i \in 1 .. Len(list) : Less(name, list[i])}
  IN  Insert(list, IF larger = {} THEN Len(list) ELSE Least(larger) - 1, name)

\* shell_cmd_register of a valid name; it fails for a name in the bucket.
Register(name) ==
  /\ name \notin shell_htable[Hash[name]]
  /\ shell_htable' = [shell_htable EXCEPT ![Hash[name]] = @ \cup {name}]
  /\ shell_list' = AddList(shell_list, name)

\* shell_cmd_lookup
Lookup(name) == name \in shell_htable[Hash[name]]

-----------------------------------------------------------------------------
\* shell_cmd_complete(word, size): the command found, if any, the new size,
\* and whether other commands match too (ERROR_AGAIN).  The common length is
\* computed from the first and the last of the commands that match.

NoMatch == [found |-> FALSE, again |-> FALSE, name |-> <<>>, size |-> 0]

CommonSize(s, t, size) ==
  LET from == IF size = 0 THEN 1 ELSE size
  IN  Least({k \in from .. Len(s) + 1 :
               IF k > Len(s) \/ k > Len(t) THEN TRUE ELSE s[k] # t[k]}) - 1

Complete(word, size) ==
  LET matching == {i \in 1 .. Len(shell_list) : SamePrefix(shell_list[i], word, size)}
      first == Least(matching)
      name  == shell_list[first]
      stops == {j \in first + 1 .. Len(shell_list) : ~SamePrefix(name, shell_list[j], size)}
      last  == (IF stops = {} THEN Len(shell_list) + 1 ELSE Least(stops)) - 1
  IN  IF matching = {} THEN NoMatch
      ELSE [found |-> TRUE, again |-> last > first, name |-> name,
            size |-> IF last = first THEN Len(name)
                     ELSE CommonSize(name, shell_list[last], size)]

-----------------------------------------------------------------------------
BeginsWith(s, prefix) == Len(s) >= Len(prefix) /\ SubSeq(s, 1, Len(prefix)) = prefix

\* What the comment of shell_cmd_complete promises: for the beginning of any
\* command the result is the part that all the commands that begin with it
\* have in common, and ERROR_AGAIN when there are several.
CompletesCommonPrefix ==
  \A n \in Name : \A k \in 0 .. Len(n) :
    LET prefix  == SubSeq(n, 1, k)
        matches == {i \in 1 .. Len(shell_list) : BeginsWith(shell_list[i], prefix)}
        c       == Complete(prefix, k)
        Shared(size) == \A i \in matches : BeginsWith(shell_list[i], SubSeq(c.name, 1, size))
    IN  /\ c.found <=> matches # {}
        /\ c.found => /\ c.size <= Len(c.name) /\ Shared(c.size)
                      /\ ~(Len(c.name) > c.size /\ Shared(c.size + 1))
                      /\ c.again <=> \E i, j \in matches : i # j
=============================================================================
