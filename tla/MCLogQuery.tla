------------------------------ MODULE MCLogQuery ------------------------------
(***************************************************************************)
(* Instances of LogQuery for TLC.                                          *)
(***************************************************************************)
EXTENDS LogQuery, TLC

MCLog(num, tx, address, topics) ==
  [num |-> num, fork |-> 0, tx |-> tx, idx |-> 0, address |-> address, topics |-> topics]

\* One log with a topic and one without (a LOG0).
LogsTwo == {MCLog(1, "t1", "a", <<"x">>), MCLog(2, "t2", "b", <<>>)}

MCCriterion(hash, first, last, addresses, topics) ==
  [hash |-> hash, from |-> first, to |-> last, addresses |-> addresses, topics |-> topics]

MCBlock(num) == [num |-> num, fork |-> 0]

\* Ranges with wildcards (given, absent, negative and zero bounds, a range that
\* is too long, one that ends above the height), names, hashes, nothing.
CriteriaMixed ==
  {MCCriterion(NoHash, b[1], b[2], {}, <<{}>>) :
     b \in {<<1, 2>>, <<2, 2>>, <<NoBound, NoBound>>, <<-1, 3>>, <<0, 0>>,
            <<NoBound, 2>>, <<1, 3>>, <<1, 4>>}}
  \union {MCCriterion(NoHash, 1, 2, {"a"}, <<>>),
          MCCriterion(NoHash, 1, NoBound, {}, <<{}, {"x"}>>),
          MCCriterion(NoHash, 1, 1, {}, <<>>),
          MCCriterion(MCBlock(1), NoBound, NoBound, {}, <<>>),
          MCCriterion(MCBlock(2), NoBound, NoBound, {"b"}, <<{"x"}>>),
          MCCriterion(ZeroHash, NoBound, NoBound, {}, <<>>)}

CriteriaAddress == {MCCriterion(NoHash, 1, 1, {"a"}, <<>>)}
=============================================================================
