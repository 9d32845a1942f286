----------------------------- MODULE MCChunking -----------------------------
(* All texts of at most MaxTokens tokens: after each token but the last    *)
(* the sentence goes on, another sentence begins, or another paragraph.    *)
EXTENDS Chunking

CONSTANT MaxTokens

Grown(t, after) ==
  LET p == t[Len(t)] IN
  CASE after = "word"      -> ReplaceAt(t, Len(t), ReplaceAt(p, Len(p), p[Len(p)] + 1))
    [] after = "sentence"  -> ReplaceAt(t, Len(t), Append(p, 1))
    [] after = "paragraph" -> Append(t, <<1>>)

Texts ==
  {<<>>} \cup
  UNION {{FoldLeft(Grown, <<<<1>>>>, breaks) :
             breaks \in [1..n - 1 -> {"word", "sentence", "paragraph"}]} : n \in 1..MaxTokens}

Settings ==
  {[provider |-> "unset", production |-> TRUE, width |-> 0],
   [provider |-> "unset", production |-> FALSE, width |-> 0],
   [provider |-> "openai", production |-> TRUE, width |-> 2],
   [provider |-> "local", production |-> TRUE, width |-> 1]}
=============================================================================
