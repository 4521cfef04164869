----------------------------- MODULE MCWorkerBoot -----------------------------
(* Small instances of WorkerBoot for TLC.                                  *)
EXTENDS WorkerBoot, TLC

CONSTANTS w1, w2, repo, p1, p2

OneWorker == {w1}
TwoWorkers == {w1, w2}
OneRepo == {repo}
OnePrompt == {p1}
TwoPrompts == {p1, p2}

PromptSymmetry == Permutations({p1, p2})
WorkerSymmetry == Permutations({w1, w2})
===============================================================================
