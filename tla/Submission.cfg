CONSTANTS
  Paths = {"node_modules/d", "src/a.ts", "src/a.ts/b.ts", "src/d.ts", "src/d.ts/e.ts", "src/n.md", "test/t.mjs"}
  Position <- MCPosition
  Under <- MCUnder
  Fixture = {"src/a.ts", "src/d.ts/e.ts", "test/t.mjs"}
  Ignored = {"node_modules/d"}
  Editable = {"src/a.ts", "src/a.ts/b.ts", "src/d.ts", "src/d.ts/e.ts", "src/n.md", "test/t.mjs"}
  Protected = {"test/t.mjs"}
  AllowedNew = {"src/a.ts", "src/a.ts/b.ts", "src/d.ts"}
  Checks = 2
  NodeTests = {1}
  MaxRuns = 2
SPECIFICATION FairSpec
INVARIANTS CutCheckCloses AppliedIsWorkspace TrustedIsFresh AcceptedApplies PassIsEarned RecordsAgree
PROPERTIES ValidationEnds
CHECK_DEADLOCK FALSE
