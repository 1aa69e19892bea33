SPECIFICATION FairSpec
CONSTANTS
  Configs <- AllConfigs
  Uncompilable <- BadConfigs
  StartConfig <- Start
  Unreadable = Unreadable
  Docs = {"s2", "bad"}
  Reloaders = {watch, hup}
  Watcher = watch
  Agent = agent
  Flippers = {f}
  MaxEvents = 2
  MaxLeaks = 1
INVARIANTS RejectedLeavesNoTrace InForceOpen NoOrphan SettledAgree
PROPERTIES Converges
CHECK_DEADLOCK FALSE
