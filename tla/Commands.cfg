CONSTANTS Parts = {"renewal", "certificates", "options", "session",
                   "checkpoints"}
          Domains = {"a", "b"}
          MaxSuffix = 1
          MaxGiven = 4
          MaxKills = 1
          Others = {"A", "B"}
          Contended = {"logs", "server"}
          MaxRuns = 2
          MaxCommands = 3
          Second = 2
          Wrap = 14
          MaxTime = 7
          MaxName = 13
          MaxBackups = 4
          Files <- TwoFiles
          Confs <- RenewalParams
          Renewals <- RenewCommands
          Plugins <- Installed
          Machines <- States
          CommandLines <- Lines
SPECIFICATION MCSpec
INVARIANTS HooksPaired ReportIsTrue LineagesApart NothingLost Exclusive NamesInOrder
PROPERTIES RenewsAsAsked OthersSurvive RenewsAsIssued
