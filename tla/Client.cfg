CONSTANTS Parts = {"nginx", "apache", "accounts"}
          Odd = FALSE
          Configs <- NginxConfigs
          Servers <- ApacheServers
          Keys = {1, 2, 3}
          Mails = {"m", "n", "bad"}
          BadMails = {"bad"}
          MaxCommands = 3
          MaxTrouble = 1
SPECIFICATION MCSpec
INVARIANTS ChallengeReachable Served NoPageLost ServerLoads Undone InStep
PROPERTY KeyKept
