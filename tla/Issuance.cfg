CONSTANTS NDomains = 2
          MaxRounds = 2
          Outsiders = FALSE
          Clients = {1, 2}
          Guesses = {1, 2}
          MaxWait = 2
          Authzrs = {1, 2}
          MaxAttempts = 2
          MinTime = 2
          Delays = {1, 3}
          Trips = {0, 300000}
          UtcOffset = 0
          Day = 9
          MaxLength = 2
SPECIFICATION MCSpec
INVARIANTS NothingLeftBehind IssuedAsAsked RecordStays Restored OnceAndWhole
PROPERTIES KeptUntilDecided RespectsRetryAfter Ends
