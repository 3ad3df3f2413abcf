SPECIFICATION Spec
CONSTANTS
  MatchIds = {"m1", "m2"}
  Days = {1, 2}
  Leagues = {"epl", "cup"}
  Bookmakers <- MCBookmakers
  Bets <- MCBets
  Requests <- MCRequests
  Wide <- MCWide
  NoRow = NoRow
  NoBook = NoBook
  NoLineup = NoLineup
  NoFilter = NoFilter
  NoOdds = NoOdds
  MaxBets = 3
  MaxSettled = 1
  MaxSchedule = 4
INVARIANTS
  RowsReadBackAsSaved
  SettledAtTheOddsAsked
  ListingFollowsTheSchedule
CHECK_DEADLOCK FALSE
