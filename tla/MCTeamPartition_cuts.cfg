CONSTANTS
  TeamSizes <- MCTeamSizes
  DataCounts <- MCDataCounts
  DataSizes <- MCDataSizes
  GATHER_THRESHOLD_MSG_SIZE = 3
SPECIFICATION Spec
INVARIANTS TypeOK CutIsShare Tiling MemberAgrees
