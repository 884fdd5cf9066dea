SPECIFICATION Spec
CONSTANTS
 MaxFd = 5
 Console = Console
 Null = Null
 HostFs = HostFs
 None = None
 OpenModes = {"RDWR"}
 Handles = {h1, h2}
 ConsoleName <- MCConsoleName
 NullName <- MCNullName
 HostFsName <- MCHostFsName
 Names <- MCNames
INVARIANTS TableInv
PROPERTIES LockedStaysClosed ImplementsFileTable
