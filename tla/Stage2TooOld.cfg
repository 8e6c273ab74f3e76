SPECIFICATION Spec
CONSTANTS
  Images = {v10, v11, v9}
  Loadable = {v9, v10, v11}
  Accepted = {v10, v11}
  Absent = Absent
  Directory = Directory
  MaxFaults = 1
  LoadErrors = FALSE
PROPERTY StaysBootable
